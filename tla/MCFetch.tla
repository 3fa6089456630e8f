------------------------------- MODULE MCFetch -------------------------------
(* Small instances of Fetch: three rows on pages of two, two tries.        *)
EXTENDS Fetch

MCRows == 1 .. 3
MCApis == DOMAIN Policy
=============================================================================
