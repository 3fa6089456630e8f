------------------------------- MODULE MCLeases -------------------------------
(* Small instances of Leases: two runs of a source with one, two or four
   streams. *)
EXTENDS Leases

CONSTANTS a, b

TwoRuns == {a, b}
Everything == {Stream}
NonEmpty == SUBSET Stream \ {{}}
=============================================================================
