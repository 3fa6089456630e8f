---------------------------- MODULE MCSharedStream ----------------------------
(* Two builds of a source with one stream of at most three rows. *)
EXTENDS SharedStream

CONSTANTS a, b

TwoRuns == {a, b}
Everything == {Stream}
=============================================================================
