---------------------------- MODULE MCStreamLoad ----------------------------
(* Small instances of StreamLoad: four rows, two of which share a cursor   *)
(* value, so that a batch boundary can fall between tied rows and a row    *)
(* can arrive behind a newer one.                                          *)
EXTENDS StreamLoad, TLC

CONSTANTS r1, r2, r3, r4

MCRow == {r1, r2, r3, r4}
TiedCursor == (r1 :> 1) @@ (r2 :> 2) @@ (r3 :> 2) @@ (r4 :> 3)
=============================================================================
