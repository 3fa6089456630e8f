------------------------------ MODULE MCExtract ------------------------------
(* Small instances of Extract.                                             *)
EXTENDS Extract

MCPartOf == [r \in Rows |-> 1 + (r % 2)]
MCStreams == Cursored \cup Snapshots
=============================================================================
