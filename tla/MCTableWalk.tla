---------------------------- MODULE MCTableWalk ----------------------------
(* Small instances of TableWalk: three rows, which take two pages.         *)
EXTENDS TableWalk

MCPk == 1 .. 3
=============================================================================
