--------------------------- MODULE MCBigQueryLoad ---------------------------
(* A small instance of BigQueryLoad: two keys; a batch with a duplicate key, *)
(* one with a single row and an empty one.                                   *)
EXTENDS BigQueryLoad, TLC

CONSTANTS k1, k2

MCKey == {k1, k2}
MCPayload == {<<>>, <<k2>>, <<k1, k2, k1>>}
=============================================================================
