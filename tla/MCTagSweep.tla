----------------------------- MODULE MCTagSweep -----------------------------
(* Four pipelines, three of them to a destination that takes one writer.      *)
EXTENDS TagSweep
CONSTANTS duckdb, bigquery
MCDestOf == <<duckdb, duckdb, bigquery, duckdb>>
MCOwnCap == <<1, 1, 2, 1>>
=============================================================================
