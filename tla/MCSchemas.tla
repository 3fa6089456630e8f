----------------------------- MODULE MCSchemas -----------------------------
(* Values for the constants of Schemas.                                       *)
EXTENDS Schemas

MCBatches == {
    <<[x |-> "int"], [y |-> "bool"]>>, <<[x |-> "null"], [x |-> "bool"]>>, <<[x |-> "float"]>>,
    <<[x |-> "int", y |-> "text"]>>, <<[x |-> "huge"]>>}
MCDeclarations == {<<>>, [x |-> "INTEGER"]}
MCConfigurations == {<<>>, [y |-> "JSON"]}
=============================================================================
