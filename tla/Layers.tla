------------------------------- MODULE Layers -------------------------------
(* The RESOLVE step of a run, the part of it that is a function of its input: *)
(* which folder a connector is loaded from, which target a pipeline writes    *)
(* to, what value a parameter has (engine/config.py, engine/discovery.py) and *)
(* which streams are in scope (engine/runner.py), beside what the docs promise*)
(* of each.  Values are read and coerced in many ways; here a value is good   *)
(* or bad for the type of its parameter, or null.                             *)
EXTENDS Naturals, Sequences, FiniteSets

Error == "error"

-----------------------------------------------------------------------------
(* resolve_params.  "base" and "own" are the params of a pipeline and of one  *)
(* of its streams or, for a destination, those of its target in profiles.yml  *)
(* and the destination_params of the pipeline.                                *)
Order == <<"default", "vars", "base", "own", "env", "override">>
Values == {"good", "bad", "null"}

\* Whether a layer counts: what is not declared has no default and no variable.
Counts(layer, declared) == declared \/ layer \notin {"default", "env"}

\* Mutant of Value: a later null leaves the value there is.
ValueSkipsNull(given, declared) ==
    LET after[i \in 0..Len(Order)] ==
            IF i = 0 THEN "null"
            ELSE IF Order[i] \in DOMAIN given /\ Counts(Order[i], declared) /\ given[Order[i]] # "null"
            THEN given[Order[i]] ELSE after[i - 1]
    IN  after[Len(Order)]

(* Each layer that mentions the parameter overwrites what was there, with a   *)
(* null too.                                                                  *)
Value(given, declared) ==
    LET after[i \in 0..Len(Order)] ==
            IF i = 0 THEN "null"
            ELSE IF Order[i] \in DOMAIN given /\ Counts(Order[i], declared)
            THEN given[Order[i]] ELSE after[i - 1]
    IN  after[Len(Order)]

\* _coerce_param and the check for a required parameter.
Param(given, declared, required) ==
    LET v == Value(given, declared)
    IN  IF declared /\ (v = "bad" \/ (v = "null" /\ required)) THEN Error ELSE v

-----------------------------------------------------------------------------
None == "none"

(* resolve_target_name; a block names the targets of a destination and the    *)
(* default among them.                                                        *)
Target(requested, block) ==
    IF requested # None THEN requested
    ELSE IF block.default # None THEN block.default
    ELSE IF Cardinality(block.targets) = 1 THEN CHOOSE x \in block.targets : TRUE
    ELSE IF block.targets = {} THEN "default"
    ELSE Error

(* find_source_folder, find_destination_folder: the first of the project's    *)
(* paths that has it, and then the one the package brings.                    *)
Folder(paths, has, baked) ==
    LET found == {i \in DOMAIN paths : paths[i] \in has}
    IN  IF found # {} THEN paths[CHOOSE i \in found : \A j \in found : i <= j]
        ELSE IF baked THEN "baked" ELSE Error

-----------------------------------------------------------------------------
(* _expand_stream_templates: what the hooks found, in order, takes the place  *)
(* of the templates; two streams of one name are an error, and so is a source *)
(* without any.                                                               *)
Expand(declared, found) ==
    LET names == {found[i] : i \in DOMAIN found}
    IN  IF names \cap declared # {} \/ Cardinality(names) < Len(found) \/ names \cup declared = {}
        THEN {Error} ELSE names \cup declared

\* _validate_streams_block: "*", or names that are all there.
Listed(streams, block) ==
    IF block = {"*"} THEN streams
    ELSE IF block \subseteq streams THEN block ELSE {Error}

\* run with --select: the streams that run.
InScope(listed, select) ==
    IF select = {} \/ listed = {Error} THEN listed
    ELSE IF select \subseteq listed THEN select ELSE {Error}

-----------------------------------------------------------------------------
(* docs/03-source-spec.md: the parameters of a run, lowest to highest.  The   *)
(* highest layer that mentions a parameter decides, whatever those below it   *)
(* hold, values of the wrong type and nulls included.                         *)
Precedence ==
    \A layers \in SUBSET {Order[i] : i \in DOMAIN Order} : \A given \in [layers -> Values] :
        \A declared, required \in BOOLEAN :
            LET decides(l) == /\ l \in layers /\ Counts(l, declared)
                              /\ \A i, j \in DOMAIN Order :
                                    Order[i] = l /\ j > i /\ Order[j] \in layers
                                        => ~Counts(Order[j], declared)
                p == Param(given, declared, required)
            IN  /\ \A l \in layers : decides(l) =>
                      p = given[l] \/ (declared /\ p = Error /\ given[l] \in {"bad", "null"})
                /\ p = Error => \/ \E l \in layers : decides(l) /\ given[l] \in {"bad", "null"}
                                \/ required /\ ~\E l \in layers : decides(l)

(* A run takes the streams its config and --select name, all of them and no   *)
(* other, each from one origin; or it takes none and says so.  Its target is  *)
(* one the profile defines unless somebody named it, and a project's own      *)
(* connector goes before the package's.                                       *)
Names == {"a", "b", "c"}
NamesDecide ==
    /\ \A declared, select \in SUBSET Names : \A n \in 0..2 : \A found \in [1..n -> Names] :
       \A block \in (SUBSET Names) \cup {{"*"}} :
          LET streams == Expand(declared, found)
              all == declared \cup {found[i] : i \in DOMAIN found}
              asked == IF block = {"*"} THEN all ELSE block
              r == IF streams = {Error} THEN {Error} ELSE InScope(Listed(streams, block), select)
          IN  r # {Error} =>
                 /\ asked \cup select \subseteq all
                 /\ r = (IF select = {} THEN asked ELSE asked \cap select)
                 /\ select \subseteq r
                 /\ \A i \in DOMAIN found : found[i] \notin declared
    /\ \A block \in [default : {None, "a"}, targets : SUBSET Names] :
          LET r == Target(None, block)
          IN  r \in block.targets \cup {block.default} \/ block.targets = {} \/ r = Error
    /\ \A has \in SUBSET Names : \A baked \in BOOLEAN :
          LET r == Folder(<<"a", "b">>, has, baked)
          IN  /\ r = "baked" => has \cap {"a", "b"} = {}
              /\ r = "b" => "a" \notin has
=============================================================================
