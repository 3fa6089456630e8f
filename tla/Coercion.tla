------------------------------ MODULE Coercion ------------------------------
(* The NORMALIZE step (engine/normalize.py): a source value, of one of the    *)
(* kinds a connector can yield, becomes the canonical Python value of its     *)
(* column's FieldType, NULL, or a CoercionError.  A kind stands for all the   *)
(* values that every branch treats alike.                                     *)
Types == {"STRING", "INTEGER", "FLOAT", "BOOLEAN", "TIMESTAMP", "DATE", "JSON", "BYTES"}

(* 0 or 1, an integer, one beyond 64 bits; a float without a fraction, one    *)
(* beyond 64 bits, one with a fraction; below, the same as text, where both   *)
(* that are beyond are one kind.  "number" is a Decimal.                      *)
Numbers == {"bit", "int", "huge", "whole", "vast", "float"}
Texts == {"empty", "bitText", "digits", "hugeText", "wholeText", "decimal",
          "dateText", "timeText", "yes", "text"}
Kinds == {"null", "bool", "number", "date", "timestamp", "json", "bytes"} \cup Numbers \cup Texts

Error == "CoercionError"

Each(kinds, result) == [v \in kinds |-> result]

\* What f says, and what g says of the rest.
Joined(f, g) == [x \in DOMAIN f \cup DOMAIN g |-> IF x \in DOMAIN f THEN f[x] ELSE g[x]]

\* str(value)
TextOf ==
    [v \in Kinds \ {"null"} |->
        CASE v \in Texts -> v
          [] v = "bit" -> "bitText"
          [] v = "int" -> "digits"
          [] v \in {"huge", "vast"} -> "hugeText"
          [] v = "whole" -> "wholeText"
          [] v \in {"float", "number"} -> "decimal"
          [] v = "bool" -> "yes"
          [] v = "date" -> "dateText"
          [] v = "timestamp" -> "timeText"
          [] v \in {"json", "bytes"} -> "text"]

\* What each _to_<type> accepts, and what it makes of it.
Accepted == [
    STRING    |-> TextOf,
    INTEGER   |-> Joined([v \in {"bit", "int", "huge"} |-> v],
                  Joined(Each({"bitText"}, "bit"),
                  Joined(Each({"vast", "hugeText"}, "huge"),
                         Each({"whole", "wholeText", "digits"}, "int")))),
    FLOAT     |-> Joined(Each({"bit", "int", "whole", "bitText", "digits", "wholeText"},
                              "whole"),
                  Joined(Each({"huge", "vast", "hugeText"}, "vast"),
                         Each({"float", "decimal", "number"}, "float"))),
    BOOLEAN   |-> Each({"bool", "bit", "bitText", "yes"}, "bool"),
    TIMESTAMP |-> Each({"timestamp", "date", "dateText", "timeText", "bit", "int", "whole",
                        "float", "bitText", "digits", "wholeText", "decimal"}, "timestamp"),
    DATE      |-> Each({"date", "timestamp", "dateText"}, "date"),
    JSON      |-> [v \in Kinds |-> v],
    BYTES     |-> Each({"bytes"} \cup Texts, "bytes")]

\* Mutant of Coerce: an isinstance check for int that lets a bool through.
CoerceBoolAsInt(v, t) ==
    IF v = "null" \/ (v = "empty" /\ t # "STRING") THEN "null"
    ELSE IF v = "bool" /\ t = "INTEGER" THEN v
    ELSE IF v \in DOMAIN Accepted[t] THEN Accepted[t][v]
    ELSE Error

Coerce(v, t) ==
    IF v = "null" \/ (v = "empty" /\ t # "STRING") THEN "null"
    ELSE IF v \in DOMAIN Accepted[t] THEN Accepted[t][v]
    ELSE Error

\* _drift_fallback: the text of the value where the column can keep one.
Fallback(v, t) == IF t \in {"STRING", "JSON"} THEN TextOf[v] ELSE "null"

\* _infer_field_type: the type of a column from one sample.
Inferred(v) ==
    CASE v = "bool" -> "BOOLEAN"
      [] v \in {"bit", "int", "huge"} -> "INTEGER"
      [] v \in {"whole", "vast", "float"} -> "FLOAT"
      [] v = "timestamp" -> "TIMESTAMP"
      [] v = "date" -> "DATE"
      [] v = "json" -> "JSON"
      [] OTHER -> "STRING"

\* What a destination's encoder expects to find in a column of each type.
Canonical == [
    STRING |-> Texts,
    INTEGER |-> {"bit", "int", "huge"},
    FLOAT |-> {"whole", "vast", "float"},
    BOOLEAN |-> {"bool"}, TIMESTAMP |-> {"timestamp"}, DATE |-> {"date"},
    JSON |-> Kinds, BYTES |-> {"bytes"}]
=============================================================================
