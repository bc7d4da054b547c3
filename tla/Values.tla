------------------------------- MODULE Values -------------------------------
(***************************************************************************)
(* The Go values of a message or an expression, interface{}: tuples that   *)
(* begin with their kind.  "int" and "float" are Go's numbers, "text",     *)
(* "b64", "hex", "durtext" and "rfc" are strings, "bytes", "gzip" and      *)
(* "trans" are []byte; "map" and "list" hold values.  The keys of a map    *)
(* are sequences: "a:b64" is <<"a", "b64">>.                               *)
(***************************************************************************)
EXTENDS Integers, Sequences

Kind(v)     == v[1]
IsMap(v)    == Kind(v) = "map"
IsText(v)   == Kind(v) \in {"text", "b64", "hex", "durtext", "rfc"}
IsBytes(v)  == Kind(v) \in {"bytes", "gzip", "trans"}
IsNumber(v) == Kind(v) \in {"int", "float"}
=============================================================================
