-------------------------------- MODULE Eval --------------------------------
(***************************************************************************)
(* The evaluator of filter expressions, eval/eval.go: comparisons of an    *)
(* environment's values, under $not, $and, $or and $nor.                   *)
(*                                                                         *)
(* An expression, a JSON map with one entry, is a tuple that begins with   *)
(* its operator; {"a.b": x} is <<"field", <<"a", "b">>, x>>, and x may be  *)
(* a map with an operator, {"$lt": 3}.  <<"bad">> is anything else where   *)
(* an expression is expected.                                              *)
(***************************************************************************)
EXTENDS Values, Logic, FiniteSets, TLC

CONSTANTS
  Now,          \* the clock's values, as setBaseEnv writes them
  FloatKinds    \* the kinds of numbers that ei's Float64 converts; the library is
                \* external, and need not convert a time.Duration

ASSUME FloatAssumption == {"int", "float"} \subseteq FloatKinds

Nil == <<"nil">>

\* setBaseEnv overwrites what the environment says of these keys.
BaseEnv(env) == Now @@ env

\* getEnvValue; a key with a dot is looked up in the nested maps only.
RECURSIVE EnvValue(_, _)
EnvValue(env, path) ==
  LET k == <<Head(path)>>
      v == IF k \in DOMAIN env THEN env[k] ELSE Nil
  IN  CASE Len(path) = 1 -> v
        [] IsMap(v)      -> EnvValue(v[2], Tail(path))
        [] OTHER         -> Nil

\* isNumber asks for the reflected kind, which of a time.Duration is int64.
CanCastToNumber(v) == IsNumber(v) \/ Kind(v) \in {"dur", "bool"}
Converts(v) == Kind(v) \in FloatKinds \cup {"bool"}
ToFloat64(v) == IF Kind(v) = "bool" THEN (IF v[2] THEN 1 ELSE 0) ELSE v[2]

\* Mutant: numbers are compared within their Go type only.
ComparableByType(v, w) ==
  \/ CanCastToNumber(v) /\ Kind(v) = Kind(w)
  \/ IsText(v) /\ IsText(w)

Comparable(v, w) ==
  \/ CanCastToNumber(v) /\ CanCastToNumber(w)
  \/ IsText(v) /\ IsText(w)

\* The strings of kind "text" are ordered as their numbers; no other string is
\* compared with anything but for equality.
TextOrder(v, w) ==
  IF v = w THEN 0
  ELSE IF Kind(v) = "text" /\ Kind(w) = "text" THEN v[2] - w[2] ELSE 1

Cmp(v, w) ==
  IF CanCastToNumber(v) THEN ToFloat64(v) - ToFloat64(w) ELSE TextOrder(v, w)

\* in: == on interfaces, so the Go types must agree too; it panics when both
\* hold a map, or a list.  JSON has float64 for every number.
In(v, w) ==
  IF Kind(w) # "list" THEN "InvalidExpr"
  ELSE IF v = Nil THEN "InvalidEnvItem"
  ELSE LET clash == {i \in DOMAIN w[2] : Kind(w[2][i]) \in {"map", "list"}
                                           /\ Kind(w[2][i]) = Kind(v)}
       IN  IF clash # {} THEN "panic"
           ELSE Verdict(\E i \in DOMAIN w[2] : w[2][i] = v)

\* $regex; an expression matches its own text only.
Regex(v, w) ==
  CASE Kind(w) # "text" \/ w = <<"text", 0>> -> "InvalidExpr"
    [] ~IsText(v)                            -> "InvalidEnvItem"
    [] OTHER                                 -> Verdict(v = w)

\* cmp fails on what isNumber takes for a number and ei does not.
Unconverted(v, w) ==
  CanCastToNumber(v) /\ CanCastToNumber(w) /\ ~(Converts(v) /\ Converts(w))

\* evalCmp: v is the environment's, w the expression's.
EvalCmp(w, v, op) ==
  CASE IsMap(w) \/ Unconverted(v, w) -> "InvalidExpr"
    [] ~IsMap(w) /\ Comparable(v, w)
         /\ op \in {"$eq", "$ne", "$lt", "$lte", "$gt", "$gte"} ->
         Verdict(CASE op = "$eq"  -> Cmp(v, w) = 0
                   [] op = "$ne"  -> Cmp(v, w) # 0
                   [] op = "$gt"  -> Cmp(v, w) > 0
                   [] op = "$gte" -> Cmp(v, w) >= 0
                   [] op = "$lt"  -> Cmp(v, w) < 0
                   [] op = "$lte" -> Cmp(v, w) <= 0)
    [] ~IsMap(w) /\ op = "$in"    -> In(v, w)
    [] ~IsMap(w) /\ op = "$nin"   -> Negated(In(v, w))
    [] ~IsMap(w) /\ op = "$regex" -> Regex(v, w)
    [] OTHER -> IF v = Nil THEN "InvalidEnvItem" ELSE "TypeMismatch"

EvalOp(f, v) ==
  IF Cardinality(DOMAIN f) # 1 THEN "InvalidExpr"
  ELSE IF v = Nil THEN "InvalidEnvItem"
  ELSE LET k == CHOOSE k \in DOMAIN f : TRUE IN EvalCmp(f[k], v, k[1])

EvalSimple(w, v) == IF IsMap(w) THEN EvalOp(w[2], v) ELSE EvalCmp(w, v, "$eq")

RECURSIVE Evaluate(_, _)

Evaluate(e, env) ==
  CASE e[1] = "field"  -> EvalSimple(e[3], EnvValue(env, e[2]))
    [] e[1] = "not"    -> Negated(Evaluate(e[2], env))
    [] e[1] = "exists" -> Verdict(EnvValue(env, e[2]) # Nil)
    [] e[1] \in {"and", "or", "nor"} ->
         EvalListOp(e[1], [i \in DOMAIN e[2] |-> Evaluate(e[2][i], env)])
    [] e[1] = "true"   -> "ok"
    [] e[1] = "false"  -> "no"
    [] e[1] = "op"     -> "InvalidOp"
    [] e[1] = "bad"    -> "InvalidExpr"

EvalCompiled(e, env) == Evaluate(e, BaseEnv(env))

MergeExpressions(op, es) == <<op, es>>

\* evalMeta of events_bstates.go: does an event's meta pass the filter?
EvalMeta(meta, filter) ==
  LET r == EvalCompiled(filter, meta)
  IN  CASE r = "panic" -> "panic"
        [] r \in {"InvalidExpr", "InvalidOp", "TypeMismatch"} -> "error"
        [] OTHER -> Verdict(r = "ok")
=============================================================================
