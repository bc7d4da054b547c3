------------------------------ MODULE Filters -------------------------------
(***************************************************************************)
(* Messages whose map is the meta of an event, and the filters a query     *)
(* evaluates on it where it arrives.                                       *)
(***************************************************************************)
EXTENDS Messages, Eval

CONSTANT Atoms    \* expressions without $and, $or, $nor

\* Expressions a user or the access rules of a domain are merged to.
Merged == {MergeExpressions(op, <<a, b>>) : op \in {"and", "or", "nor"}, a, b \in Atoms}

\* What an expression says, when nothing in it errs.
RECURSIVE Truth(_, _)
Truth(e, env) ==
  CASE e[1] = "and" -> \A i \in DOMAIN e[2] : Truth(e[2][i], env)
    [] e[1] = "or"  -> \E i \in DOMAIN e[2] : Truth(e[2][i], env)
    [] e[1] = "nor" -> \A i \in DOMAIN e[2] : ~Truth(e[2][i], env)
    [] e[1] = "not" -> ~Truth(e[2], env)
    [] OTHER        -> Evaluate(e, env) = "ok"

\* A filter looks for a number in a list.
ListsNumber(e) ==
  /\ e[1] = "field" /\ IsMap(e[3])
  /\ \E k \in DOMAIN e[3][2] :
       /\ k[1] \in {"$in", "$nin"}
       /\ Kind(e[3][2][k]) = "list"
       /\ \E i \in DOMAIN e[3][2][k][2] : IsNumber(e[3][2][k][2][i])

Delivered == stage = "delivered" /\ shape = "map" /\ enc # "store"

\* Whether an event passes a filter does not depend on the encoding its meta
\* came with, although numbers change their Go types: a comparison converts.
\* Only $in and $nin do not, so a number from a list is found with JSON alone.
SameFilter ==
  Delivered /\ Distinct(origin) =>
    \A a \in Atoms, e \in Encodings :
      ListsNumber(a) \/ EvalMeta(data, a) = EvalMeta(Meaning(origin, e), a)

\* The operators over lists are those of logic as long as no operand errs; an
\* operand that errs is an error unless an operand before it has decided.
LogicHolds ==
  Delivered =>
    \A e \in Merged :
      LET r    == Evaluate(e, data)
          a    == Evaluate(e[2][1], data)
          b    == Evaluate(e[2][2], data)
      IN  /\ ~Errs(a) /\ ~Errs(b) => r = Verdict(Truth(e, data))
          /\ Errs(a) => r = a
          /\ Errs(b) /\ ~Errs(a) => r \in {b, Verdict(Truth(e, data))}
          /\ e[1] = "nor" => r = Negated(Evaluate(<<"or", e[2]>>, data))
=============================================================================
