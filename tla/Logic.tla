-------------------------------- MODULE Logic --------------------------------
(***************************************************************************)
(* $and, $or and $nor of the evaluator, evalListOp of eval/eval.go, on the *)
(* sequence of what its operands evaluate to.  A result is "ok", "no", or  *)
(* anything else, which is an error.                                       *)
(***************************************************************************)
EXTENDS Integers, Sequences

Verdict(b) == IF b THEN "ok" ELSE "no"
Negated(r) == IF r = "ok" THEN "no" ELSE IF r = "no" THEN "ok" ELSE r

Errs(r) == r \notin {"ok", "no"}

\* Mutant: an operand that holds makes $nor hold.
DecidedLikeOr(op) == IF op = "and" THEN "no" ELSE "ok"

\* The result of an operand that ends evalListOp, and what it then returns.
Decides(op) == IF op = "and" THEN "no" ELSE "ok"
Decided(op) == IF op = "or" THEN "ok" ELSE "no"

\* The operands the loop does not go past.
Stops(op, results) ==
  {i \in DOMAIN results : Errs(results[i]) \/ results[i] = Decides(op)}

\* The first operand that errs or decides ends it.
EvalListOp(op, results) ==
  IF Stops(op, results) = {} THEN Verdict(op # "or")
  ELSE LET i == CHOOSE i \in Stops(op, results) :
                  \A j \in Stops(op, results) : i <= j
       IN  IF Errs(results[i]) THEN results[i] ELSE Decided(op)
=============================================================================
