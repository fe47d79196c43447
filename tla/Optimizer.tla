------------------------------ MODULE Optimizer ------------------------------
(***************************************************************************)
(* The constant folding of the optimizer (cova/optimize.go): a statement   *)
(* becomes one in which operators on numbers are replaced by their value.  *)
(* It has arithmetic and kinds of its own, and settles before the program  *)
(* runs what the compiled code would compute with the compiler's kinds.    *)
(*                                                                         *)
(* `kinds` has the variables in scope.  An expression that is refused is   *)
(* the expression "error", which the compiler refuses in its turn.         *)
(***************************************************************************)
EXTENDS SourceMeaning

Number(value, kind) == [e |-> "lit", value |-> value, of |-> kind]
Error == [e |-> "error"]

(* A truth value is folded as the byte it is kept in. *)
FoldingKind(kind) == IF kind = "Bool" THEN "Uint8" ELSE kind
(* What is left of the kind: only a float is told from an integer. *)
LiteralKind(kind) == IF kind = "Float32" THEN kind ELSE "Int32"

(* Integer operators make nothing of floats. *)
FoldArithmetic(kind, op, left, right) ==
  IF Undefined(op, right) THEN Error
  ELSE Number(IF kind = "Float32" /\ op \in Integral THEN 0
              ELSE Calculated(kind, op, left, right), LiteralKind(kind))

(* Unlike on the way to a bool, a fraction is cut off. *)
TruthOfLiteral(e) == Converted(e.of, "Int32", e.value) # 0
TruthLiteral(holds) == Number(IF holds THEN 1 ELSE 0, "Bool")

RECURSIVE OptimizeExpr(_, _, _)

(* Operands are folded in the kind that the operator is expected to yield, *)
(* those of a comparison in their common kind.                             *)
OptimizeBinary(e, expected, kinds) ==
  LET own == IF e.e = "cmp" THEN Promoted(KindIn(e.left, kinds), KindIn(e.right, kinds))
             ELSE expected
      kind == FoldingKind(own)
      value(literal) == Converted(literal.of, kind, literal.value)
  IN  With(OptimizeExpr(e.left, own, kinds), LAMBDA left :
      With(OptimizeExpr(e.right, own, kinds), LAMBDA right :
        CASE ~ (IsLiteral(left) /\ IsLiteral(right)) ->
               [e EXCEPT !.left = left, !.right = right]
          [] e.e = "cmp" -> TruthLiteral(Compared(e.op, value(left), value(right)) = 1)
          [] OTHER -> FoldArithmetic(kind, e.op, value(left), value(right))))

(* A left operand that decides keeps the right one from being looked at.   *)
OptimizeLogical(e, kinds) ==
  With(OptimizeExpr(e.left, "Int32", kinds), LAMBDA left :
    IF IsLiteral(left) /\ TruthOfLiteral(left) = (e.e = "or")
    THEN TruthLiteral(e.e = "or")
    ELSE With(OptimizeExpr(e.right, "Int32", kinds), LAMBDA right :
           IF IsLiteral(left) /\ IsLiteral(right) THEN TruthLiteral(TruthOfLiteral(right))
           ELSE [e EXCEPT !.left = left, !.right = right]))

OptimizeExpr(e, expected, kinds) ==
  CASE e.e \in {"arith", "cmp"} -> OptimizeBinary(e, expected, kinds)
    [] e.e \in {"and", "or"} -> OptimizeLogical(e, kinds)
    [] e.e \in {"not", "neg"} ->
         [e EXCEPT !.arg = OptimizeExpr(@, KindIn(@, kinds), kinds)]
    [] e.e = "tell" -> [e EXCEPT !.arg = OptimizeExpr(@, e.as, kinds)]
    [] e.e = "item" -> [e EXCEPT !.index = OptimizeExpr(@, "Int32", kinds)]
    [] OTHER -> e

-----------------------------------------------------------------------------
(* Statements.                                                             *)

RECURSIVE OptimizeStmt(_, _)

(* One statement after the other; a declaration counts for the next ones.  *)
OptimizeAll(statements, kinds) ==
  [i \in DOMAIN statements |->
     OptimizeStmt(statements[i], KindsAfter(SubSeq(statements, 1, i - 1), kinds))]

OptimizeCase(case, kinds) ==
  [value |-> OptimizeExpr(case.value, KindIn(case.value, kinds), kinds),
   body |-> OptimizeAll(case.body, kinds)]

OptimizeStmt(s, kinds) ==
  LET folded(e, kind) == OptimizeExpr(e, kind, kinds)
      perhaps(es, kind) == [i \in DOMAIN es |-> folded(es[i], kind)]
  IN  CASE s.s = "block" -> [s EXCEPT !.body = OptimizeAll(@, kinds)]
        [] s.s = "decl" -> [s EXCEPT !.init = perhaps(@, s.kind)]
        [] s.s = "if" ->
             [s EXCEPT !.cond = folded(@, "Int32"), !.then = OptimizeStmt(@, kinds),
                       !.else = OptimizeAll(@, kinds)]
        [] s.s \in {"while", "for"} ->
             [s EXCEPT !.init = OptimizeAll(@, kinds), !.cond = perhaps(@, "Int32"),
                       !.post = OptimizeAll(@, kinds), !.body = OptimizeStmt(@, kinds)]
        [] s.s = "switch" ->
             [s EXCEPT !.value = folded(@, KindIn(@, kinds)),
                       !.cases = [i \in DOMAIN @ |-> OptimizeCase(@[i], kinds)],
                       !.default = OptimizeAll(@, kinds)]
        [] s.s = "expr" -> [s EXCEPT !.value = folded(@, KindIn(@, kinds))]
        [] s.s = "assign" -> [s EXCEPT !.value = folded(@, KindIn(s.target, kinds))]
        [] OTHER -> s

Optimized(body) == OptimizeAll(body, << >>)
=============================================================================
