---------------------------- MODULE SourceMeaning ----------------------------
(***************************************************************************)
(* What the statements of a script function mean (docs/LANGUAGE.md): which *)
(* calls a body makes, with which arguments, when the host gives these     *)
(* answers.  It is the reference for the code that Statements generates.   *)
(*                                                                         *)
(* A state of the reference run is the variables with their kinds, the     *)
(* items of one global array, the answers not yet used, the value of the   *)
(* last expression, how many results statements have thrown away, and the  *)
(* status: "next" goes on, "break", "continue" and "return" leave          *)
(* statements, "asking" waits for an answer to `call`, "fault" is over.    *)
(*                                                                         *)
(* Where the compiler is known to depart from the documents the run is in  *)
(* doubt from there on.  `doubts` says why:                                *)
(*   "torn"      an integer operator leaves a value of another width than  *)
(*               its context takes (compile.go 726-751), or is folded      *)
(*               where its operands are not integers;                      *)
(*   "truth"     sums of truth values stand for the truth of a sum, and    *)
(*               truth values are not ordered;                             *)
(*   "promoted"  + - * / in the kind wanted of the result (726, 743), not  *)
(*               in the common kind of the operands, give another value;   *)
(*   "twice"     an operand with a call is computed again (1206, 1365);    *)
(*   "fraction"  only if optimized: a literal below one is false           *)
(*               (optimize.go 246).                                        *)
(***************************************************************************)
EXTENDS TypedValues, SequencesExt

CONSTANT ArrayLength       \* of the global array of int32
ASSUME ArrayLengthAssumption == ArrayLength \in Nat \ {0}
ItemKind == "Int32"

(* Of this value: it is computed once, however often it is used. *)
With(value, Of(_)) == CHOOSE result \in { Of(v) : v \in {value} } : TRUE

-----------------------------------------------------------------------------
(* Expressions.                                                            *)

(* The kind of an expression, whatever is done with it. *)
RECURSIVE KindIn(_, _)
KindIn(e, kinds) ==
  CASE e.e = "lit" -> e.of
    [] e.e = "var" -> kinds[e.x]
    [] e.e = "item" -> ItemKind
    [] e.e = "ask" -> "Int32"
    [] e.e = "tell" -> "Void"
    [] e.e \in {"cmp", "and", "or", "not"} -> "Bool"
    [] e.e = "neg" -> KindIn(e.arg, kinds)
    [] e.e = "arith" -> Promoted(KindIn(e.left, kinds), KindIn(e.right, kinds))

RECURSIVE Parts(_)
Parts(e) ==
  {e} \cup CASE e.e \in {"arith", "cmp", "and", "or"} -> Parts(e.left) \cup Parts(e.right)
             [] e.e \in {"not", "neg", "tell"} -> Parts(e.arg)
             [] e.e = "item" -> Parts(e.index)
             [] OTHER -> {}
IsCall(e) == e.e \in {"ask", "tell"}
Asks(e) == \E part \in Parts(e) : IsCall(part)

Started(answers) ==
  [vars |-> << >>, items |-> [i \in 0 .. ArrayLength - 1 |-> 0], answers |-> answers,
   value |-> 0, status |-> "next", call |-> << >>, discarded |-> 0, doubts |-> {},
   promotes |-> TRUE]

GoesOn(r) == r.status = "next"
Kinds(r) == [x \in DOMAIN r.vars |-> r.vars[x].kind]
Yields(r, value) == [r EXCEPT !.value = value]
Doubted(r, doubt, if) == IF if THEN [r EXCEPT !.doubts = @ \cup {doubt}] ELSE r

(* r, once it has a value of one kind where another is wanted. *)
As(r, from, to) ==
  IF GoesOn(r) THEN Yields(r, Converted(from, to, r.value)) ELSE r

Answered(r, call) ==
  IF ~ GoesOn(r) THEN r
  ELSE IF r.answers = << >> THEN [r EXCEPT !.status = "asking", !.call = call]
  ELSE [r EXCEPT !.value = Head(r.answers), !.answers = Tail(r.answers)]

(* The value of e in the wanted kind. *)
RECURSIVE Eval(_, _, _)

(* Both operands in one kind; a step that fails has no value. *)
EvalBoth(e, r, kind, Of(_, _), Fails(_)) ==
  With(Eval(e.left, r, kind), LAMBDA left :
    With(Eval(e.right, left, kind), LAMBDA right :
      IF ~ GoesOn(right) THEN right
      ELSE IF Fails(right.value) THEN [right EXCEPT !.status = "fault"]
      ELSE Yields(right, Of(left.value, right.value))))

(* Mixed operands are promoted to a common kind (LANGUAGE.md 508).  The    *)
(* code computes the whole of a sum in the kind wanted of it: r.promotes   *)
(* is FALSE while that is followed, to see whether it gives another value. *)
EvalIn(e, r, in, kind) ==
  As(EvalBoth(e, r, in, LAMBDA left, right : Calculated(in, e.op, left, right),
              LAMBDA right : Undefined(e.op, right)),
     in, kind)
Differ(r, other) == r.status # other.status \/ (GoesOn(r) /\ r.value # other.value)

EvalSum(e, r, own, kind) ==
  IF ~ r.promotes THEN EvalIn(e, r, kind, kind)
  ELSE With(EvalIn(e, r, own, kind), LAMBDA promoted :
       With(EvalIn(e, [r EXCEPT !.promotes = FALSE], kind, kind), LAMBDA compiled :
         Doubted([promoted EXCEPT !.doubts = @ \cup compiled.doubts], "promoted",
                 Differ(promoted, compiled))))

EvalArithmetic(e, r, kind) ==
  LET own == KindIn(e, Kinds(r))
      torn == own \in {"Bool", "Float32"} \/ (own # kind /\ {own, kind} \cap Wide # {})
  IN  CASE e.op \in Integral -> EvalIn(e, Doubted(r, "torn", torn), own, kind)
        [] kind = "Bool" -> EvalIn(e, Doubted(r, "truth", TRUE), own, kind)
        [] OTHER -> EvalSum(e, r, own, kind)

EvalComparison(e, r) ==
  LET in == Promoted(KindIn(e.left, Kinds(r)), KindIn(e.right, Kinds(r)))
  IN  EvalBoth(e, Doubted(r, "truth", in = "Bool" /\ e.op # "=="), in,
               LAMBDA left, right : Compared(e.op, left, right), LAMBDA right : FALSE)

(* The right operand of && and || only if it matters. *)
Fraction(e) == e.e = "lit" /\ e.of = "Float32" /\ Magnitude(e.value) = 1
EvalLogical(e, r) ==
  With(Eval(e.left, Doubted(r, "fraction", Fraction(e.left)), "Bool"), LAMBDA left :
    IF (e.e = "and") = (left.value = 0) THEN left
    ELSE Eval(e.right, Doubted(left, "fraction", Fraction(e.right)), "Bool"))

EvalIndex(item, r) ==
  With(Eval(item.index, r, "Int32"), LAMBDA at :
    IF GoesOn(at) /\ at.value \notin DOMAIN at.items
    THEN [at EXCEPT !.status = "fault"] ELSE at)

Eval(e, r, kind) ==
  CASE ~ GoesOn(r) -> r
    [] e.e = "lit" -> As(Yields(r, e.value), e.of, kind)
    [] e.e = "var" -> As(Yields(r, r.vars[e.x].value), r.vars[e.x].kind, kind)
    [] e.e = "item" ->
         With(EvalIndex(e, r), LAMBDA at :
           IF GoesOn(at) THEN As(Yields(at, at.items[at.value]), ItemKind, kind) ELSE at)
    [] e.e = "ask" -> As(Answered(r, << "ask" >>), "Int32", kind)
    [] e.e = "tell" ->
         With(Eval(e.arg, r, e.as), LAMBDA arg : Answered(arg, << "tell", arg.value >>))
    [] e.e = "arith" -> EvalArithmetic(e, r, kind)
    [] e.e = "cmp" -> As(EvalComparison(e, r), "Bool", kind)
    [] e.e \in {"and", "or"} -> As(EvalLogical(e, r), "Bool", kind)
    [] e.e \in {"not", "neg"} ->
         LET own == KindIn(e.arg, Kinds(r))
             becomes(value) == IF e.e = "not" THEN 1 - Truth(value) ELSE Wrapped(own, - value)
         IN  With(Eval(e.arg, r, own), LAMBDA arg :
               As(Yields(arg, becomes(arg.value)), KindIn(e, Kinds(r)), kind))

-----------------------------------------------------------------------------
(* Statements.                                                             *)

(* A loop that ends, or a switch: a break has done its work. *)
AfterBreak(r) == IF r.status = "break" THEN [r EXCEPT !.status = "next"] ELSE r

Declared(r, s) == [r EXCEPT !.vars = (s.x :> [kind |-> s.kind, value |-> 0]) @@ @]

(* What a block declares hides what had the name outside. *)
LeftBlock(inner, r, body) ==
  LET hidden == { body[i].x : i \in { k \in DOMAIN body : body[k].s = "decl" } }
  IN  [inner EXCEPT !.vars =
         [x \in DOMAIN r.vars |-> IF x \in hidden THEN r.vars[x] ELSE inner.vars[x]]]

Stored(r, target) ==
  IF ~ GoesOn(r) THEN r
  ELSE IF target.e = "var" THEN [r EXCEPT !.vars[target.x].value = r.value]
  ELSE With(EvalIndex(target, r), LAMBDA at :
         IF GoesOn(at) THEN [at EXCEPT !.items[at.value] = r.value] ELSE at)

(* What an assignment assigns: += and its like compute with the target. *)
Assigns(s) ==
  IF s.op = "=" THEN s.value
  ELSE [e |-> "arith", op |-> s.op, left |-> s.target, right |-> s.value]

RECURSIVE Exec(_, _)
RECURSIVE ExecAll(_, _)
RECURSIVE Repeat(_, _)

ExecAll(statements, r) ==
  IF statements = << >> \/ ~ GoesOn(r) THEN r
  ELSE With(Exec(Head(statements), r), LAMBDA next : ExecAll(Tail(statements), next))

(* Once round the loop if the test holds, and again unless that leaves it. *)
Round(loop, test) ==
  With(Exec(loop.body, test), LAMBDA once :
    IF once.status \in {"next", "continue"}
    THEN With(ExecAll(loop.post, [once EXCEPT !.status = "next"]),
              LAMBDA next : Repeat(loop, next))
    ELSE AfterBreak(once))

Repeat(loop, r) ==
  With(IF loop.cond = << >> THEN Yields(r, 1) ELSE Eval(loop.cond[1], r, "Bool"),
       LAMBDA test :
         IF GoesOn(test) /\ test.value # 0 THEN Round(loop, test) ELSE test)

(* The case that matches first, and what comes after it. *)
SwitchBody(s, kind, value) ==
  LET matches(case) ==
        LET in == Promoted(kind, case.value.of)
        IN  Converted(kind, in, value) = Converted(case.value.of, in, case.value.value)
      matching == { i \in DOMAIN s.cases : matches(s.cases[i]) }
      from == IF matching = {} THEN Len(s.cases) + 1 ELSE Min(matching)
  IN  FlattenSeq([i \in 1 .. Len(s.cases) - from + 1 |-> s.cases[from + i - 1].body])
        \o s.default

Exec(s, r) ==
  CASE ~ GoesOn(r) -> r
    [] s.s = "expr" ->
         With(Eval(s.value, r, KindIn(s.value, Kinds(r))), LAMBDA called :
           IF GoesOn(called) /\ s.value.e = "ask"
           THEN [called EXCEPT !.discarded = @ + 1] ELSE called)
    [] s.s = "decl" ->                 \* zero without an initializer
         With(Declared(r, s), LAMBDA declared :
           IF s.init = << >> THEN declared
           ELSE Stored(Eval(s.init[1], declared, s.kind), [e |-> "var", x |-> s.x]))
    [] s.s = "assign" ->
         LET noted == Doubted(r, "twice", s.op # "=" /\ Asks(s.target))
         IN  With(Eval(Assigns(s), noted, KindIn(s.target, Kinds(r))),
                  LAMBDA value : Stored(value, s.target))
    [] s.s = "block" ->
         With(ExecAll(s.body, r), LAMBDA inner : LeftBlock(inner, r, s.body))
    [] s.s = "if" ->
         With(Eval(s.cond, r, "Bool"), LAMBDA test :
           IF ~ GoesOn(test) THEN test
           ELSE ExecAll(IF test.value # 0 THEN << s.then >> ELSE s.else, test))
    [] s.s \in {"while", "for"} ->
         With(ExecAll(s.init, r), LAMBDA started :
           IF GoesOn(started) THEN Repeat(s, started) ELSE started)
    [] s.s = "switch" ->
         LET kind == KindIn(s.value, Kinds(r))
             noted == Doubted(r, "twice", Asks(s.value) /\ Len(s.cases) # 1)
         IN  With(Eval(s.value, noted, kind), LAMBDA value :
               IF ~ GoesOn(value) THEN value
               ELSE With(ExecAll(SwitchBody(s, kind, value.value), value), AfterBreak))
    [] s.s \in {"break", "continue", "return"} -> [r EXCEPT !.status = s.s]

Meaning(body, answers) == ExecAll(body, Started(answers))

-----------------------------------------------------------------------------
(* What a body may not contain.                                            *)

(* The kinds of what is visible after these statements of a block. *)
KindsAfter(statements, kinds) ==
  FoldLeft(LAMBDA before, s : IF s.s = "decl" THEN (s.x :> s.kind) @@ before ELSE before,
           kinds, statements)

(* All expressions in statements, each with the kinds its names have there. *)
RECURSIVE Expressions(_, _)
ExpressionsOf(statements, kinds) ==
  UNION { Expressions(statements[i], KindsAfter(SubSeq(statements, 1, i), kinds)) :
            i \in DOMAIN statements }
Expressions(s, kinds) ==
  LET of(e) == { [e |-> part, kinds |-> kinds] : part \in Parts(e) }
      first(es) == IF es = << >> THEN {} ELSE of(es[1])
      within(statements) == ExpressionsOf(statements, kinds)
  IN  CASE s.s = "expr" -> of(s.value)
        [] s.s = "decl" -> first(s.init)
        [] s.s = "assign" -> of(s.value) \cup of(s.target)
        [] s.s = "block" -> within(s.body)
        [] s.s = "if" -> of(s.cond) \cup within(<< s.then >> \o s.else)
        [] s.s \in {"while", "for"} ->
             first(s.cond) \cup within(<< s.body >> \o s.init \o s.post)
        [] s.s = "switch" ->
             of(s.value) \cup within(s.default)
               \cup UNION { within(s.cases[i].body) : i \in DOMAIN s.cases }
        [] OTHER -> {}

(* An index is an integer, inside the array when it is written as a        *)
(* number; the operands of an integer operator are integers; a truth value *)
(* has no sign.                                                            *)
IsLiteral(e) == e.e = "lit"
WellFormed(e, kinds) ==
  CASE e.e = "item" ->
         /\ KindIn(e.index, kinds) # "Float32"
         /\ IsLiteral(e.index) => e.index.value \in 0 .. ArrayLength - 1
    [] e.e = "arith" /\ e.op \in Integral -> KindIn(e, kinds) \notin {"Float32", "Bool"}
    [] e.e = "neg" -> KindIn(e.arg, kinds) # "Bool"
    [] OTHER -> TRUE

(* A break belongs to a loop or a switch, a continue to a loop, a block    *)
(* declares a name once, and an expression alone is a call.                *)
RECURSIVE WellPlaced(_, _, _)
WellPlacedAll(statements, inLoop, inSwitch) ==
  /\ \A i \in DOMAIN statements : WellPlaced(statements[i], inLoop, inSwitch)
  /\ \A i, k \in DOMAIN statements :
       statements[i].s = "decl" /\ statements[k].s = "decl" /\ i # k
         => statements[i].x # statements[k].x

WellPlaced(s, inLoop, inSwitch) ==
  CASE s.s = "break" -> inLoop \/ inSwitch
    [] s.s = "continue" -> inLoop
    [] s.s = "block" -> WellPlacedAll(s.body, inLoop, inSwitch)
    [] s.s = "if" -> WellPlacedAll(<< s.then >> \o s.else, inLoop, inSwitch)
    [] s.s \in {"while", "for"} ->
         /\ WellPlacedAll(s.init \o s.post, inLoop, inSwitch)
         /\ WellPlaced(s.body, TRUE, inSwitch)
    [] s.s = "switch" ->
         /\ \A i \in DOMAIN s.cases : WellPlacedAll(s.cases[i].body, inLoop, TRUE)
         /\ WellPlacedAll(s.default, inLoop, TRUE)
    [] s.s = "expr" -> IsCall(s.value)
    [] OTHER -> TRUE

Acceptable(body) ==
  /\ WellPlacedAll(body, FALSE, FALSE)
  /\ \A part \in ExpressionsOf(body, << >>) : WellFormed(part.e, part.kinds)

(* Quotients and the like of numbers, and indices that come out of numbers *)
(* alone, are settled before the compiler sees them.                       *)
Fixed(e) == \A part \in Parts(e) : part.e \notin {"var", "item", "ask", "tell"}
SettledInAdvance(e) ==
  \/ e.e = "arith" /\ e.op \in {"/"} \cup Integral /\ Fixed(e)
  \/ e.e = "item" /\ Fixed(e.index)
=============================================================================
