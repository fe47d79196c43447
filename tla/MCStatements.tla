---------------------------- MODULE MCStatements ----------------------------
(***************************************************************************)
(* Bodies of nested loops, switches and branches around what can leave     *)
(* them: break, continue, return, a variable that shadows another.  Every  *)
(* call passes a number of its own or the value of a variable, so that the *)
(* host can tell the ways through a body apart.  A while asks the host     *)
(* whether to go on, a for counts.  Then bodies around an expression: of   *)
(* each kind, assigned to a variable of each kind, used for an index, or   *)
(* of numbers only.                                                        *)
(***************************************************************************)
EXTENDS Statements

Lit(value) == Number(value, "Int32")
Halves(value) == Number(value, "Float32")
True == Number(1, "Bool")
Ask == [e |-> "ask"]
Both(left, right) == Binary("&&", left, right)
Either(left, right) == Binary("||", left, right)
Not(arg) == Unary("!", arg)
Neg(arg) == Unary("-", arg)

TellAs(kind, e) == [s |-> "expr", value |-> [e |-> "tell", as |-> kind, arg |-> e]]
Tell(e) == TellAs("Int32", e)
Discard == [s |-> "expr", value |-> Ask]
DeclAs(kind, x, init) == [s |-> "decl", kind |-> kind, x |-> x, init |-> init]
Decl(x, init) == DeclAs("Int32", x, init)
AssignTo(target, op, e) == [s |-> "assign", target |-> target, op |-> op, value |-> e]
Set(x, op, e) == AssignTo(Var(x), op, e)
Block(body) == [s |-> "block", body |-> body]
If(cond, then, else) ==
  [s |-> "if", cond |-> cond, then |-> Block(then), else |-> else]
Loop(kind, init, cond, post, body) ==
  [s |-> kind, init |-> init, cond |-> cond, post |-> post, body |-> Block(body)]
While(cond, body) == Loop("while", << >>, << cond >>, << >>, body)
(* At most twice round, whatever the body does. *)
For(i, body) ==
  Loop("for", << Set(i, "=", Lit(0)) >>, << Binary("<", Var(i), Lit(2)) >>,
       << Set(i, "+", Lit(1)) >>, body)
ForEver(body) == Loop("for", << >>, << >>, << >>, body)
Case(value, body) == [value |-> value, body |-> body]
Switch(value, cases, default) ==
  [s |-> "switch", value |-> value, cases |-> cases, default |-> default]

Leave(how) == [s |-> how]
Leaves == { Leave("break"), Leave("continue"), Leave("return") }

-----------------------------------------------------------------------------
(* What stands inside an outer statement. *)
Conditions ==
  { Ask, Binary("==", Var("x"), Lit(2)), Both(Ask, Ask), Either(Ask, Binary("<", Lit(1), Ask)),
    Both(Either(Ask, Var("x")), Ask), Either(Binary("<", Lit(1), Lit(2)), Ask) }

Inner ==
  { If(cond, << leave >>, << >>) : cond \in Conditions, leave \in Leaves }
    \cup { If(Ask, << leave >>, << Block(<< Tell(Lit(6)) >>) >>) : leave \in Leaves }
    \cup { Switch(Var("x"), << Case(Lit(0), << Tell(Lit(7)), leave >>),
                               Case(Lit(2), << Tell(Lit(8)) >>) >>, << other >>) :
             leave \in Leaves \cup { Tell(Lit(9)) }, other \in Leaves }
    \cup { While(Ask, << Discard, leave >>) : leave \in Leaves }
    \cup { Block(<< Decl("x", << Binary("+", Var("y"), Ask) >>), Tell(Var("x")), leave >>) :
             leave \in Leaves \cup { Set("x", "+", Lit(3)) } }
    \cup { If(Ask, << For("y", << leave >>) >>, << leave >>) : leave \in Leaves }

Outer(inner, i) ==
  { << While(Ask, << inner, Tell(Lit(1)) >>) >>,
    << For(i, << inner, Tell(Var(i)) >>) >>,
    << ForEver(<< Set("x", "=", Ask), inner, Tell(Lit(2)) >>) >>,
    << Switch(Var("x"), << Case(Lit(2), << inner, Tell(Lit(3)) >>), Case(Lit(0), << inner >>) >>,
              << Tell(Lit(4)) >>) >>,
    << If(Ask, << inner >>, << Tell(Lit(5)) >>) >> }

Around(inners, i) == UNION { Outer(inner, i) : inner \in inners }

Within(statements) ==
  << Decl("x", << Ask >>), Decl("y", << >>), Decl("i", << >>), Decl("j", << >>) >>
    \o statements \o << Tell(Var("x")) >>

(* Two deep with a plain condition, one deep with the others. *)
Plain == { inner \in Inner : inner.s = "if" => inner.cond = Ask }
NestedBodies ==
  { Within(statements) :
      statements \in Around(Inner, "i")
        \cup Around({ Block(outer) : outer \in Around(Plain, "i") }, "j") }

(* A name twice in one block, once in each of two, a stray continue after  *)
(* a loop, and expressions alone, as statements and in a for.              *)
Alone(e) == [s |-> "expr", value |-> e]
Stepping(init, post) == << Loop("for", << Alone(init) >>, << Ask >>, << Alone(post) >>, << >>) >>
OtherBodies ==
  { << Decl("x", << >>), Decl("x", << >>) >>,
    << Decl("x", << >>), Block(<< Decl("x", << Lit(2) >>) >>), Block(<< Decl("x", << >>) >>) >>,
    << While(Ask, << Leave("continue") >>), Leave("continue") >> }
    \cup { << Tell(Lit(1)), Alone(e) >> :
             e \in { Lit(3), Item(Lit(1)), Not(Ask), Neg(Ask), Either(Ask, Ask),
                     Binary("+", Lit(1), Lit(2)), Binary("==", Ask, Ask) } }
    \cup { Stepping(init, post) :
             init \in { Ask, Lit(0) }, post \in { Ask, Binary("+", Ask, Lit(1)) } }

-----------------------------------------------------------------------------
(* Expressions over one variable of each kind and the array. *)
Operands == { Ask, Var("n"), Var("f"), Var("b"), Var("u"), Lit(3), Halves(3), True }
Operators == {"+", "-", "%", "<<"}

Mixed ==
  { Binary(op, left, right) : op \in Operators, left \in Operands, right \in Operands }
    \cup { Binary(op, left, right) : op \in {"==", "<"}, left \in Operands, right \in Operands }
    \cup { Neg(operand) : operand \in Operands } \cup { Not(operand) : operand \in Operands }
    \cup { Binary("/", Lit(7), Ask), Binary("-", Binary("*", Lit(2), Lit(5)), Var("n")),
           Binary("/", Lit(7), Lit(2)), Binary("/", Ask, Binary("-", Lit(1), Lit(1))),
           Binary("*", Var("f"), Lit(2)), Binary("/", Var("f"), Halves(1)),
           Binary("*", Halves(3), Lit(2)), Binary("+", Var("f"), Binary("/", Lit(7), Lit(2))),
           Both(Lit(0), Binary("/", Lit(1), Lit(0))), Either(Ask, Binary("%", Lit(1), Lit(0))),
           Item(Ask), Item(Binary("+", Lit(1), Lit(1))), Item(Binary("+", Lit(1), Lit(2))),
           Item(Lit(2)), Item(Lit(3)), Item(Halves(2)), Item(Neg(Ask)),
           Item(Item(Lit(1))), Either(Halves(1), Ask), Both(Halves(2), Var("f")) }

(* What an expression uses is given a value that depends on an answer. *)
Preparing ==
  << DeclAs("Int8", "n", << Ask >>), DeclAs("Float32", "f", << Binary("-", Halves(5), Var("n")) >>),
     DeclAs("Bool", "b", << Var("n") >>), DeclAs("Uint8", "u", << Neg(Var("n")) >>),
     AssignTo(Item(Lit(1)), "=", Lit(2)), AssignTo(Item(Lit(2)), "-", Lit(3)) >>
Prepared(names, statements) ==
  SelectSeq(Preparing, LAMBDA s : (IF s.s = "decl" THEN s.x ELSE "array") \in names \cup {"n"})
    \o statements
Names(e) ==
  UNION { CASE part.e = "var" -> {part.x} [] part.e = "item" -> {"array"} [] OTHER -> {} :
            part \in Parts(e) }

ExpressionBodies ==
  { Prepared(Names(e) \cup {x}, << Set(x, "=", e), TellAs("Float32", Var(x)) >>) :
      x \in {"n", "f", "b", "u"}, e \in Mixed }
    \cup { Prepared(Names(e), << If(e, << TellAs("Int8", e) >>, << >>) >>) : e \in Mixed }
    \cup { Prepared({"b", "array"}, << AssignTo(Item(e), "+", Var("n")), Tell(Item(Lit(0))),
                                      Tell(Item(Lit(2))) >>) :
             e \in { Binary("+", Var("n"), Var("b")), Lit(0), Ask, Var("n"), Halves(0) } }
    \cup { Prepared(Names(e), << Switch(e, << Case(Lit(2), << Tell(Lit(1)), Discard >>),
                                            Case(Halves(3), << Tell(Lit(2)) >>) >>,
                                        << Tell(Lit(3)) >>),
                                 Tell(Var("n")) >>) :
             e \in Operands }
    (* The variable of the block has another kind than the one it hides.   *)
    \cup { Prepared({}, << Block(<< DeclAs(kind, "n", << Binary("<", Var("n"), Lit(1)) >>),
                                   Set("n", "+", Binary("+", Lit(7), Lit(7))),
                                   TellAs("Float32", Var("n")) >>),
                          Tell(Var("n")) >>) :
             kind \in {"Int32", "Float32", "Uint8", "Bool"} }

(* Two operators, either around the other; prefix operators in and around  *)
(* them; and an if in an if, with an else for the inner or for the outer.  *)
Grouped(op, other) ==
  { Binary(op, Binary(other, Ask, Lit(3)), Lit(2)), Binary(op, Lit(3), Binary(other, Ask, Lit(2))) }
GroupedExpressions ==
  UNION { Grouped(op, other) : op \in Infix, other \in Infix }
    \cup UNION { { Not(Binary(op, Ask, Lit(2))), Binary(op, Not(Ask), Lit(2)), Neg(Neg(Lit(2))),
                  Neg(Binary(op, Lit(3), Ask)), Binary(op, Lit(3), Neg(Ask)) } : op \in Infix }
IfInIf ==
  LET inner(else) == [s |-> "if", cond |-> Ask, then |-> Tell(Lit(1)), else |-> else]
      outer(then, else) == [s |-> "if", cond |-> Ask, then |-> then, else |-> else]
      other == << Tell(Lit(2)) >>
  IN  { << outer(inner(other), << >>) >>, << outer(Block(<< inner(<< >>) >>), other) >>,
        << outer(inner(other), << inner(<< inner(other) >>) >>) >>, << outer(inner(<< >>), << >>) >> }

GroupedBodies ==
  { << TellAs(kind, e) >> : kind \in {"Int32", "Int8"}, e \in GroupedExpressions } \cup IfInIf

AllBodies == NestedBodies \cup OtherBodies \cup ExpressionBodies \cup GroupedBodies

(* if (ask() - 1), if (ask() % 2) and the like. *)
ConditionBodies ==
  { << If(Binary(op, Ask, right), << Tell(Lit(1)) >>, << >>) >> :
      op \in {"+", "-", "%"}, right \in { Lit(1), Lit(3), Ask } }

(* A loop that declares a variable, passes it and gives it a value. *)
ForgetfulBodies ==
  { << While(Ask, << Decl("x", << >>), Tell(Var("x")), Set("x", "=", Ask) >>) >> }

(* tell(0.5 && 1) and the like. *)
FoldedBodies ==
  { << Tell(Both(left, right)), Tell(Either(left, right)) >> :
      left \in { Lit(1), Halves(1) }, right \in { Lit(0), Halves(1), Halves(3) } }
=============================================================================
