------------------------------ MODULE SourceText ------------------------------
(***************************************************************************)
(* How statements are written in the grammar of docs/LANGUAGE.md (lines    *)
(* 75-140 and 506), with parentheses only where the grammar needs them.    *)
(* It is the reference for the parser: what is written so is to be read as *)
(* the statements it was written from.                                     *)
(***************************************************************************)
EXTENDS Naturals, Sequences

Mark(kind) == << << kind, 0 >> >>              \* texts of one token
Name(x) == << << "name", x >> >>
Operator(op) == << << "assign", op >> >>
InParens(text) == Mark("(") \o text \o Mark(")")
Line(text) == text \o Mark("newline")

(* From the weakest to the strongest; then the prefix operators, and last  *)
(* what needs no parentheses anywhere.                                     *)
Precedence ==
  << {"||"}, {"&&"}, {"=="}, {"<"}, {"<<"}, {"+", "-"}, {"*", "/", "%"} >>
PrefixStrength == Len(Precedence) + 1
Strength(op) == CHOOSE i \in DOMAIN Precedence : op \in Precedence[i]

SignOf(e) ==
  CASE e.e = "and" -> "&&" [] e.e = "or" -> "||" [] e.e = "not" -> "!" [] e.e = "neg" -> "-"
    [] OTHER -> e.op
StrengthOf(e) ==
  CASE e.e \in {"and", "or", "cmp", "arith"} -> Strength(SignOf(e))
    [] e.e \in {"not", "neg"} -> PrefixStrength
    [] OTHER -> PrefixStrength + 1

(* Calls and indices stand to the right of a name. *)
Postfixed(e) == e.e \in {"item", "ask", "tell"}

(* A careful author puts such an operand of a prefix operator in           *)
(* parentheses, though by the grammar it needs none.                       *)
RECURSIVE Spelled(_, _)
Spelled(e, careful) ==
  LET inside(part) == Spelled(part, careful)
      operand(part, strength) ==
        IF StrengthOf(part) < strength THEN InParens(inside(part)) ELSE inside(part)
  IN  CASE e.e = "lit" -> << << "number", << e.value, e.of >> >> >>
        [] e.e = "var" -> Name(e.x)
        [] e.e = "item" -> Name("array") \o Mark("[") \o inside(e.index) \o Mark("]")
        [] e.e = "ask" -> Name("ask") \o InParens(<< >>)
        [] e.e = "tell" -> Name(e.as) \o InParens(inside(e.arg))
        [] e.e \in {"not", "neg"} ->
             Mark(SignOf(e)) \o IF careful /\ Postfixed(e.arg) THEN InParens(inside(e.arg))
                                ELSE operand(e.arg, PrefixStrength)
        [] OTHER ->
             operand(e.left, StrengthOf(e)) \o Mark(SignOf(e))
               \o operand(e.right, StrengthOf(e) + 1)

RECURSIVE Written(_, _), WrittenAll(_, _), WrittenCases(_, _)
WrittenAll(statements, careful) ==
  IF statements = << >> THEN << >>
  ELSE Written(Head(statements), careful) \o WrittenAll(Tail(statements), careful)

WrittenCases(cases, careful) ==
  IF cases = << >> THEN << >>
  ELSE Mark("case") \o Spelled(Head(cases).value, careful) \o Line(Mark(":"))
         \o WrittenAll(Head(cases).body, careful) \o WrittenCases(Tail(cases), careful)

Written(s, careful) ==
  LET exp(e) == Spelled(e, careful)
      if(part, text) == IF part = << >> THEN << >> ELSE text
      clause(c) ==
        IF c.s = "expr" THEN exp(c.value)
        ELSE exp(c.target) \o Operator(c.op) \o exp(c.value)
      all(statements) == WrittenAll(statements, careful)
  IN  CASE s.s \in {"expr", "assign"} -> Line(clause(s) \o Mark(";"))
        [] s.s = "decl" ->
             Line(<< << "type", s.kind >> >> \o Name(s.x)
                    \o if(s.init, Operator("=") \o exp(s.init[1])) \o Mark(";"))
        [] s.s = "block" -> Line(Mark("{")) \o all(s.body) \o Line(Mark("}"))
        [] s.s = "if" ->
             Line(Mark("if") \o InParens(exp(s.cond))) \o all(<< s.then >>)
               \o if(s.else, Mark("else") \o all(s.else))
        [] s.s = "while" -> Mark("while") \o InParens(exp(s.cond[1])) \o all(<< s.body >>)
        [] s.s = "for" ->
             Mark("for")
               \o InParens(if(s.init, clause(s.init[1])) \o Mark(";")
                             \o if(s.cond, exp(s.cond[1])) \o Mark(";")
                             \o if(s.post, clause(s.post[1])))
               \o all(<< s.body >>)
        [] s.s = "switch" ->
             Mark("switch") \o InParens(exp(s.value)) \o Line(Mark("{"))
               \o WrittenCases(s.cases, careful)
               \o if(s.default, Line(Mark("default") \o Mark(":")) \o all(s.default))
               \o Line(Mark("}"))
        [] OTHER -> Line(Mark(s.s) \o Mark(";"))

TextOf(body, careful) == Written([s |-> "block", body |-> body], careful)
=============================================================================
