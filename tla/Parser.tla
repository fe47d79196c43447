-------------------------------- MODULE Parser --------------------------------
(***************************************************************************)
(* The recursive descent from tokens to the statements of a function body  *)
(* (cova/parse_stmt.go), with the binding powers of its expressions        *)
(* (cova/parse_expr.go).                                                   *)
(*                                                                         *)
(* A token is a pair of its kind and what it says: a name, a number, the   *)
(* operator of an assignment.  A reader is the parser between two tokens:  *)
(* `node` is what it has made of those it has read, and it stops at the    *)
(* first that it does not expect.                                          *)
(*                                                                         *)
(* Left out: declarations at the top level, structs and their members,     *)
(* qualified names, strings, the value of a return, const, pointer and     *)
(* array types of locals, and what an error says.                          *)
(***************************************************************************)
EXTENDS Naturals, Sequences

(* Newlines may stand between any two tokens. *)
RECURSIVE PastNewlines(_, _)
PastNewlines(text, pos) ==
  IF pos <= Len(text) /\ text[pos][1] = "newline" THEN PastNewlines(text, pos + 1) ELSE pos

Reader(text) ==
  [text |-> text, pos |-> PastNewlines(text, 1), ok |-> TRUE, node |-> << >>]

AtEnd(r) == r.pos > Len(r.text)
Token(r) == IF AtEnd(r) THEN << "eof", 0 >> ELSE r.text[r.pos]
Peek(r) == Token(r)[1]

Unexpected(r) == [r EXCEPT !.ok = FALSE]
Advanced(r) == [r EXCEPT !.pos = PastNewlines(r.text, r.pos + 1)]
Made(r, node) == [r EXCEPT !.node = node]

(* Further from r, unless it has stopped. *)
After(reader, Further(_)) ==
  CHOOSE result \in { IF r.ok THEN Further(r) ELSE r : r \in {reader} } : TRUE

Expect(reader, kind) ==
  After(reader, LAMBDA r : IF Peek(r) = kind THEN Advanced(r) ELSE Unexpected(r))

-----------------------------------------------------------------------------
(* Nodes.                                                                  *)

Literal(number) == [e |-> "lit", value |-> number[1], of |-> number[2]]
Var(x) == [e |-> "var", x |-> x]
Item(index) == [e |-> "item", index |-> index]       \* of the one array there is
Unary(op, arg) == [e |-> IF op = "!" THEN "not" ELSE "neg", arg |-> arg]
Binary(op, left, right) ==
  CASE op = "&&" -> [e |-> "and", left |-> left, right |-> right]
    [] op = "||" -> [e |-> "or", left |-> left, right |-> right]
    [] op \in {"==", "<"} -> [e |-> "cmp", op |-> op, left |-> left, right |-> right]
    [] OTHER -> [e |-> "arith", op |-> op, left |-> left, right |-> right]

(* ask() takes nothing; a function that takes a number goes by its kind. *)
CallOf(name, args) ==
  IF args = << >> THEN [e |-> name] ELSE [e |-> "tell", as |-> name, arg |-> args[1]]

Assignable(e) == e.e \in {"var", "item"}

-----------------------------------------------------------------------------
(* Expressions.                                                            *)

LeftPower(op) ==
  CASE op = "||" -> 10 [] op = "&&" -> 20 [] op = "==" -> 40 [] op = "<" -> 50
    [] op = "<<" -> 60 [] op \in {"+", "-"} -> 70 [] op \in {"*", "/", "%"} -> 80
SamePower(op) == LeftPower(op)
(* An operator takes no operator of its own strength to its right. *)
RightPower(op) == LeftPower(op) + 1

Infix == {"||", "&&", "==", "<", "<<", "+", "-", "*", "/", "%"}
Prefix == {"!", "-"}

RECURSIVE ParsePower(_, _)
ParseExpression(r) == ParsePower(r, 0)

(* A list of one, or none where another token comes at once. *)
One(reader, Parse(_)) == After(Parse(reader), LAMBDA r : Made(r, << r.node >>))
Unless(reader, missing, Parse(_)) ==
  After(reader, LAMBDA r : IF Peek(r) = missing THEN Made(r, << >>) ELSE One(r, Parse))

(* A prefix operator takes a name, without what follows the name. *)
RECURSIVE ParsePrefix(_)
ParsePrefix(reader) ==
  After(reader, LAMBDA r :
    CASE Peek(r) \in Prefix ->
           After(ParsePrefix(Advanced(r)), LAMBDA operand :
             Made(operand, Unary(Peek(r), operand.node)))
      [] Peek(r) = "number" -> Made(Advanced(r), Literal(Token(r)[2]))
      [] Peek(r) = "name" -> Made(Advanced(r), Var(Token(r)[2]))
      [] Peek(r) = "(" -> Expect(ParseExpression(Advanced(r)), ")")
      [] OTHER -> Unexpected(r))

(* Only a name is called, only what has an address is indexed.  There is   *)
(* no function here that takes two numbers.                                *)
ParseCall(left) ==
  IF left.node.e # "var" THEN Unexpected(left)
  ELSE After(Expect(Unless(Advanced(left), ")", ParseExpression), ")"), LAMBDA r :
         Made(r, CallOf(left.node.x, r.node)))

ParseIndex(left) ==
  IF ~ Assignable(left.node) THEN Unexpected(left)
  ELSE After(Expect(ParseExpression(Advanced(left)), "]"), LAMBDA r :
         Made(r, Item(r.node)))

ParseInfix(left, op) ==
  After(ParsePower(Advanced(left), RightPower(op)), LAMBDA right :
    Made(right, Binary(op, left.node, right.node)))

RECURSIVE Extend(_, _)
Extend(left, min) ==
  CASE Peek(left) = "(" -> After(ParseCall(left), LAMBDA r : Extend(r, min))
    [] Peek(left) = "[" -> After(ParseIndex(left), LAMBDA r : Extend(r, min))
    [] Peek(left) \in Infix /\ LeftPower(Peek(left)) >= min ->
         After(ParseInfix(left, Peek(left)), LAMBDA r : Extend(r, min))
    [] OTHER -> left

ParsePower(reader, min) == After(ParsePrefix(reader), LAMBDA r : Extend(r, min))

-----------------------------------------------------------------------------
(* Statements.                                                             *)

(* An assignment or an expression, as they stand in a for, too. *)
ParseClause(reader) ==
  After(ParseExpression(reader), LAMBDA target :
    IF Peek(target) # "assign" THEN Made(target, [s |-> "expr", value |-> target.node])
    ELSE IF ~ Assignable(target.node) THEN Unexpected(target)
    ELSE After(ParseExpression(Advanced(target)), LAMBDA value :
           Made(value, [s |-> "assign", target |-> target.node, op |-> Token(target)[2],
                        value |-> value.node])))

ParseLocalDecl(reader) ==
  After(Expect(Advanced(reader), "name"), LAMBDA r :
    LET kind == Token(reader)[2]
        name == Token(Advanced(reader))[2]
        init == IF Peek(r) = "assign" /\ Token(r)[2] = "="
                THEN One(Advanced(r), ParseExpression) ELSE Made(r, << >>)
    IN  After(Expect(init, ";"), LAMBDA done :
          Made(done, [s |-> "decl", kind |-> kind, x |-> name, init |-> done.node])))

ParseCondition(reader) ==
  Expect(After(Expect(Advanced(reader), "("), ParseExpression), ")")

RECURSIVE ParseStatement(_)

(* The statements up to one of these tokens. *)
RECURSIVE ParseUntil(_, _, _)
ParseUntil(reader, ends, done) ==
  After(reader, LAMBDA r :
    IF Peek(r) \in ends THEN Made(r, done)
    ELSE After(ParseStatement(r), LAMBDA one :
           ParseUntil(one, ends, Append(done, one.node))))

ParseBlock(reader) ==
  After(Expect(ParseUntil(Expect(reader, "{"), {"}"}, << >>), "}"), LAMBDA r :
    Made(r, [s |-> "block", body |-> r.node]))

(* An else belongs to the if that was read last. *)
ParseElse(reader) ==
  IF Peek(reader) # "else" THEN Made(reader, << >>)
  ELSE One(Advanced(reader), ParseStatement)

ParseIf(reader) ==
  After(ParseCondition(reader), LAMBDA test :
    After(ParseStatement(test), LAMBDA then :
      After(ParseElse(then), LAMBDA else :
        Made(else, [s |-> "if", cond |-> test.node, then |-> then.node,
                    else |-> else.node]))))

ParseWhile(reader) ==
  After(ParseCondition(reader), LAMBDA test :
    After(ParseStatement(test), LAMBDA body :
      Made(body, [s |-> "while", init |-> << >>, cond |-> << test.node >>,
                  post |-> << >>, body |-> body.node])))

ParseFor(reader) ==
  After(Expect(Unless(Expect(Advanced(reader), "("), ";", ParseClause), ";"), LAMBDA init :
    After(Expect(Unless(init, ";", ParseExpression), ";"), LAMBDA test :
      After(Expect(Unless(test, ")", ParseClause), ")"), LAMBDA post :
        After(ParseStatement(post), LAMBDA body :
          Made(body, [s |-> "for", init |-> init.node, cond |-> test.node,
                      post |-> post.node, body |-> body.node])))))

ClauseEnds == {"}", "case", "default"}

(* The cases and the default, in any order, up to the closing brace. *)
RECURSIVE ParseClauses(_, _, _)
ParseClauses(r, cases, default) ==
  CASE Peek(r) = "}" -> Made(r, << cases, default >>)
    [] Peek(r) = "case" ->
         After(Expect(ParseExpression(Advanced(r)), ":"), LAMBDA value :
           After(ParseUntil(value, ClauseEnds, << >>), LAMBDA body :
             ParseClauses(body, Append(cases, [value |-> value.node, body |-> body.node]),
                          default)))
    [] Peek(r) = "default" ->
         After(ParseUntil(Expect(Advanced(r), ":"), ClauseEnds, << >>), LAMBDA body :
           ParseClauses(body, cases, body.node))
    [] OTHER -> Unexpected(r)

ParseSwitch(reader) ==
  After(Expect(ParseCondition(reader), "{"), LAMBDA value :
    After(Expect(ParseClauses(value, << >>, << >>), "}"), LAMBDA clauses :
      Made(clauses, [s |-> "switch", value |-> value.node, cases |-> clauses.node[1],
                     default |-> clauses.node[2]])))

(* A return has no value here. *)
ParseLeave(reader) ==
  After(Expect(Advanced(reader), ";"), LAMBDA r : Made(r, [s |-> Peek(reader)]))

ParseStatement(r) ==
  CASE Peek(r) = "{" -> ParseBlock(r)
    [] Peek(r) = "type" -> ParseLocalDecl(r)
    [] Peek(r) = "if" -> ParseIf(r)
    [] Peek(r) = "while" -> ParseWhile(r)
    [] Peek(r) = "for" -> ParseFor(r)
    [] Peek(r) = "switch" -> ParseSwitch(r)
    [] Peek(r) \in {"return", "break", "continue"} -> ParseLeave(r)
    [] OTHER -> Expect(ParseClause(r), ";")

(* The text is the body of the last function of a program. *)
Parsed(text) ==
  After(ParseBlock(Reader(text)), LAMBDA r :
    IF AtEnd(r) THEN Made(r, r.node.body) ELSE Unexpected(r))
=============================================================================
