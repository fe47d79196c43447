------------------------------ MODULE Statements ------------------------------
(***************************************************************************)
(* The code the compiler generates for the statements of a function        *)
(* (cova/compile.go), from a text that is parsed, as it is or as the       *)
(* optimizer leaves it, and a run of that code (cova/vm.go).  Jumps are emitted before      *)
(* their targets are known and patched afterwards; breaks and continues    *)
(* wait on a stack of control frames for theirs.  Values of different      *)
(* kinds lie as bytes on one stack, which nothing but the compiler keeps   *)
(* in step with the instructions.                                          *)
(*                                                                         *)
(* A cell stands for an instruction with its immediate.  Every name is     *)
(* declared, in a block; frame and BSS start as zeroes.  What a script     *)
(* does is what its host sees: a call ask() has an int32 for an answer,    *)
(* tell(x) passes a number of the kind it declares.                        *)
(***************************************************************************)
EXTENDS Optimizer, Parser, SourceText

CONSTANTS
  Bodies,         \* function bodies, by what they say
  Answers,        \* what the host may answer
  MaxCalls,       \* calls to the host in one run
  StackCapacity   \* bytes of the operand stack

-----------------------------------------------------------------------------
(* functionCompiler.                                                       *)

NewCompiler ==
  [code |-> << >>, slots |-> << >>, scopes |-> << >>, frameSize |-> 0,
   control |-> << >>, failed |-> FALSE]

Fail(fc) == [fc EXCEPT !.failed = TRUE]
Here(fc) == Len(fc.code)
Emit(fc, op, arg) == [fc EXCEPT !.code = Append(@, [op |-> op, arg |-> arg])]
Pushes(fc, kind, value) == Emit(fc, "push", BytesOf(kind, value))

(* The cells at these addresses get their operand. *)
Patch(fc, positions, target) ==
  FoldSet(LAMBDA position, patched : [patched EXCEPT !.code[position + 1].arg = target],
          fc, positions)

VisibleKinds(fc) == [x \in DOMAIN fc.slots |-> fc.slots[x].kind]
ExprKind(fc, e) == KindIn(e, VisibleKinds(fc))
Unconverted(fc, from, to) == fc
ConvertIfNeeded(fc, from, to) ==
  IF from = to THEN fc ELSE Emit(fc, "convert", << from, to >>)

RECURSIVE CompileExprAs(_, _, _)

(* The address of a variable, or of an item: that of the array, and the    *)
(* index times the size of an item.                                        *)
EmitIndex(fc, index) ==
  With(CompileExprAs(Emit(fc, "addr", MakeAddress(BSS, 0)), index, "Int32"), LAMBDA at :
    Emit(Emit(Pushes(at, "Int32", Width(ItemKind)), "arith", << "*", "Int32" >>),
         "offset", 0))

EmitAddress(compiler, target) ==
  With(compiler, LAMBDA fc :
    CASE fc.failed -> fc
      [] target.e = "var" ->
           Emit(fc, "addr", MakeAddress(Frame, fc.slots[target.x].offset))
      [] target.e = "item" ->
           IF \/ ExprKind(fc, target.index) = "Float32"
              \/ /\ IsLiteral(target.index)
                 /\ target.index.value \notin 0 .. ArrayLength - 1
           THEN Fail(fc) ELSE EmitIndex(fc, target.index))

CompileOperands(fc, e, kind) ==
  CompileExprAs(CompileExprAs(fc, e.left, kind), e.right, kind)

(* The context decides the kind of arithmetic, the operands that of an     *)
(* integer operator, whose result is not converted.                        *)
CompileArithmetic(fc, e, kind) ==
  LET own == ExprKind(fc, e)
      in == IF e.op \in Integral THEN own ELSE kind
  IN  IF e.op \in Integral /\ own \in {"Float32", "Bool"} THEN Fail(fc)
      ELSE Emit(CompileOperands(fc, e, in), "arith", << e.op, in >>)

CompileCompare(fc, e, kind) ==
  LET in == Promoted(ExprKind(fc, e.left), ExprKind(fc, e.right))
  IN  ConvertIfNeeded(Emit(CompileOperands(fc, e, in), "cmp", << e.op, in >>),
                      "Bool", kind)

(* ! compares with zero, - subtracts from it. *)
CompileNot(fc, e, kind) ==
  LET own == ExprKind(fc, e.arg)
  IN  ConvertIfNeeded(Emit(Pushes(CompileExprAs(fc, e.arg, own), own, 0),
                           "cmp", << "==", own >>),
                      "Bool", kind)

CompileNegate(fc, e, kind) ==
  LET own == ExprKind(fc, e.arg)
  IN  IF own = "Bool" THEN Fail(fc)
      ELSE ConvertIfNeeded(Emit(CompileExprAs(Pushes(fc, own, 0), e.arg, own),
                                "arith", << "-", own >>),
                           own, kind)

(* && and ||: the boolean constants are pushed on each way out. *)
EmitBoolean(fc, value) == Pushes(fc, "Bool", value)

CompileAnd(fc, e) ==
  With(CompileExprAs(fc, e.left, "Bool"), LAMBDA left :
  With(CompileExprAs(Emit(left, "jumpiffalse", 0), e.right, "Bool"), LAMBDA right :
  With(EmitBoolean(Emit(right, "jumpiffalse", 0), 1), LAMBDA true :
  With(Emit(true, "jump", 0), LAMBDA end :
  With(EmitBoolean(Patch(end, {Here(left), Here(right)}, Here(end)), 0), LAMBDA false :
    Patch(false, {Here(true)}, Here(false)))))))

CompileOr(fc, e) ==
  With(CompileExprAs(fc, e.left, "Bool"), LAMBDA left :
  With(EmitBoolean(Emit(left, "jumpiffalse", 0), 1), LAMBDA true :
  With(Emit(true, "jump", 0), LAMBDA skip :
  With(CompileExprAs(Patch(skip, {Here(left)}, Here(skip)), e.right, "Bool"), LAMBDA right :
  With(EmitBoolean(Emit(right, "jumpiffalse", 0), 1), LAMBDA rightTrue :
  With(Emit(rightTrue, "jump", 0), LAMBDA end :
  With(EmitBoolean(Patch(end, {Here(right)}, Here(end)), 0), LAMBDA false :
    Patch(false, {Here(true), Here(rightTrue)}, Here(false)))))))))

CompileExprAs(compiler, e, kind) ==
  With(compiler, LAMBDA fc :
  CASE fc.failed -> fc
    [] e.e = "lit" -> Pushes(fc, kind, Converted(e.of, kind, e.value))
    [] e.e \in {"var", "item"} ->
         LET own == ExprKind(fc, e)
         IN  ConvertIfNeeded(Emit(EmitAddress(fc, e), "deref", own), own, kind)
    [] e.e = "ask" ->
         ConvertIfNeeded(Emit(fc, "callextern", << "ask", "Int32" >>), "Int32", kind)
    [] e.e = "tell" ->
         Emit(CompileExprAs(fc, e.arg, e.as), "callextern", << "tell", e.as >>)
    [] e.e = "arith" -> CompileArithmetic(fc, e, kind)
    [] e.e = "cmp" -> CompileCompare(fc, e, kind)
    [] e.e = "and" -> ConvertIfNeeded(CompileAnd(fc, e), "Bool", kind)
    [] e.e = "or" -> ConvertIfNeeded(CompileOr(fc, e), "Bool", kind)
    [] e.e = "not" -> CompileNot(fc, e, kind)
    [] e.e = "neg" -> CompileNegate(fc, e, kind))

-----------------------------------------------------------------------------
(* Control frames: the innermost one takes a break, the innermost one of a *)
(* loop a continue.                                                        *)

PushControl(fc, allowsContinue) ==
  [fc EXCEPT !.control =
     Append(@, [allowsContinue |-> allowsContinue, breaks |-> {}, continues |-> {}])]
PopControl(fc) == [fc EXCEPT !.control = Front(@)]

PatchCurrentBreaks(compiler, target) ==
  With(compiler, LAMBDA fc : Patch(fc, Last(fc.control).breaks, target))
PatchCurrentContinues(compiler, target) ==
  With(compiler, LAMBDA fc : Patch(fc, Last(fc.control).continues, target))

AnyControl(fc) == DOMAIN fc.control
LoopControl(fc) == { i \in DOMAIN fc.control : fc.control[i].allowsContinue }

CompileBreak(fc) ==
  IF fc.control = << >> THEN Fail(fc)
  ELSE Emit([fc EXCEPT !.control[Len(fc.control)].breaks = @ \cup {Here(fc)}], "jump", 0)

CompileContinue(fc) ==
  LET loops == LoopControl(fc)
  IN  IF loops = {} THEN Fail(fc)
      ELSE Emit([fc EXCEPT !.control[Max(loops)].continues = @ \cup {Here(fc)}],
                "jump", 0)

-----------------------------------------------------------------------------
(* Statements.                                                             *)

RECURSIVE CompileStmt(_, _)
CompileAll(compiler, statements) == FoldLeft(CompileStmt, compiler, statements)

AlignUp(offset, size) == ((offset + size - 1) \div size) * size
AllocateLocal(fc, s) ==
  LET offset == AlignUp(fc.frameSize, Width(s.kind))
  IN  IF s.x \in Last(fc.scopes) THEN Fail(fc)
      ELSE [fc EXCEPT !.slots = (s.x :> [offset |-> offset, kind |-> s.kind]) @@ fc.slots,
                      !.scopes[Len(fc.scopes)] = @ \cup {s.x},
                      !.frameSize = offset + Width(s.kind)]

(* The value is on the stack: the address on top of it, and the store.     *)
CompileStore(compiler, target, kind) ==
  With(compiler, LAMBDA fc : Emit(EmitAddress(fc, target), "assign", kind))

CompileLocalDecl(fc, s) ==
  With(AllocateLocal(fc, s), LAMBDA allocated :
    IF s.init = << >> \/ allocated.failed THEN allocated
    ELSE CompileStore(CompileExprAs(allocated, s.init[1], s.kind),
                      [e |-> "var", x |-> s.x], s.kind))

ScopeLeft(inner, outer) == inner
ScopeRestored(inner, outer) ==
  [inner EXCEPT !.slots = outer.slots, !.scopes = outer.scopes]

CompileBlock(fc, statements) ==
  ScopeRestored(CompileAll([fc EXCEPT !.scopes = Append(@, {})], statements), fc)

CompileIf(fc, s) ==
  With(CompileExprAs(fc, s.cond, "Bool"), LAMBDA test :
  With(CompileStmt(Emit(test, "jumpiffalse", 0), s.then), LAMBDA then :
    IF s.else = << >> THEN Patch(then, {Here(test)}, Here(then))
    ELSE With(Emit(then, "jump", 0), LAMBDA skip :
         With(CompileAll(Patch(skip, {Here(test)}, Here(skip)), s.else), LAMBDA else :
           Patch(else, {Here(then)}, Here(else))))))

CompileWhile(fc, s) ==
  With(CompileExprAs(fc, s.cond[1], "Bool"), LAMBDA test :
  With(CompileStmt(PushControl(Emit(test, "jumpiffalse", 0), TRUE), s.body), LAMBDA body :
  With(Emit(PatchCurrentContinues(body, Here(fc)), "jump", Here(fc)), LAMBDA loop :
    PopControl(PatchCurrentBreaks(Patch(loop, {Here(test)}, Here(loop)), Here(loop))))))

(* The continues of a for statement go to what follows its body. *)
AtCondition(start, post) == start
AtPost(start, post) == post

ForCondition(init, s) ==
  IF s.cond = << >> THEN init
  ELSE Emit(CompileExprAs(init, s.cond[1], "Bool"), "jumpiffalse", 0)

CompileFor(fc, s) ==
  With(CompileAll(fc, s.init), LAMBDA init :
  With(ForCondition(init, s), LAMBDA test :
  With(CompileStmt(PushControl(test, TRUE), s.body), LAMBDA body :
  With(CompileAll(PatchCurrentContinues(body, AtPost(Here(init), Here(body))), s.post),
       LAMBDA post :
  With(Emit(post, "jump", Here(init)), LAMBDA loop :
    LET exits == IF s.cond = << >> THEN {} ELSE {Here(test) - 1}
    IN  PopControl(PatchCurrentBreaks(Patch(loop, exits, Here(loop)), Here(loop))))))))

(* The comparisons come first, each with a jump to its body, then the      *)
(* bodies one after the other; the last comparison that fails goes to the  *)
(* default.                                                                *)
CompileCaseTest(fc, s, case) ==
  LET kind == Promoted(ExprKind(fc, s.value), ExprKind(fc, case.value))
      operands == [left |-> s.value, right |-> case.value]
      equal == Emit(CompileOperands(fc, operands, kind), "cmp", << "==", kind >>)
  IN  Emit(Emit(equal, "jumpiffalse", 0), "jump", 0)

CompileSwitch(fc, s) ==
  LET comparison(tests, case) ==
        With(tests, LAMBDA before :
        With(CompileCaseTest(Patch(before.fc, before.fails, Here(before.fc)), s, case),
             LAMBDA compared :
          [fc |-> compared, fails |-> {Here(compared) - 2},
           entries |-> Append(before.entries, Here(compared) - 1)]))
      caseBody(compiler, case) ==
        With(compiler, LAMBDA before :
          CompileAll(Patch(before, {case.entry}, Here(before)), case.body))
  IN  With(FoldLeft(comparison,
                    [fc |-> PushControl(fc, FALSE), fails |-> {}, entries |-> << >>],
                    s.cases), LAMBDA tests :
      With(FoldLeft(caseBody, Emit(tests.fc, "jump", 0),
                    [i \in DOMAIN s.cases |->
                       [entry |-> tests.entries[i], body |-> s.cases[i].body]]), LAMBDA bodies :
      With(CompileAll(Patch(bodies, {Here(tests.fc)} \cup tests.fails, Here(bodies)),
                      s.default), LAMBDA default :
        PopControl(PatchCurrentBreaks(default, Here(default))))))

(* A compound assignment is compiled as one with the target for an operand *)
(* so that the address of the target is computed twice.                    *)
CompileAssign(fc, s) ==
  LET kind == ExprKind(fc, s.target)
  IN  CompileStore(CompileExprAs(fc, Assigns(s), kind), s.target, kind)

CompileStmt(compiler, s) ==
  With(compiler, LAMBDA fc :
  CASE fc.failed -> fc
    [] s.s = "block" -> CompileBlock(fc, s.body)
    [] s.s = "decl" -> CompileLocalDecl(fc, s)
    [] s.s = "if" -> CompileIf(fc, s)
    [] s.s = "while" -> CompileWhile(fc, s)
    [] s.s = "for" -> CompileFor(fc, s)
    [] s.s = "switch" -> CompileSwitch(fc, s)
    [] s.s = "return" -> Emit(fc, "ret", 0)
    [] s.s = "expr" ->                 \* nothing but a call stands alone
         IF ~ IsCall(s.value) THEN Fail(fc)
         ELSE CompileExprAs(fc, s.value, ExprKind(fc, s.value))
    [] s.s = "assign" -> CompileAssign(fc, s)
    [] s.s = "break" -> CompileBreak(fc)
    [] s.s = "continue" -> CompileContinue(fc))

NoClosingReturn(body) == CompileBlock(NewCompiler, body)
CompileFunction(body) == Emit(CompileBlock(NewCompiler, body), "ret", 0)

(* What the optimizer refuses is not compiled. *)
Compiled(body) ==
  IF \E part \in ExpressionsOf(body, << >>) : part.e = Error THEN Fail(NewCompiler)
  ELSE CompileFunction(body)

-----------------------------------------------------------------------------
(* A run of the code.                                                      *)

VARIABLES
  source,      \* the statements of the function
  careful,     \* whether it has parentheses that only the parser needs
  optimized,   \* whether they went through the optimizer
  code,        \* its instructions, counted from zero
  outcome,     \* "refused", "running", "returned", "fault" or "overflow"
  pc,
  stack,       \* operands, byte by byte
  memory,      \* the bytes of the frame and of BSS
  answers      \* what the host has answered so far, 0 for a call without result

program == << source, careful, optimized, code >>
vars == << program, outcome, pc, stack, memory, answers >>

Running == outcome = "running"
Cell == code[pc + 1]
Taken(kind) == ValueOf(kind, Top(stack, Width(kind)))
TakenNext(kind) == ValueOf(kind, Top(Truncate(stack, Width(kind)), Width(kind)))

(* The function is written, in one way or in two, read, and compiled,      *)
(* after optimization where that makes a difference; and unless it is      *)
(* refused it is activated with a frame of zeroes.                         *)
Text == TextOf(source, careful)

Init ==
  /\ source \in Bodies
  /\ careful \in {TRUE, TextOf(source, TRUE) = TextOf(source, FALSE)}
  /\ \E read \in {Parsed(Text)} :
       \E optimal \in {IF read.ok THEN Optimized(read.node) ELSE << >>} :
         /\ optimized \in {FALSE, read.ok /\ optimal # read.node}
         /\ \E compiled \in {IF ~ read.ok THEN Fail(NewCompiler)
                            ELSE Compiled(IF optimized THEN optimal ELSE read.node)} :
              /\ code = IF compiled.failed THEN << >> ELSE compiled.code
              /\ outcome = IF compiled.failed THEN "refused" ELSE "running"
              /\ memory = (Frame :> Zeroes(compiled.frameSize))
                            @@ (BSS :> Zeroes(ArrayLength * Width(ItemKind)))
  /\ pc = 0
  /\ stack = << >>
  /\ answers = << >>

(* The bytes an instruction takes from the stack. *)
Takes(cell) ==
  CASE cell.op = "deref" -> 4
    [] cell.op = "assign" -> 4 + Width(cell.arg)
    [] cell.op = "offset" -> 8
    [] cell.op \in {"arith", "cmp"} -> 2 * Width(cell.arg[2])
    [] cell.op = "convert" -> Width(cell.arg[1])
    [] cell.op = "jumpiffalse" -> 1
    [] cell.op = "callextern" /\ cell.arg[1] = "tell" -> Width(cell.arg[2])
    [] OTHER -> 0

Address == Decode(Top(stack, 4))
OffsetIndex == AddressIndex(Decode(Top(Truncate(stack, 4), 4))) + Taken("Int32")
Reaches(address, kind) ==
  /\ AddressSegment(address) \in DOMAIN memory
  /\ InSegment(memory[AddressSegment(address)], AddressIndex(address), Width(kind))

(* The operands an instruction refuses; truth values are not ordered.      *)
Refuses(cell) ==
  CASE cell.op \in {"deref", "assign"} -> ~ Reaches(Address, cell.arg)
    [] cell.op = "offset" -> OffsetIndex \notin 0 .. AddressIndexMask
    [] cell.op = "arith" -> Undefined(cell.arg[1], Taken(cell.arg[2]))
    [] cell.op = "cmp" -> cell.arg[1] # "==" /\ cell.arg[2] = "Bool"
    [] OTHER -> FALSE

Faults == Len(stack) < Takes(Cell) \/ Refuses(Cell)

(* An instruction that is no call leaves these operands and goes on there. *)
Operation(op) == Running /\ Cell.op = op /\ ~ Faults
Goes(operands, place) ==
  /\ IF Len(operands) <= StackCapacity
       THEN stack' = operands /\ pc' = place /\ outcome' = outcome
       ELSE stack' = stack /\ pc' = pc /\ outcome' = "overflow"
  /\ UNCHANGED << program, answers >>
Replaces(bytes) == Goes(Truncate(stack, Takes(Cell)) \o bytes, pc + 1)

Push ==
  /\ Operation("push")
  /\ Replaces(Cell.arg)
  /\ UNCHANGED memory

Addr ==
  /\ Operation("addr")
  /\ Replaces(Encode(4, Cell.arg))
  /\ UNCHANGED memory

Offset ==
  /\ Operation("offset")
  /\ Replaces(Encode(4, MakeAddress(AddressSegment(Decode(Top(Truncate(stack, 4), 4))),
                                  OffsetIndex)))
  /\ UNCHANGED memory

Dereference ==
  /\ Operation("deref")
  /\ Replaces(ReadBytes(memory[AddressSegment(Address)], AddressIndex(Address),
                      Width(Cell.arg)))
  /\ UNCHANGED memory

Assign ==
  /\ Operation("assign")
  /\ Replaces(<< >>)
  /\ memory' = [memory EXCEPT ![AddressSegment(Address)] =
                  WriteBytes(@, AddressIndex(Address),
                             Top(Truncate(stack, 4), Width(Cell.arg)))]

Arithmetic ==
  /\ Operation("arith")
  /\ LET op == Cell.arg[1]
         kind == Cell.arg[2]
     IN  Replaces(BytesOf(kind, Calculated(kind, op, TakenNext(kind), Taken(kind))))
  /\ UNCHANGED memory

(* Truth values are popped as such before they are compared.               *)
Compare ==
  /\ Operation("cmp")
  /\ LET kind == Cell.arg[2]
         operand(value) == IF kind = "Bool" THEN Truth(value) ELSE value
     IN  Replaces(<< Compared(Cell.arg[1], operand(TakenNext(kind)), operand(Taken(kind))) >>)
  /\ UNCHANGED memory

Convert ==
  /\ Operation("convert")
  /\ LET from == Cell.arg[1]
         to == Cell.arg[2]
     IN  Replaces(BytesOf(to, Converted(from, to, Taken(from))))
  /\ UNCHANGED memory

Jump ==
  /\ Operation("jump")
  /\ Goes(stack, Cell.arg)
  /\ UNCHANGED memory

JumpIfFalse ==
  /\ Operation("jumpiffalse")
  /\ Goes(Truncate(stack, 1), IF Taken("Bool") = 0 THEN Cell.arg ELSE pc + 1)
  /\ UNCHANGED memory

(* The host takes the argument and answers, or has no room to. *)
CallExtern ==
  /\ Operation("callextern")
  /\ Len(answers) < MaxCalls
  /\ \E answer \in IF Cell.arg[1] = "ask" THEN Answers ELSE {0} :
       LET left == Truncate(stack, Takes(Cell))
             \o IF Cell.arg[1] = "ask" THEN BytesOf("Int32", answer) ELSE << >>
       IN  IF Len(left) <= StackCapacity
           THEN /\ stack' = left
                /\ answers' = Append(answers, answer)
                /\ pc' = pc + 1
                /\ outcome' = outcome
           ELSE outcome' = "overflow" /\ UNCHANGED << stack, answers, pc >>
  /\ UNCHANGED << program, memory >>

Ret ==
  /\ Operation("ret")
  /\ outcome' = "returned"
  /\ UNCHANGED << program, pc, stack, memory, answers >>

Fault ==
  /\ Running
  /\ Faults
  /\ outcome' = "fault"
  /\ UNCHANGED << program, pc, stack, memory, answers >>

Next ==
  \/ Push \/ Addr \/ Offset \/ Dereference \/ Assign \/ Arithmetic \/ Compare
  \/ Convert \/ Jump \/ JumpIfFalse \/ CallExtern \/ Ret \/ Fault

Spec == Init /\ [][Next]_vars
FairSpec == Spec /\ WF_vars(Next)

-----------------------------------------------------------------------------
Calling(name) == Running /\ Cell.op = "callextern" /\ Cell.arg[1] = name
CallNow == IF Calling("ask") THEN << "ask" >> ELSE << "tell", Taken(Cell.arg[2]) >>

Visible == Calling("ask") \/ Calling("tell") \/ outcome \in {"returned", "fault"}

(* The run is one that the documents settle: see SourceMeaning. *)
Settled(meaning) == meaning.doubts \ (IF optimized THEN {} ELSE {"fraction"}) = {}

(* Execution stays inside the code of the function: every jump has got a   *)
(* target in it, and a return comes last (compile.go 548).  The stack      *)
(* keeps its bounds.                                                       *)
StatementsTypeOK ==
  /\ outcome \in {"refused", "running", "returned", "fault", "overflow"}
  /\ Running => pc \in 0 .. Len(code) - 1
  /\ stack \in Seq(Byte) /\ Len(stack) <= StackCapacity
  /\ Len(answers) <= MaxCalls

(* LANGUAGE.md 425-673 and README.md 91: with and without the optimizer,   *)
(* at every call to the host the statements, given what the host answered  *)
(* before, make this call with this value next; the code returns only      *)
(* where they end, and faults only where they divide by zero or leave the  *)
(* array.  It is about every jump that the compiler patches, the kinds in  *)
(* which the compiler and the optimizer compute and convert, the bytes on  *)
(* the stack, the order of operands and the scopes of names.  Mixed        *)
(* operands mean what they are in their common kind (508-515): where the   *)
(* compiler's choice, the kind of the result, gives another value, the run *)
(* is in doubt and not settled.                                            *)
CodeFollowsSource ==
  Visible =>
    LET meaning == Meaning(source, answers)
    IN  Settled(meaning) =>
          CASE Running -> meaning.status = "asking" /\ meaning.call = CallNow
            [] outcome = "returned" -> meaning.status \in {"next", "return"}
            [] outcome = "fault" -> meaning.status = "fault"

(* What is on the operand stack at a call to tell, under its argument, and *)
(* at the return is the results that call statements have left, no byte    *)
(* more or less (compile.go 1178-1184); it overflows only with those.      *)
StackHoldsDiscards ==
  Calling("tell") \/ outcome \in {"returned", "overflow"} =>
    LET meaning == Meaning(source, answers)
        left == Width("Int32") * meaning.discarded
    IN  Settled(meaning) =>
          IF outcome = "overflow" THEN left > 0
          ELSE Len(stack) = left + (IF Running THEN Width(Cell.arg[2]) ELSE 0)

(* A body is refused (compile.go 702, 739, 1181, 1217, 1225, 1278, 1505,   *)
(* 1514) exactly when a break or a continue has nothing to leave, a block  *)
(* declares a name twice, an expression that is no call stands alone, as a *)
(* statement or in a for (LANGUAGE.md 596-611), or an operand cannot be    *)
(* right: what one statement left on the compiler's stacks never helps a   *)
(* later one.  The optimizer settles quotients and indices that come out   *)
(* of numbers alone, and changes nothing else (README.md 89).  And the     *)
(* parser refuses a call or an index right after a prefix operator         *)
(* (parse_expr.go 110), which the grammar of LANGUAGE.md 132 allows: not   *)
(* every text has parentheses there.                                       *)
AtStart == pc = 0 /\ stack = << >> /\ answers = << >>

RefusedIffMisplaced ==
  AtStart =>
    \/ outcome = "refused" <=> ~ (Acceptable(source) /\ careful)
    \/ /\ optimized
       /\ \E part \in ExpressionsOf(source, << >>) : SettledInAdvance(part.e)

(* LANGUAGE.md 75-140 and 506: the parser reads a text as the statements   *)
(* it was written from, each operand with the operator that binds it       *)
(* strongest, operators of one strength from the left, an else with the    *)
(* last if.  A text that breaks off early is refused, wherever it does: no *)
(* end of a statement is taken for that of the body.                       *)
ReadsAsWritten ==
  AtStart /\ careful =>
    LET text == Text
        early == { Len(text) \div part : part \in {2, 3, 5} } \cup { Len(text) - 2 }
    IN  /\ \E read \in {Parsed(text)} : read.ok /\ read.node = source
        /\ \A length \in early : ~ Parsed(SubSeq(text, 1, length)).ok

(* Between two calls to the host the code never spins: a loop whose        *)
(* variable counts up to its bound ends, also when its body continues.     *)
CodeProgresses == []<>(~ Running \/ Cell.op = "callextern")

(* LANGUAGE.md 675-700: in a condition zero is false and every other       *)
(* number true.  A body that is one if statement takes its branch, and     *)
(* makes the call there, exactly when the value of its condition is not 0. *)
NonZeroIsTrue ==
  outcome = "returned" /\ source[1].s = "if" =>
    LET test == Eval(source[1].cond, Started(answers), "Bool")
    IN  (test.value # 0) <=> (test.answers # << >>)

(* LANGUAGE.md 255: a local without an initializer receives the zero value *)
(* for its type.  A call passes the value that the statements pass when    *)
(* each declaration that is executed gives its variable zero.              *)
LocalsStartAtZero ==
  Calling("tell") => Meaning(source, answers).call = CallNow

(* README.md 91: the optimizer's duplicate of the conversions and the      *)
(* evaluation is guarded against semantic drift.  An optimized body makes  *)
(* the call that the statements, and the code without the optimizer, make. *)
OptimizedKeepsTruth ==
  optimized /\ Calling("tell") => Meaning(source, answers).call = CallNow
=============================================================================
