------------------------------ MODULE CallGraph ------------------------------
(***************************************************************************)
(* The depth-first walk over the calls of the compiled function blocks     *)
(* (cova/compile.go, markReachable): it marks the blocks that stay in the  *)
(* program and refuses a program whose kept functions can call themselves. *)
(* The recursion of the code is the variable path; one step enters a block,*)
(* follows a call that leads nowhere new, or leaves a block.               *)
(***************************************************************************)
EXTENDS Naturals, Sequences

CONSTANTS
  Ids,          \* function ids
  CalleeLists,  \* the ids that a block may call, in the order of its patches
  NoEntry       \* no walk has begun

ASSUME CallGraphAssumption == CalleeLists \subseteq Seq(Ids)

VARIABLES
  calls,        \* block -> the ids it calls
  marks,        \* block -> callGraphState
  entry,        \* the block the walk starts from, or NoEntry
  path,         \* blocks being visited, outermost first, with the call each is at
  verdict       \* "idle", "walking", "marked", "cycle" or "unknown"

graphVars == << calls, marks, entry, path, verdict >>

Blocks == DOMAIN calls

GraphInit ==
  /\ calls = << >>
  /\ marks = << >>
  /\ entry = NoEntry
  /\ path = << >>
  /\ verdict = "idle"

(* A block is compiled. *)
AddBlock(id, callees) ==
  /\ verdict = "idle"
  /\ id \notin Blocks
  /\ calls' = [b \in Blocks \cup {id} |-> IF b = id THEN callees ELSE calls[b]]
  /\ marks' = [b \in Blocks \cup {id} |->
                 IF b = id THEN "unvisited" ELSE marks[b]]
  /\ UNCHANGED << entry, path, verdict >>

-----------------------------------------------------------------------------
At == path[Len(path)]
CallsLeftButOne == At.call < Len(calls[At.block])
CallsLeft == At.call <= Len(calls[At.block])
Callee == calls[At.block][At.call]

(* The caller will go on with the call after this one. *)
FollowingStays == path
Following == [path EXCEPT ![Len(path)] = [block |-> At.block, call |-> At.call + 1]]
Entering(callers, block) == Append(callers, [block |-> block, call |-> 1])
Leaving == SubSeq(path, 1, Len(path) - 1)

BeginWalk(id) ==
  /\ verdict = "idle"
  /\ entry' = id
  /\ \/ /\ id \in Blocks
        /\ marks' = [marks EXCEPT ![id] = "visiting"]
        /\ path' = Entering(<< >>, id)
        /\ verdict' = "walking"
     \/ /\ id \notin Blocks
        /\ verdict' = "unknown"
        /\ UNCHANGED << marks, path >>
  /\ UNCHANGED calls

AtCallTo(blocks) == verdict = "walking" /\ CallsLeft /\ Callee \in blocks
WithMark(mark) == { block \in Blocks : marks[block] = mark }

Enter ==
  /\ AtCallTo(WithMark("unvisited"))
  /\ marks' = [marks EXCEPT ![Callee] = "visiting"]
  /\ path' = Entering(Following, Callee)
  /\ UNCHANGED << calls, entry, verdict >>

SkipMarked ==
  /\ AtCallTo(Blocks \ WithMark("unvisited"))
  /\ path' = Following
  /\ UNCHANGED << calls, marks, entry, verdict >>

Skip ==
  /\ AtCallTo(WithMark("visited"))
  /\ path' = Following
  /\ UNCHANGED << calls, marks, entry, verdict >>

ReportRepeated ==
  /\ AtCallTo(Blocks \ WithMark("unvisited"))
  /\ verdict' = "cycle"
  /\ UNCHANGED << calls, marks, entry, path >>

ReportCycle ==
  /\ AtCallTo(WithMark("visiting"))
  /\ verdict' = "cycle"
  /\ UNCHANGED << calls, marks, entry, path >>

ReportUnknown ==
  /\ AtCallTo(Ids \ Blocks)
  /\ verdict' = "unknown"
  /\ UNCHANGED << calls, marks, entry, path >>

LeaveForgotten ==
  /\ verdict = "walking"
  /\ ~ CallsLeft
  /\ marks' = [block \in Blocks \ {At.block} |-> marks[block]]
  /\ path' = Leaving
  /\ verdict' = IF Len(path) = 1 THEN "marked" ELSE "walking"
  /\ UNCHANGED << calls, entry >>

LeaveBlock ==
  /\ verdict = "walking"
  /\ ~ CallsLeft
  /\ marks' = [marks EXCEPT ![At.block] = "visited"]
  /\ path' = Leaving
  /\ verdict' = IF Len(path) = 1 THEN "marked" ELSE "walking"
  /\ UNCHANGED << calls, entry >>

Walk ==
  Enter \/ Skip \/ ReportCycle \/ ReportUnknown \/ LeaveBlock

GraphNext ==
  \/ \E id \in Ids, callees \in CalleeLists : AddBlock(id, callees)
  \/ \E id \in Ids : BeginWalk(id)
  \/ Walk

GraphSpec == GraphInit /\ [][GraphNext]_graphVars
FairGraphSpec == GraphSpec /\ WF_graphVars(Walk)

-----------------------------------------------------------------------------
Callees(block) == { calls[block][i] : i \in 1 .. Len(calls[block]) }
Closed(blocks) == \A block \in blocks : Callees(block) \subseteq blocks

GraphTypeOK ==
  /\ Blocks \subseteq Ids
  /\ calls \in [Blocks -> CalleeLists]
  /\ marks \in [Blocks -> {"unvisited", "visiting", "visited"}]
  /\ entry \in Ids \cup {NoEntry}
  /\ path \in Seq([block : Blocks, call : Nat])
  /\ verdict \in {"idle", "walking", "marked", "cycle", "unknown"}

(* What stays in the program when the walk succeeds is exactly what the    *)
(* entry function can reach: it holds the entry, it is closed under calls, *)
(* and it lies in every set of blocks of which both are true.  So no call  *)
(* leads to a block that was dropped, and nothing is kept in vain.         *)
KeptIsReachable ==
  verdict = "marked" =>
    LET kept == WithMark("visited")
    IN  /\ entry \in kept
        /\ Closed(kept)
        /\ \A blocks \in SUBSET Blocks :
             entry \in blocks /\ Closed(blocks) => kept \subseteq blocks

(* LANGUAGE.md 728: recursive call cycles are rejected, indirect ones too. *)
(* In every group of kept functions there is one that calls none of the    *)
(* group, so no chain of calls ever comes back to where it started.        *)
NoRecursion ==
  \A group \in SUBSET WithMark("visited") :
    group # {} => \E block \in group : Callees(block) \cap group = {}

(* A program is refused for recursion only if it has one: some functions   *)
(* that the entry function can reach all call another one of themselves.   *)
CycleIsReal ==
  verdict = "cycle" =>
    \E group \in SUBSET WithMark("visiting") :
      /\ group # {}
      /\ \A block \in group : Callees(block) \cap group # {}

(* The walk ends whatever the calls are. *)
WalkEnds == (verdict = "walking") ~> (verdict # "walking")
=============================================================================
