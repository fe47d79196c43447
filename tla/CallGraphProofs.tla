--------------------------- MODULE CallGraphProofs ---------------------------
(***************************************************************************)
(* What the walk over the calls guarantees for every program.              *)
(*                                                                         *)
(* The argument is that of a depth-first search.  The blocks being visited *)
(* are those on the path, each once; the calls a block on the path has     *)
(* followed lead to visited blocks, or to the next block of the path; so   *)
(* a block that is left calls visited blocks only, and was not one of      *)
(* them itself, which is why no chain of calls among them can close.       *)
(***************************************************************************)
EXTENDS CallGraph, SequenceTheorems, TLAPS

Visited == WithMark("visited")
Visiting == WithMark("visiting")

(* The path holds the blocks being visited, each once, from the entry on.  *)
PathIsVisiting ==
  /\ Visiting = { path[i].block : i \in 1 .. Len(path) }
  /\ \A i, j \in 1 .. Len(path) : path[i].block = path[j].block => i = j
  /\ path # << >> => path[1].block = entry
  /\ verdict = "idle" => path = << >> /\ Visited = {}
  /\ verdict = "walking" => path # << >>
  /\ verdict = "marked" => path = << >> /\ entry \in Visited

(* A caller on the path has followed its calls up to the one before .call: *)
(* they led to visited blocks, except the last, which may have led to the  *)
(* next block of the path; and the next block was reached by that call.    *)
CallsFollowed ==
  /\ \A i \in 1 .. Len(path) :
       /\ path[i].call \in 1 .. Len(calls[path[i].block]) + 1
       /\ \A k \in 1 .. path[i].call - 1 :
            \/ calls[path[i].block][k] \in Visited
            \/ /\ i < Len(path)
               /\ calls[path[i].block][k] = path[i + 1].block
  /\ \A i \in 1 .. Len(path) - 1 : path[i + 1].block \in Callees(path[i].block)

VisitedIsClosed == Closed(Visited)

(* Whatever is marked lies in each closed set that holds the entry. *)
MarkedIsReachable ==
  \A blocks \in SUBSET Blocks :
    entry \in blocks /\ Closed(blocks) => Visited \cup Visiting \subseteq blocks

GraphInv ==
  /\ GraphTypeOK
  /\ PathIsVisiting
  /\ CallsFollowed
  /\ VisitedIsClosed
  /\ MarkedIsReachable
  /\ NoRecursion
  /\ CycleIsReal

-----------------------------------------------------------------------------
(* What each step makes of the path. *)

PathEntries == [block : Blocks, call : Nat]

LEMMA PathTypes ==
  ASSUME GraphTypeOK
  PROVE  /\ path \in Seq(PathEntries)
         /\ Len(path) \in Nat
         /\ path # << >> => Len(path) > 0
         /\ \A i \in 1 .. Len(path) : path[i] \in PathEntries
<1>1. path \in Seq(PathEntries)
  BY DEF GraphTypeOK, PathEntries
<1>2. Len(path) \in Nat /\ path \in [1 .. Len(path) -> PathEntries]
  BY <1>1, LenProperties
<1>3. path # << >> => Len(path) > 0
  BY <1>1, EmptySeq
<1>. QED
  BY <1>1, <1>2, <1>3

LEMMA FollowingPath ==
  ASSUME GraphTypeOK, path # << >>
  PROVE  /\ Following \in Seq(PathEntries)
         /\ Len(Following) = Len(path)
         /\ \A i \in 1 .. Len(path) - 1 : Following[i] = path[i]
         /\ Following[Len(path)] = [block |-> At.block, call |-> At.call + 1]
<1>1. Len(path) \in 1 .. Len(path) /\ Len(path) \in Nat
  BY PathTypes
<1>2. At \in PathEntries
  BY <1>1, PathTypes DEF At
<1>3. [block |-> At.block, call |-> At.call + 1] \in PathEntries
  BY <1>2 DEF PathEntries
<1>4. \A e \in PathEntries :
        /\ [path EXCEPT ![Len(path)] = e] \in Seq(PathEntries)
        /\ Len([path EXCEPT ![Len(path)] = e]) = Len(path)
        /\ \A j \in 1 .. Len(path) :
             [path EXCEPT ![Len(path)] = e][j] = IF j = Len(path) THEN e ELSE path[j]
  BY <1>1, PathTypes, ExceptSeq
<1>5. /\ Following \in Seq(PathEntries)
      /\ Len(Following) = Len(path)
      /\ \A j \in 1 .. Len(path) :
           Following[j] = IF j = Len(path)
                          THEN [block |-> At.block, call |-> At.call + 1]
                          ELSE path[j]
  BY <1>3, <1>4, Zenon DEF Following
<1>. QED
  BY <1>1, <1>5

LEMMA EnteredPath ==
  ASSUME GraphTypeOK, path # << >>, NEW b \in Blocks
  PROVE  LET new == Entering(Following, b)
         IN  /\ new \in Seq(PathEntries)
             /\ Len(new) = Len(path) + 1
             /\ \A i \in 1 .. Len(path) - 1 : new[i] = path[i]
             /\ new[Len(path)] = [block |-> At.block, call |-> At.call + 1]
             /\ new[Len(path) + 1] = [block |-> b, call |-> 1]
<1>1. [block |-> b, call |-> 1] \in PathEntries
  BY DEF PathEntries
<1>2. Len(path) \in Nat /\ Len(path) > 0
  BY DEF GraphTypeOK
<1>. QED
  BY <1>1, <1>2, FollowingPath DEF Entering

LEMMA FirstPath ==
  ASSUME NEW b \in Blocks
  PROVE  LET new == Entering(<< >>, b)
         IN  /\ new \in Seq(PathEntries)
             /\ Len(new) = 1
             /\ new[1] = [block |-> b, call |-> 1]
<1>1. [block |-> b, call |-> 1] \in PathEntries
  BY DEF PathEntries
<1>2. << >> \in Seq(PathEntries) /\ Len(<< >>) = 0
  OBVIOUS
<1>. QED
  BY <1>1, <1>2, AppendProperties DEF Entering

LEMMA LeavingPath ==
  ASSUME GraphTypeOK, path # << >>
  PROVE  /\ Leaving \in Seq(PathEntries)
         /\ Len(Leaving) = Len(path) - 1
         /\ \A i \in 1 .. Len(path) - 1 : Leaving[i] = path[i]
<1>1. path \in Seq(PathEntries) /\ Len(path) \in Nat /\ Len(path) > 0
  BY PathTypes
<1>2. \A i \in 1 .. Len(path) - 1 : path[i] \in PathEntries
  BY PathTypes
<1>. QED
  <2>1. /\ SubSeq(path, 1, Len(path) - 1) \in Seq(PathEntries)
        /\ Len(SubSeq(path, 1, Len(path) - 1)) =
             IF 1 <= Len(path) - 1 THEN Len(path) - 1 - 1 + 1 ELSE 0
        /\ \A i \in 1 .. Len(path) - 1 - 1 + 1 :
             SubSeq(path, 1, Len(path) - 1)[i] = path[1 + i - 1]
    <3>1. 1 \in Int /\ Len(path) - 1 \in Int
      BY <1>1
    <3>. QED
      BY <1>2, <3>1, SubSeqProperties
  <2>2. /\ Len(SubSeq(path, 1, Len(path) - 1)) = Len(path) - 1
        /\ \A i \in 1 .. Len(path) - 1 :
             SubSeq(path, 1, Len(path) - 1)[i] = path[i]
    <3>1. \A n \in Nat : n > 0 =>
            /\ (IF 1 <= n - 1 THEN n - 1 - 1 + 1 ELSE 0) = n - 1
            /\ n - 1 - 1 + 1 = n - 1
      OBVIOUS
    <3>2. /\ (IF 1 <= Len(path) - 1 THEN Len(path) - 1 - 1 + 1 ELSE 0) = Len(path) - 1
          /\ Len(path) - 1 - 1 + 1 = Len(path) - 1
      BY <1>1, <3>1
    <3>3. \A i \in 1 .. Len(path) - 1 : 1 + i - 1 = i
      BY <1>1
    <3>4. \A i \in 1 .. Len(path) - 1 :
             SubSeq(path, 1, Len(path) - 1)[i] = path[1 + i - 1]
      BY <2>1, <3>2, Zenon
    <3>5. \A i \in 1 .. Len(path) - 1 :
             SubSeq(path, 1, Len(path) - 1)[i] = path[i]
      BY <3>3, <3>4, Zenon
    <3>6. Len(SubSeq(path, 1, Len(path) - 1)) = Len(path) - 1
      BY <2>1, <3>2, Zenon
    <3>. QED
      BY <3>5, <3>6
  <2>. QED
    BY <2>1, <2>2, Zenon DEF Leaving

(* Facts about the types that the steps below all use. *)
LEMMA GraphTypes ==
  ASSUME GraphTypeOK
  PROVE  /\ \A b \in Blocks : calls[b] \in Seq(Ids) /\ Len(calls[b]) \in Nat
         /\ \A i \in 1 .. Len(path) : path[i].block \in Blocks /\ path[i].call \in Nat
         /\ Len(path) \in Nat
         /\ path # << >> => /\ Len(path) > 0 /\ At = path[Len(path)]
                            /\ At.block \in Blocks /\ At.call \in Nat
<1>1. \A b \in Blocks : calls[b] \in Seq(Ids)
  BY CallGraphAssumption DEF GraphTypeOK
<1>3. Len(path) \in Nat /\ (path # << >> => Len(path) > 0)
  BY PathTypes
<1>4. \A i \in 1 .. Len(path) : path[i].block \in Blocks /\ path[i].call \in Nat
  BY PathTypes DEF PathEntries
<1>5. path # << >> => Len(path) \in 1 .. Len(path)
  BY <1>3
<1>. QED
  BY <1>1, <1>3, <1>4, <1>5 DEF At

(* Each step keeps the variables in their types. *)
LEMMA TypeInductive ==
  ASSUME GraphTypeOK, PathIsVisiting, [GraphNext]_graphVars
  PROVE  GraphTypeOK'
<1>1. CASE \E id \in Ids, callees \in CalleeLists : AddBlock(id, callees)
  <2>1. PICK id \in Ids, callees \in CalleeLists : AddBlock(id, callees)
    BY <1>1
  <2>2. DOMAIN calls' = Blocks \cup {id} /\ path' = << >>
    BY <2>1 DEF AddBlock, PathIsVisiting
  <2>3. calls' \in [Blocks' -> CalleeLists]
    BY <2>1, <2>2 DEF AddBlock, GraphTypeOK, Blocks
  <2>4. marks' \in [Blocks' -> {"unvisited", "visiting", "visited"}]
    BY <2>1, <2>2 DEF AddBlock, GraphTypeOK, Blocks
  <2>. QED
    BY <2>1, <2>2, <2>3, <2>4 DEF AddBlock, GraphTypeOK, Blocks
<1>2. CASE \E id \in Ids : BeginWalk(id)
  <2>1. PICK id \in Ids : BeginWalk(id)
    BY <1>2
  <2>2. path' \in Seq(PathEntries)
    BY <2>1, FirstPath DEF BeginWalk, GraphTypeOK, PathEntries
  <2>3. Blocks' = Blocks /\ calls' = calls
    BY <2>1 DEF BeginWalk, Blocks
  <2>. QED
    BY <2>1, <2>2, <2>3 DEF BeginWalk, GraphTypeOK, PathEntries
<1>3. CASE Enter
  <2>1. path # << >> /\ Callee \in Blocks
    BY <1>3 DEF Enter, AtCallTo, WithMark, PathIsVisiting
  <2>2. path' \in Seq(PathEntries)
    BY <1>3, <2>1, EnteredPath DEF Enter
  <2>. QED
    BY <1>3, <2>1, <2>2 DEF Enter, GraphTypeOK, Blocks, PathEntries
<1>4. CASE Skip
  <2>1. path' \in Seq(PathEntries)
    BY <1>4, FollowingPath DEF Skip, AtCallTo, PathIsVisiting
  <2>. QED
    BY <1>4, <2>1 DEF Skip, GraphTypeOK, Blocks, PathEntries
<1>5. CASE ReportCycle
  BY <1>5 DEF ReportCycle, GraphTypeOK, Blocks
<1>6. CASE ReportUnknown
  BY <1>6 DEF ReportUnknown, GraphTypeOK, Blocks
<1>7. CASE LeaveBlock
  <2>1. path' \in Seq(PathEntries)
    BY <1>7, LeavingPath DEF LeaveBlock, PathIsVisiting
  <2>. QED
    BY <1>7, <2>1 DEF LeaveBlock, GraphTypeOK, Blocks, PathEntries
<1>8. CASE UNCHANGED graphVars
  BY <1>8 DEF graphVars, GraphTypeOK, Blocks
<1>. QED
  BY <1>1, <1>2, <1>3, <1>4, <1>5, <1>6, <1>7, <1>8 DEF GraphNext, Walk
-----------------------------------------------------------------------------
(* What each step makes of the marks. *)

LEMMA MarkSets ==
  /\ \A b : b \in Visited <=> b \in Blocks /\ marks[b] = "visited"
  /\ \A b : b \in Visiting <=> b \in Blocks /\ marks[b] = "visiting"
  /\ \A b : b \in WithMark("unvisited") <=> b \in Blocks /\ marks[b] = "unvisited"
BY DEF Visited, Visiting, WithMark

LEMMA AddMarks ==
  ASSUME GraphTypeOK, PathIsVisiting, NEW id \in Ids, NEW callees \in CalleeLists,
         AddBlock(id, callees)
  PROVE  /\ Visited = {} /\ Visiting = {} /\ path = << >>
         /\ Visited' = {} /\ Visiting' = {}
<1>1. path = << >> /\ Visited = {} /\ Visiting = {}
  BY DEF AddBlock, PathIsVisiting
<1>2. \A b \in Blocks : marks[b] = "unvisited"
  BY <1>1, MarkSets DEF GraphTypeOK
<1>3. Blocks' = Blocks \cup {id} /\ \A b \in Blocks' : marks'[b] = "unvisited"
  BY <1>2 DEF AddBlock, Blocks
<1>. QED
  BY <1>1, <1>3 DEF Visited, Visiting, WithMark

LEMMA BeginMarks ==
  ASSUME GraphTypeOK, PathIsVisiting, NEW id \in Blocks, BeginWalk(id)
  PROVE  /\ Blocks' = Blocks /\ Visited = {} /\ Visiting = {}
         /\ Visited' = {} /\ Visiting' = {id}
<1>1. path = << >> /\ Visited = {} /\ Visiting = {}
  BY DEF BeginWalk, PathIsVisiting
<1>2. \A b \in Blocks : marks[b] = "unvisited"
  BY <1>1, MarkSets DEF GraphTypeOK
<1>3. Blocks' = Blocks /\ \A b \in Blocks :
         marks'[b] = IF b = id THEN "visiting" ELSE "unvisited"
  BY <1>2 DEF BeginWalk, Blocks, GraphTypeOK
<1>. QED
  BY <1>1, <1>3 DEF Visited, Visiting, WithMark

LEMMA EnterMarks ==
  ASSUME GraphTypeOK, Enter
  PROVE  /\ Blocks' = Blocks /\ Callee \in Blocks \ (Visited \cup Visiting)
         /\ Visited' = Visited /\ Visiting' = Visiting \cup {Callee}
<1>1. Callee \in Blocks /\ marks[Callee] = "unvisited" /\ Blocks' = Blocks
  BY MarkSets DEF Enter, AtCallTo, Blocks
<1>2. \A b \in Blocks : marks'[b] = IF b = Callee THEN "visiting" ELSE marks[b]
  BY <1>1 DEF Enter, GraphTypeOK
<1>. QED
  BY <1>1, <1>2 DEF Visited, Visiting, WithMark

LEMMA LeaveMarks ==
  ASSUME GraphTypeOK, PathIsVisiting, LeaveBlock
  PROVE  /\ Blocks' = Blocks /\ path # << >> /\ At.block \in Visiting
         /\ Visited' = Visited \cup {At.block} /\ Visiting' = Visiting \ {At.block}
         /\ At.block \notin Visited
<1>1. path # << >> /\ Blocks' = Blocks
  BY DEF LeaveBlock, PathIsVisiting, Blocks
<1>2. At.block \in Visiting
  BY <1>1, GraphTypes DEF PathIsVisiting
<1>3. At.block \in Blocks /\ marks[At.block] = "visiting"
  BY <1>2, MarkSets
<1>4. \A b \in Blocks : marks'[b] = IF b = At.block THEN "visited" ELSE marks[b]
  BY <1>3 DEF LeaveBlock, GraphTypeOK
<1>. QED
  BY <1>1, <1>2, <1>3, <1>4 DEF Visited, Visiting, WithMark

LEMMA SameMarks ==
  ASSUME Skip \/ ReportCycle \/ ReportUnknown \/ UNCHANGED graphVars
         \/ \E id \in Ids \ Blocks : BeginWalk(id)
  PROVE  /\ Blocks' = Blocks /\ calls' = calls
         /\ Visited' = Visited /\ Visiting' = Visiting
BY DEF Skip, ReportCycle, ReportUnknown, BeginWalk, graphVars, Visited, Visiting,
       WithMark, Blocks

-----------------------------------------------------------------------------
(* The path goes on holding the blocks being visited. *)
LEMMA PathInductive ==
  ASSUME GraphTypeOK, PathIsVisiting, [GraphNext]_graphVars
  PROVE  PathIsVisiting'
<1>1. CASE \E id \in Ids, callees \in CalleeLists : AddBlock(id, callees)
  <2>1. PICK id \in Ids, callees \in CalleeLists : AddBlock(id, callees)
    BY <1>1
  <2>2. path' = << >> /\ Visited' = {} /\ Visiting' = {} /\ verdict' = "idle"
    BY <2>1, AddMarks DEF AddBlock
  <2>. QED
    BY <2>2 DEF PathIsVisiting
<1>2. CASE \E id \in Ids : BeginWalk(id)
  <2>1. PICK id \in Ids : BeginWalk(id)
    BY <1>2
  <2>2. CASE id \in Blocks
    <3>1. path' = Entering(<< >>, id) /\ verdict' = "walking" /\ entry' = id
      BY <2>1, <2>2 DEF BeginWalk
    <3>2. Len(path') = 1 /\ path'[1].block = id
      <4>1. /\ Len(Entering(<< >>, id)) = 1
            /\ Entering(<< >>, id)[1] = [block |-> id, call |-> 1]
        BY <2>2, FirstPath, Zenon
      <4>2. Len(path') = 1 /\ path'[1] = [block |-> id, call |-> 1]
        BY <3>1, <4>1, Zenon
      <4>. QED
        BY <4>2
    <3>3. Visiting' = {id}
      BY <2>1, <2>2, BeginMarks
    <3>. QED
      BY <3>1, <3>2, <3>3 DEF PathIsVisiting
  <2>3. CASE id \notin Blocks
    <3>1. Visited' = Visited /\ Visiting' = Visiting
      BY <2>1, <2>3, SameMarks
    <3>2. path' = path /\ path = << >> /\ verdict' = "unknown"
      BY <2>1, <2>3 DEF BeginWalk, PathIsVisiting
    <3>. QED
      BY <3>1, <3>2 DEF PathIsVisiting
  <2>. QED
    BY <2>2, <2>3
<1>3. CASE Enter
  <2>1. path # << >> /\ verdict' = "walking" /\ entry' = entry
    BY <1>3 DEF Enter, AtCallTo, PathIsVisiting
  <2>2. /\ Callee \in Blocks /\ Callee \notin Visiting
        /\ Visiting' = Visiting \cup {Callee}
    BY <1>3, EnterMarks
  <2>3. /\ Len(path') = Len(path) + 1
        /\ \A i \in 1 .. Len(path) : path'[i].block = path[i].block
        /\ path'[Len(path) + 1].block = Callee
    <3>1. /\ Len(path') = Len(path) + 1
          /\ \A i \in 1 .. Len(path) - 1 : path'[i] = path[i]
          /\ path'[Len(path)].block = At.block
          /\ path'[Len(path) + 1].block = Callee
      <4>1. /\ Len(path') = Len(path) + 1
            /\ \A i \in 1 .. Len(path) - 1 : path'[i] = path[i]
            /\ path'[Len(path)] = [block |-> At.block, call |-> At.call + 1]
            /\ path'[Len(path) + 1] = [block |-> Callee, call |-> 1]
        BY <1>3, <2>1, <2>2, EnteredPath, Zenon DEF Enter
      <4>. QED
        BY <4>1
    <3>. QED
      BY <2>1, <3>1, GraphTypes
  <2>4. Len(path) \in Nat /\ Len(path) > 0
    BY <2>1, GraphTypes
  <2>5. Visiting' = { path'[i].block : i \in 1 .. Len(path') }
    BY <2>2, <2>3, <2>4 DEF PathIsVisiting
  <2>6. \A i, j \in 1 .. Len(path') : path'[i].block = path'[j].block => i = j
    <3>1. \A i \in 1 .. Len(path) : path'[i].block \in Visiting
      BY <2>3 DEF PathIsVisiting
    <3>. QED
      BY <2>2, <2>3, <2>4, <3>1 DEF PathIsVisiting
  <2>7. path' # << >> /\ path'[1].block = entry'
    BY <2>1, <2>3, <2>4 DEF PathIsVisiting
  <2>. QED
    BY <2>1, <2>5, <2>6, <2>7 DEF PathIsVisiting
<1>4. CASE Skip
  <2>1. path # << >> /\ path' = Following /\ UNCHANGED << entry, verdict >>
    BY <1>4 DEF Skip, AtCallTo, PathIsVisiting
  <2>2. /\ Len(path') = Len(path) /\ Len(path) > 0 /\ Len(path) \in Nat
        /\ \A i \in 1 .. Len(path) : path'[i].block = path[i].block
    <3>1. /\ Len(path') = Len(path)
          /\ \A i \in 1 .. Len(path) - 1 : path'[i] = path[i]
          /\ path'[Len(path)].block = At.block
      BY <2>1, FollowingPath
    <3>. QED
      BY <2>1, <3>1, GraphTypes
  <2>3. Visited' = Visited /\ Visiting' = Visiting
    BY <1>4, SameMarks
  <2>4. verdict = "walking"
    BY <1>4 DEF Skip, AtCallTo
  <2>. QED
    BY <2>1, <2>2, <2>3, <2>4 DEF PathIsVisiting
<1>5. CASE ReportCycle \/ ReportUnknown
  <2>1. /\ UNCHANGED << path, entry >> /\ verdict' \in {"cycle", "unknown"}
        /\ Visited' = Visited /\ Visiting' = Visiting
    BY <1>5, SameMarks DEF ReportCycle, ReportUnknown
  <2>. QED
    BY <2>1 DEF PathIsVisiting
<1>6. CASE LeaveBlock
  <2>1. /\ path # << >> /\ Visiting' = Visiting \ {At.block}
        /\ Visited' = Visited \cup {At.block}
    BY <1>6, LeaveMarks
  <2>2. /\ Len(path) \in Nat /\ Len(path) > 0 /\ Len(path') = Len(path) - 1
        /\ \A i \in 1 .. Len(path) - 1 : path'[i] = path[i]
        /\ At = path[Len(path)]
    BY <1>6, <2>1, LeavingPath, GraphTypes DEF LeaveBlock
  <2>3. Visiting' = { path'[i].block : i \in 1 .. Len(path') }
    <3>1. \A i \in 1 .. Len(path) - 1 : path[i].block # At.block
      BY <2>2 DEF PathIsVisiting
    <3>. QED
      BY <2>1, <2>2, <3>1 DEF PathIsVisiting
  <2>4. \A i, j \in 1 .. Len(path') : path'[i].block = path'[j].block => i = j
    BY <2>2 DEF PathIsVisiting
  <2>5. path' \in Seq(PathEntries)
    BY <1>6, <2>1, LeavingPath DEF LeaveBlock
  <2>6. CASE Len(path) = 1
    <3>1. path' = << >> /\ verdict' = "marked"
      BY <1>6, <2>2, <2>5, <2>6, EmptySeq DEF LeaveBlock
    <3>2. entry' = At.block
      BY <1>6, <2>1, <2>2, <2>6 DEF LeaveBlock, PathIsVisiting
    <3>. QED
      BY <2>1, <2>3, <2>4, <3>1, <3>2 DEF PathIsVisiting
  <2>7. CASE Len(path) # 1
    <3>1. path' # << >> /\ verdict' = "walking"
      BY <1>6, <2>2, <2>7 DEF LeaveBlock
    <3>2. path'[1].block = entry'
      BY <1>6, <2>1, <2>2, <2>7 DEF LeaveBlock, PathIsVisiting
    <3>. QED
      BY <2>3, <2>4, <3>1, <3>2 DEF PathIsVisiting
  <2>. QED
    BY <2>6, <2>7
<1>7. CASE UNCHANGED graphVars
  <2>1. Visited' = Visited /\ Visiting' = Visiting
    BY <1>7, SameMarks
  <2>. QED
    BY <1>7, <2>1 DEF graphVars, PathIsVisiting
<1>. QED
  BY <1>1, <1>2, <1>3, <1>4, <1>5, <1>6, <1>7 DEF GraphNext, Walk
-----------------------------------------------------------------------------
(* The calls that a block on the path has followed. *)

LEMMA CalleeOfLast ==
  ASSUME GraphTypeOK, CallsFollowed, path # << >>, CallsLeft
  PROVE  /\ At.call \in 1 .. Len(calls[At.block])
         /\ Callee = calls[At.block][At.call]
         /\ Callee \in Callees(At.block)
<1>1. At.call \in 1 .. Len(calls[At.block])
  BY GraphTypes DEF CallsFollowed, CallsLeft
<1>. QED
  BY <1>1 DEF Callee, Callees

LEMMA AllFollowed ==
  ASSUME GraphTypeOK, CallsFollowed, path # << >>, ~ CallsLeft
  PROVE  Callees(At.block) \subseteq Visited
<1>1. /\ Len(path) \in 1 .. Len(path) /\ At = path[Len(path)]
      /\ Len(calls[At.block]) \in Nat /\ At.call \in Nat
  BY GraphTypes
<1>2. 1 .. Len(calls[At.block]) \subseteq 1 .. At.call - 1
  BY <1>1 DEF CallsLeft
<1>3. \A k \in 1 .. At.call - 1 : calls[At.block][k] \in Visited
  BY <1>1 DEF CallsFollowed
<1>. QED
  BY <1>2, <1>3 DEF Callees

LEMMA SameCallees ==
  ASSUME calls' = calls
  PROVE  \A b : { calls'[b][k] : k \in 1 .. Len(calls'[b]) } = Callees(b)
BY DEF Callees

LEMMA FollowedInductive ==
  ASSUME GraphTypeOK, PathIsVisiting, CallsFollowed, [GraphNext]_graphVars
  PROVE  CallsFollowed'
<1>1. CASE \E id \in Ids, callees \in CalleeLists : AddBlock(id, callees)
  <2>1. path' = << >>
    BY <1>1, AddMarks DEF AddBlock
  <2>. QED
    BY <2>1 DEF CallsFollowed
<1>2. CASE \E id \in Ids : BeginWalk(id)
  <2>1. PICK id \in Ids : BeginWalk(id)
    BY <1>2
  <2>2. CASE id \in Blocks
    <3>1. Len(path') = 1 /\ path'[1] = [block |-> id, call |-> 1]
      <4>1. /\ Len(Entering(<< >>, id)) = 1
            /\ Entering(<< >>, id)[1] = [block |-> id, call |-> 1]
        BY <2>2, FirstPath, Zenon
      <4>2. path' = Entering(<< >>, id)
        BY <2>1, <2>2 DEF BeginWalk
      <4>. QED
        BY <4>1, <4>2, Zenon
    <3>2. Len(calls'[id]) \in Nat
      BY <2>1, <2>2, GraphTypes DEF BeginWalk
    <3>. QED
      BY <3>1, <3>2 DEF CallsFollowed
  <2>3. CASE id \notin Blocks
    <3>1. path' = << >>
      BY <2>1, <2>3 DEF BeginWalk, PathIsVisiting
    <3>. QED
      BY <3>1 DEF CallsFollowed
  <2>. QED
    BY <2>2, <2>3
<1>3. CASE Enter
  <2>1. path # << >> /\ calls' = calls /\ CallsLeft
    BY <1>3 DEF Enter, AtCallTo, PathIsVisiting
  <2>2. Callee \in Blocks /\ Visited' = Visited
    BY <1>3, EnterMarks
  <2>3. /\ Len(path') = Len(path) + 1
        /\ \A i \in 1 .. Len(path) - 1 : path'[i] = path[i]
        /\ path'[Len(path)] = [block |-> At.block, call |-> At.call + 1]
        /\ path'[Len(path) + 1] = [block |-> Callee, call |-> 1]
    BY <1>3, <2>1, <2>2, EnteredPath, Zenon DEF Enter
  <2>4. /\ At.call \in 1 .. Len(calls[At.block])
        /\ Callee = calls[At.block][At.call]
        /\ Callee \in Callees(At.block)
    BY <2>1, CalleeOfLast
  <2>5. /\ Len(path) \in Nat /\ Len(path) > 0 /\ At = path[Len(path)]
        /\ At.block \in Blocks /\ At.call \in Nat
        /\ \A b \in Blocks : Len(calls[b]) \in Nat
    BY <2>1, GraphTypes
  <2>6. ASSUME NEW i \in 1 .. Len(path')
        PROVE  /\ path'[i].call \in 1 .. Len(calls'[path'[i].block]) + 1
               /\ \A k \in 1 .. path'[i].call - 1 :
                    \/ calls'[path'[i].block][k] \in Visited'
                    \/ /\ i < Len(path')
                       /\ calls'[path'[i].block][k] = path'[i + 1].block
    <3>1. CASE i < Len(path)
      <4>1. path'[i] = path[i] /\ path'[i + 1].block = path[i + 1].block
        BY <2>3, <2>5, <3>1
      <4>. QED
        BY <2>1, <2>2, <2>3, <2>5, <3>1, <4>1 DEF CallsFollowed
    <3>2. CASE i = Len(path)
      <4>1. \A k \in 1 .. At.call - 1 : calls[At.block][k] \in Visited
        BY <2>5, SMTT(30) DEF CallsFollowed
      <4>2. path'[i].block = At.block /\ path'[i].call = At.call + 1
        BY <2>3, <3>2
      <4>3. path'[i + 1].block = Callee /\ i < Len(path')
        BY <2>3, <2>5, <3>2
      <4>4. path'[i].call \in 1 .. Len(calls'[path'[i].block]) + 1
        BY <2>1, <2>4, <2>5, <4>2
      <4>5. ASSUME NEW k \in 1 .. path'[i].call - 1
            PROVE  \/ calls'[path'[i].block][k] \in Visited'
                   \/ calls'[path'[i].block][k] = path'[i + 1].block
        <5>1. k \in 1 .. At.call - 1 \/ k = At.call
          BY <2>5, <4>2
        <5>2. calls'[path'[i].block][k] = calls[At.block][k]
          BY <2>1, <4>2
        <5>. QED
          BY <2>2, <2>4, <4>1, <4>3, <5>1, <5>2
      <4>. QED
        BY <4>3, <4>4, <4>5
    <3>3. CASE i = Len(path) + 1
      <4>1. path'[i].block = Callee /\ path'[i].call = 1
        BY <2>3, <3>3
      <4>. QED
        BY <2>1, <2>2, <2>5, <4>1
    <3>. QED
      BY <2>3, <2>5, <3>1, <3>2, <3>3
  <2>7. ASSUME NEW i \in 1 .. Len(path') - 1
        PROVE  path'[i + 1].block \in Callees(path'[i].block)
    <3>1. CASE i < Len(path)
      <4>1. path'[i] = path[i] /\ path'[i + 1].block = path[i + 1].block
        BY <2>3, <2>5, <3>1
      <4>. QED
        BY <2>5, <3>1, <4>1, SMTT(30) DEF CallsFollowed
    <3>2. CASE i = Len(path)
      BY <2>3, <2>4, <3>2
    <3>. QED
      BY <2>3, <2>5, <3>1, <3>2
  <2>. QED
    BY <2>1, <2>6, <2>7, SameCallees DEF CallsFollowed, Callees
<1>4. CASE Skip
  <2>1. path # << >> /\ calls' = calls /\ CallsLeft /\ path' = Following
    BY <1>4 DEF Skip, AtCallTo, PathIsVisiting
  <2>2. Callee \in Visited /\ Visited' = Visited
    BY <1>4, SameMarks DEF Skip, AtCallTo, Visited
  <2>3. /\ Len(path') = Len(path)
        /\ \A i \in 1 .. Len(path) - 1 : path'[i] = path[i]
        /\ path'[Len(path)] = [block |-> At.block, call |-> At.call + 1]
    BY <2>1, FollowingPath, Zenon
  <2>4. /\ At.call \in 1 .. Len(calls[At.block])
        /\ Callee = calls[At.block][At.call]
    BY <2>1, CalleeOfLast
  <2>5. /\ Len(path) \in Nat /\ Len(path) > 0 /\ At = path[Len(path)]
        /\ At.block \in Blocks /\ At.call \in Nat
        /\ \A b \in Blocks : Len(calls[b]) \in Nat
    BY <2>1, GraphTypes
  <2>6. \A i \in 1 .. Len(path) : path'[i].block = path[i].block
    BY <2>3, <2>5
  <2>7. ASSUME NEW i \in 1 .. Len(path')
        PROVE  /\ path'[i].call \in 1 .. Len(calls'[path'[i].block]) + 1
               /\ \A k \in 1 .. path'[i].call - 1 :
                    \/ calls'[path'[i].block][k] \in Visited'
                    \/ /\ i < Len(path')
                       /\ calls'[path'[i].block][k] = path'[i + 1].block
    <3>1. CASE i < Len(path)
      <4>1. path'[i] = path[i] /\ path'[i + 1].block = path[i + 1].block
        BY <2>3, <2>5, <2>6, <3>1
      <4>. QED
        BY <2>1, <2>2, <2>3, <2>5, <3>1, <4>1 DEF CallsFollowed
    <3>2. CASE i = Len(path)
      <4>1. \A k \in 1 .. At.call - 1 : calls[At.block][k] \in Visited
        BY <2>5, SMTT(30) DEF CallsFollowed
      <4>2. path'[i].block = At.block /\ path'[i].call = At.call + 1
        BY <2>3, <3>2
      <4>3. path'[i].call \in 1 .. Len(calls'[path'[i].block]) + 1
        BY <2>1, <2>4, <2>5, <4>2
      <4>4. ASSUME NEW k \in 1 .. path'[i].call - 1
            PROVE  calls'[path'[i].block][k] \in Visited'
        <5>1. k \in 1 .. At.call - 1 \/ k = At.call
          BY <2>5, <4>2
        <5>2. calls'[path'[i].block][k] = calls[At.block][k]
          BY <2>1, <4>2
        <5>. QED
          BY <2>2, <2>4, <4>1, <5>1, <5>2
      <4>. QED
        BY <4>3, <4>4
    <3>. QED
      BY <2>3, <2>5, <3>1, <3>2
  <2>8. \A i \in 1 .. Len(path') - 1 : path'[i + 1].block \in Callees(path'[i].block)
    BY <2>3, <2>5, <2>6 DEF CallsFollowed
  <2>. QED
    BY <2>1, <2>7, <2>8, SameCallees DEF CallsFollowed, Callees
<1>5. CASE ReportCycle \/ ReportUnknown \/ UNCHANGED graphVars
  <2>1. /\ path' = path /\ calls' = calls
        /\ Visited' = Visited
    BY <1>5, SameMarks DEF ReportCycle, ReportUnknown, graphVars
  <2>. QED
    BY <2>1 DEF CallsFollowed, Callees
<1>6. CASE LeaveBlock
  <2>1. /\ path # << >> /\ Visited' = Visited \cup {At.block}
        /\ calls' = calls /\ path' = Leaving
    BY <1>6, LeaveMarks DEF LeaveBlock
  <2>2. /\ Len(path) \in Nat /\ Len(path) > 0 /\ Len(path') = Len(path) - 1
        /\ \A i \in 1 .. Len(path) - 1 : path'[i] = path[i]
        /\ At = path[Len(path)]
    BY <2>1, LeavingPath, GraphTypes
  <2>3. ASSUME NEW i \in 1 .. Len(path')
        PROVE  /\ path'[i].call \in 1 .. Len(calls'[path'[i].block]) + 1
               /\ \A k \in 1 .. path'[i].call - 1 :
                    \/ calls'[path'[i].block][k] \in Visited'
                    \/ /\ i < Len(path')
                       /\ calls'[path'[i].block][k] = path'[i + 1].block
    <3>1. path'[i] = path[i] /\ i < Len(path) /\ i \in 1 .. Len(path)
      BY <2>2
    <3>2. CASE i < Len(path) - 1
      <4>1. path'[i + 1] = path[i + 1]
        BY <2>2, <3>2
      <4>. QED
        BY <2>1, <2>2, <3>1, <3>2, <4>1 DEF CallsFollowed
    <3>3. CASE i = Len(path) - 1
      <4>1. path[i + 1].block = At.block
        BY <2>2, <3>3
      <4>. QED
        BY <2>1, <2>2, <3>1, <4>1 DEF CallsFollowed
    <3>. QED
      BY <2>2, <3>1, <3>2, <3>3
  <2>4. \A i \in 1 .. Len(path') - 1 : path'[i + 1].block \in Callees(path'[i].block)
    BY <2>2, SMTT(30) DEF CallsFollowed
  <2>5. \A i \in 1 .. Len(path') - 1 :
          path'[i + 1].block \in { calls'[path'[i].block][k] :
                                     k \in 1 .. Len(calls'[path'[i].block]) }
    BY <2>1, <2>4 DEF Callees
  <2>. QED
    BY <2>3, <2>5 DEF CallsFollowed, Callees
<1>. QED
  BY <1>1, <1>2, <1>3, <1>4, <1>5, <1>6 DEF GraphNext, Walk
-----------------------------------------------------------------------------
(* A block is left when all it calls is visited. *)
LEMMA ClosedInductive ==
  ASSUME GraphInv, [GraphNext]_graphVars
  PROVE  VisitedIsClosed' /\ NoRecursion'
<1>. USE DEF GraphInv
<1>1. CASE \/ \E id \in Ids, callees \in CalleeLists : AddBlock(id, callees)
           \/ \E id \in Blocks : BeginWalk(id)
  <2>1. Visited' = {}
    BY <1>1, AddMarks, BeginMarks DEF GraphTypeOK
  <2>2. VisitedIsClosed'
    BY <2>1 DEF VisitedIsClosed, Closed
  <2>3. \A group \in SUBSET Visited' : group = {}
    BY <2>1
  <2>. QED
    BY <2>2, <2>3 DEF NoRecursion, Visited
<1>2. CASE \/ Enter \/ Skip \/ ReportCycle \/ ReportUnknown
           \/ UNCHANGED graphVars \/ \E id \in Ids \ Blocks : BeginWalk(id)
  <2>1. Visited' = Visited /\ calls' = calls
    BY <1>2, SameMarks, EnterMarks DEF Enter
  <2>2. \A b : Callees(b)' = Callees(b)
    BY <2>1 DEF Callees
  <2>3. VisitedIsClosed'
    BY <2>1, <2>2 DEF VisitedIsClosed, Closed
  <2>4. \A group \in SUBSET Visited' :
          group # {} => \E block \in group : Callees(block)' \cap group = {}
    BY <2>1, <2>2 DEF NoRecursion, Visited
  <2>. QED
    BY <2>3, <2>4 DEF NoRecursion, Visited
<1>3. CASE LeaveBlock
  <2>1. /\ path # << >> /\ At.block \notin Visited
        /\ Visited' = Visited \cup {At.block} /\ calls' = calls
    BY <1>3, LeaveMarks DEF LeaveBlock
  <2>2. Callees(At.block) \subseteq Visited
    BY <1>3, <2>1, AllFollowed DEF LeaveBlock
  <2>3. \A b \in Visited : Callees(b) \subseteq Visited
    BY DEF VisitedIsClosed, Closed
  <2>4. VisitedIsClosed'
    BY <2>1, <2>2, <2>3 DEF VisitedIsClosed, Closed, Callees
  <2>5. ASSUME NEW group \in SUBSET (Visited \cup {At.block}), group # {}
        PROVE  \E block \in group : Callees(block) \cap group = {}
    <3>1. CASE group \subseteq {At.block}
      BY <2>1, <2>2, <2>5, <3>1
    <3>2. CASE ~ (group \subseteq {At.block})
      <4>1. group \ {At.block} \in SUBSET Visited /\ group \ {At.block} # {}
        BY <2>5, <3>2
      <4>2. PICK block \in group \ {At.block} :
              Callees(block) \cap (group \ {At.block}) = {}
        BY <4>1 DEF NoRecursion, Visited
      <4>3. At.block \notin Callees(block)
        BY <2>1, <2>3, <4>1
      <4>. QED
        BY <4>2, <4>3
    <3>. QED
      BY <3>1, <3>2
  <2>6. NoRecursion'
    <3>1. \A b : Callees(b)' = Callees(b)
      BY <2>1 DEF Callees
    <3>2. \A group \in SUBSET (Visited \cup {At.block}) :
            group # {} => \E block \in group : Callees(block) \cap group = {}
      BY <2>5
    <3>3. \A group \in SUBSET Visited' :
            group # {} => \E block \in group : Callees(block)' \cap group = {}
      BY <2>1, <3>1, <3>2
    <3>. QED
      BY <3>3 DEF NoRecursion, Visited
  <2>. QED
    BY <2>4, <2>6
<1>. QED
  BY <1>1, <1>2, <1>3 DEF GraphNext, Walk

(* Only what a marked block calls is marked next. *)
LEMMA ReachInductive ==
  ASSUME GraphInv, [GraphNext]_graphVars
  PROVE  MarkedIsReachable'
<1>. USE DEF GraphInv
<1>1. CASE \E id \in Ids, callees \in CalleeLists : AddBlock(id, callees)
  <2>1. Visited' = {} /\ Visiting' = {}
    BY <1>1, AddMarks
  <2>. QED
    BY <2>1 DEF MarkedIsReachable
<1>2. CASE \E id \in Blocks : BeginWalk(id)
  <2>1. PICK id \in Blocks : BeginWalk(id)
    BY <1>2
  <2>2. Visited' = {} /\ Visiting' = {id} /\ entry' = id
    BY <2>1, BeginMarks DEF BeginWalk
  <2>. QED
    BY <2>2 DEF MarkedIsReachable
<1>3. CASE \E id \in Ids \ Blocks : BeginWalk(id)
  <2>1. Visited' = {} /\ Visiting' = {}
    <3>1. Visited' = Visited /\ Visiting' = Visiting
      BY <1>3, SameMarks
    <3>2. path = << >> /\ Visited = {}
      BY <1>3 DEF BeginWalk, PathIsVisiting
    <3>3. Visiting = {}
      BY <3>2 DEF PathIsVisiting
    <3>. QED
      BY <3>1, <3>2, <3>3
  <2>. QED
    BY <2>1 DEF MarkedIsReachable
<1>4. CASE Enter
  <2>1. /\ Visited' = Visited /\ Visiting' = Visiting \cup {Callee}
        /\ Blocks' = Blocks /\ calls' = calls /\ entry' = entry
        /\ path # << >> /\ CallsLeft
    BY <1>4, EnterMarks DEF Enter, AtCallTo, PathIsVisiting
  <2>2. At.block \in Visiting /\ Callee \in Callees(At.block)
    BY <2>1, CalleeOfLast, GraphTypes DEF PathIsVisiting
  <2>3. \A blocks \in SUBSET Blocks :
          entry \in blocks /\ Closed(blocks) =>
            Visited \cup Visiting \cup {Callee} \subseteq blocks
    BY <2>2 DEF MarkedIsReachable, Closed
  <2>. QED
    BY <2>1, <2>3 DEF MarkedIsReachable, Closed, Callees
<1>5. CASE Skip \/ ReportCycle \/ ReportUnknown \/ UNCHANGED graphVars
  <2>1. /\ Visited' = Visited /\ Visiting' = Visiting
        /\ Blocks' = Blocks /\ calls' = calls /\ entry' = entry
    BY <1>5, SameMarks DEF Skip, ReportCycle, ReportUnknown, graphVars
  <2>. QED
    BY <2>1 DEF MarkedIsReachable, Closed, Callees
<1>6. CASE LeaveBlock
  <2>1. /\ Visited' \cup Visiting' = Visited \cup Visiting
        /\ Blocks' = Blocks /\ calls' = calls /\ entry' = entry
    BY <1>6, LeaveMarks DEF LeaveBlock
  <2>. QED
    BY <2>1 DEF MarkedIsReachable, Closed, Callees
<1>. QED
  BY <1>1, <1>2, <1>3, <1>4, <1>5, <1>6 DEF GraphNext, Walk

(* When a call leads back to a block of the path, the blocks from there on *)
(* each call the next one, and the last calls the first.                   *)
LEMMA CycleInductive ==
  ASSUME GraphInv, [GraphNext]_graphVars
  PROVE  CycleIsReal'
<1>. USE DEF GraphInv
<1>1. CASE ReportCycle
  <2>1. /\ calls' = calls /\ Visiting' = Visiting
        /\ path # << >> /\ CallsLeft /\ Callee \in Visiting
    BY <1>1, SameMarks DEF ReportCycle, AtCallTo, PathIsVisiting, Visiting
  <2>2. /\ Len(path) \in Nat /\ At = path[Len(path)]
        /\ Callee \in Callees(At.block)
    BY <2>1, CalleeOfLast, GraphTypes
  <2>3. PICK first \in 1 .. Len(path) : path[first].block = Callee
    BY <2>1 DEF PathIsVisiting
  <2>. DEFINE group == { path[i].block : i \in first .. Len(path) }
  <2>4. group \subseteq Visiting /\ Callee \in group
    BY <2>2, <2>3 DEF PathIsVisiting
  <2>5. ASSUME NEW i \in first .. Len(path)
        PROVE  Callees(path[i].block) \cap group # {}
    <3>1. CASE i = Len(path)
      BY <2>2, <2>4, <3>1
    <3>2. CASE i # Len(path)
      <4>1. i + 1 \in first .. Len(path) /\ i \in 1 .. Len(path) - 1
        BY <2>2, <2>3, <3>2
      <4>2. path[i + 1].block \in Callees(path[i].block)
        BY <4>1 DEF CallsFollowed
      <4>3. path[i + 1].block \in group
        BY <4>1
      <4>. QED
        BY <4>2, <4>3
    <3>. QED
      BY <3>1, <3>2
  <2>6. \A b \in group : Callees(b) \cap group # {}
    BY <2>5
  <2>7. group \in SUBSET Visiting /\ group # {}
    BY <2>4
  <2>. HIDE DEF group
  <2>8. \E g \in SUBSET Visiting : g # {} /\ \A b \in g : Callees(b) \cap g # {}
    BY <2>6, <2>7
  <2>. QED
    BY <2>1, <2>8 DEF CycleIsReal, Visiting, Callees
<1>2. CASE UNCHANGED graphVars
  BY <1>2, SMTT(30) DEF graphVars, CycleIsReal, WithMark, Blocks, Callees
<1>3. CASE \/ \E id \in Ids, callees \in CalleeLists : AddBlock(id, callees)
           \/ \E id \in Ids : BeginWalk(id)
           \/ Enter \/ Skip \/ ReportUnknown \/ LeaveBlock
  <2>1. verdict' # "cycle"
    BY <1>3 DEF AddBlock, BeginWalk, Enter, Skip, AtCallTo, ReportUnknown, LeaveBlock
  <2>. QED
    BY <2>1 DEF CycleIsReal
<1>. QED
  BY <1>1, <1>2, <1>3 DEF GraphNext, Walk

-----------------------------------------------------------------------------
LEMMA GraphInvInitially == GraphInit => GraphInv
<1>. SUFFICES ASSUME GraphInit PROVE GraphInv
  OBVIOUS
<1>1. Blocks = {} /\ path = << >> /\ Len(path) = 0 /\ verdict = "idle"
  BY DEF GraphInit, Blocks
<1>2. Visited = {} /\ Visiting = {}
  BY <1>1 DEF Visited, Visiting, WithMark
<1>3. GraphTypeOK
  BY <1>1 DEF GraphInit, GraphTypeOK, Blocks
<1>4. PathIsVisiting /\ CallsFollowed
  BY <1>1, <1>2 DEF PathIsVisiting, CallsFollowed
<1>5. VisitedIsClosed /\ MarkedIsReachable /\ NoRecursion /\ CycleIsReal
  BY <1>1, <1>2 DEF VisitedIsClosed, Closed, MarkedIsReachable, NoRecursion,
                    CycleIsReal, Visited
<1>. QED
  BY <1>3, <1>4, <1>5 DEF GraphInv

LEMMA GraphInvariant == GraphSpec => []GraphInv
<1>1. GraphInv /\ [GraphNext]_graphVars => GraphInv'
  BY TypeInductive, PathInductive, FollowedInductive, ClosedInductive,
     ReachInductive, CycleInductive DEF GraphInv
<1>. QED
  BY <1>1, GraphInvInitially, PTL DEF GraphSpec

(* compile.go 244-286: for every set of compiled functions, the walk keeps *)
(* its variables in their types.                                           *)
THEOREM GraphTypeCorrect == GraphSpec => []GraphTypeOK
<1>1. GraphInv => GraphTypeOK
  BY DEF GraphInv
<1>. QED
  BY <1>1, GraphInvariant, PTL

(* Whatever the calls are, the functions kept when the walk succeeds are   *)
(* those the entry function can reach: the smallest set that holds it and  *)
(* everything its members call.                                            *)
THEOREM KeepsTheReachable == GraphSpec => []KeptIsReachable
<1>1. GraphInv => KeptIsReachable
  BY DEF GraphInv, KeptIsReachable, PathIsVisiting, VisitedIsClosed,
         MarkedIsReachable, Visited
<1>. QED
  BY <1>1, GraphInvariant, PTL

(* No program keeps functions that can call themselves, over however many  *)
(* others.                                                                 *)
THEOREM KeepsNoRecursion == GraphSpec => []NoRecursion
<1>1. GraphInv => NoRecursion
  BY DEF GraphInv
<1>. QED
  BY <1>1, GraphInvariant, PTL

(* No program is refused for a recursion it does not have. *)
THEOREM ReportsRealCycles == GraphSpec => []CycleIsReal
<1>1. GraphInv => CycleIsReal
  BY DEF GraphInv
<1>. QED
  BY <1>1, GraphInvariant, PTL
=============================================================================
