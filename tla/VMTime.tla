------------------------------- MODULE VMTime -------------------------------
(***************************************************************************)
(* The clock and the timers of the Go virtual machine (cova/vm.go).        *)
(*                                                                         *)
(* The host passes the time of each run in milliseconds; the VM keeps it   *)
(* as the current time until the next run, so every instruction of a run   *)
(* sees the same time.  A timer is a slot that a script starts, stops,     *)
(* resets and asks whether it is done.  Nothing but these operations       *)
(* touches a slot: loading another program and resetting the VM leave the  *)
(* clock and the timers as they are.                                       *)
(***************************************************************************)
EXTENDS Integers

CONSTANTS
  MaxTime,        \* the largest uint64: sums of times saturate here
  TimerCapacity,  \* number of timer slots (VMConfig.TimerCapacity)
  Times,          \* the times the host passes to a run
  Durations       \* the durations a script passes to timerStart

ASSUME TimeAssumption ==
  /\ MaxTime \in Nat
  /\ TimerCapacity \in Nat \ {0}
  /\ Times \subseteq 0 .. MaxTime
  /\ Durations \subseteq 0 .. MaxTime

TimerId == 0 .. TimerCapacity - 1

VARIABLES
  currentTime,    \* currentTimeMS
  hasCurrentTime, \* some run has set the time
  tickTime,       \* milliseconds between this run and the one before
  timers          \* slot -> durationMS, endTimeMS, active

clockVars == << currentTime, hasCurrentTime, tickTime >>
timeVars == << currentTime, hasCurrentTime, tickTime, timers >>

TimerSlot == [durationMS : 0 .. MaxTime, endTimeMS : 0 .. MaxTime,
              active : BOOLEAN]

TimeInit ==
  /\ currentTime = 0
  /\ hasCurrentTime = FALSE
  /\ tickTime = 0
  /\ timers = [id \in TimerId |->
                 [durationMS |-> 0, endTimeMS |-> 0, active |-> FALSE]]

TimeGoesBack(now) == hasCurrentTime /\ now < currentTime

SaturatingAddRaw(left, right) == left + right
SaturatingAdd(left, right) ==
  IF MaxTime - left < right THEN MaxTime ELSE left + right

-----------------------------------------------------------------------------
(* The part of a run that sets the clock. *)
TickAnyTime(now) ==
  /\ tickTime' = IF hasCurrentTime THEN now - currentTime ELSE 0
  /\ currentTime' = now
  /\ hasCurrentTime' = TRUE
  /\ UNCHANGED timers

BeginTick(now) ==
  /\ ~ TimeGoesBack(now)
  /\ tickTime' = IF hasCurrentTime THEN now - currentTime ELSE 0
  /\ currentTime' = now
  /\ hasCurrentTime' = TRUE
  /\ UNCHANGED timers

TimerStart(id, duration) ==
  /\ timers' = [timers EXCEPT ![id] =
                  [durationMS |-> duration,
                   endTimeMS  |-> SaturatingAdd(currentTime, duration),
                   active     |-> TRUE]]
  /\ UNCHANGED clockVars

TimerStop(id) ==
  /\ timers' = [timers EXCEPT ![id].active = FALSE]
  /\ UNCHANGED clockVars

(* A reset restarts the slot with the duration it has, also after a stop, *)
(* and on a slot never started with the duration zero.                    *)
TimerResetKeepsDeadline(id) ==
  /\ timers' = [timers EXCEPT ![id].active = TRUE]
  /\ UNCHANGED clockVars

TimerReset(id) ==
  /\ timers' = [timers EXCEPT
                  ![id].endTimeMS =
                     SaturatingAdd(currentTime, timers[id].durationMS),
                  ![id].active = TRUE]
  /\ UNCHANGED clockVars

TimerDone(id) == timers[id].active /\ currentTime > timers[id].endTimeMS

TimeNext ==
  \/ \E now \in Times : BeginTick(now)
  \/ /\ hasCurrentTime          \* instructions execute inside a run
     /\ \E id \in TimerId :
          \/ \E duration \in Durations : TimerStart(id, duration)
          \/ TimerStop(id)
          \/ TimerReset(id)

TimeSpec == TimeInit /\ [][TimeNext]_timeVars

-----------------------------------------------------------------------------
(* Every clock and timer value is in its range: sums saturate, none wraps. *)
TimeTypeOK ==
  /\ currentTime \in 0 .. MaxTime
  /\ hasCurrentTime \in BOOLEAN
  /\ tickTime \in 0 .. MaxTime
  /\ timers \in [TimerId -> TimerSlot]

(* A timer that is done stays done, whatever the host and the scripts do,  *)
(* until a script starts, stops or resets that same slot: the time never   *)
(* runs backwards past a deadline, and no slot is reached through another. *)
DoneIsStable ==
  [][ \A id \in TimerId :
        TimerDone(id) /\ ~ TimerDone(id)' => timers[id]' # timers[id] ]_timeVars
=============================================================================
