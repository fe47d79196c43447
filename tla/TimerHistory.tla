---------------------------- MODULE TimerHistory ----------------------------
(***************************************************************************)
(* VMTime with a history variable, the time at which each slot was last    *)
(* started or reset, to state what timerDone promises.                     *)
(***************************************************************************)
EXTENDS VMTime

VARIABLE startedAt  \* slot -> time of its last start or reset

historyVars == << currentTime, hasCurrentTime, tickTime, timers, startedAt >>

HistoryInit == TimeInit /\ startedAt = [id \in TimerId |-> 0]

Tick(now) == BeginTick(now) /\ UNCHANGED startedAt

Start(id, duration) ==
  /\ hasCurrentTime
  /\ TimerStart(id, duration)
  /\ startedAt' = [startedAt EXCEPT ![id] = currentTime]

Stop(id) == hasCurrentTime /\ TimerStop(id) /\ UNCHANGED startedAt

Restart(id) ==
  /\ hasCurrentTime
  /\ TimerReset(id)
  /\ startedAt' = [startedAt EXCEPT ![id] = currentTime]

HistoryNext ==
  \/ \E now \in Times : Tick(now)
  \/ \E id \in TimerId, duration \in Durations : Start(id, duration)
  \/ \E id \in TimerId : Stop(id)
  \/ \E id \in TimerId : Restart(id)

HistorySpec == HistoryInit /\ [][HistoryNext]_historyVars

-----------------------------------------------------------------------------
(* timerDone is true exactly when the slot runs and strictly more than its *)
(* duration has passed since the last start or reset.  The deadline that   *)
(* saturates at MaxTime is the hard case: it must never be reported early. *)
DoneMeansElapsed ==
  \A id \in TimerId :
    TimerDone(id) <=>
      /\ timers[id].active
      /\ currentTime - startedAt[id] > timers[id].durationMS
=============================================================================
