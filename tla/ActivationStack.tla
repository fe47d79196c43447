--------------------------- MODULE ActivationStack ---------------------------
(***************************************************************************)
(* What calls and returns promise a script, without frame memory, bases or *)
(* tops: a stack of activations, each with its own locals and the place    *)
(* where its caller goes on.  A function works on its own locals only, so  *)
(* a caller finds its locals as it left them and goes on after the call.   *)
(***************************************************************************)
EXTENDS Naturals, Sequences

VARIABLES
  control,      \* the place the script is at
  activations   \* outermost first: locals, resume

stackVars == << control, activations >>

Top == activations[Len(activations)]
Callers(stack) == SubSeq(stack, 1, Len(stack) - 1)

StackInit == control = 0 /\ activations = << >>

(* The outermost function starts with zero locals. *)
Start ==
  /\ activations = << >>
  /\ Len(activations') = 1
  /\ \A b \in 1 .. Len(activations'[1].locals) : activations'[1].locals[b] = 0

Work ==
  /\ activations # << >>
  /\ Len(activations') = Len(activations)
  /\ Callers(activations') = Callers(activations)
  /\ Top'.resume = Top.resume
  /\ Len(Top'.locals) = Len(Top.locals)

CallFunction ==
  /\ activations # << >>
  /\ Len(activations') = Len(activations) + 1
  /\ Callers(activations') = activations
  /\ Top'.resume = control + 1

Return ==
  /\ Len(activations) > 1
  /\ activations' = Callers(activations)
  /\ control' = Top.resume

(* The outermost function returns, or the run fails. *)
Finish == activations' = << >> /\ control' = 0

StackNext == Start \/ Work \/ CallFunction \/ Return \/ Finish

StackSpec == StackInit /\ [][StackNext]_stackVars
=============================================================================
