------------------------------- MODULE TryEach --------------------------------
(***************************************************************************)
(* What the checks of devices promise: each target in its turn is tried a  *)
(* bounded number of times until it is found good, and the verdict is a    *)
(* success only if there are any, and all of them were.  The call may fail *)
(* as a whole.                                                             *)
(***************************************************************************)
EXTENDS Naturals

CONSTANTS NTargets, MaxTries

VARIABLES
  tries,   \* of each target
  state,   \* of each target: open, good or bad
  verdict

vars == <<tries, state, verdict>>

Targets == 1 .. NTargets
Turn(t) == verdict = "none" /\ state[t] = "open" /\ \A u \in Targets : u < t => state[u] # "open"

Try(t) ==
  /\ Turn(t)
  /\ tries[t] < MaxTries
  /\ tries' = [tries EXCEPT ![t] = @ + 1]
  /\ \E s \in {"open", "good", "bad"} : state' = [state EXCEPT ![t] = s]
  /\ verdict' = verdict

GiveUp(t) ==
  /\ Turn(t)
  /\ state' = [state EXCEPT ![t] = "bad"]
  /\ UNCHANGED <<tries, verdict>>

Report ==
  /\ verdict = "none"
  /\ \A t \in Targets : state[t] # "open"
  /\ verdict' = IF Targets # {} /\ \A t \in Targets : state[t] = "good" THEN "success" ELSE "failure"
  /\ UNCHANGED <<tries, state>>

Break ==
  /\ verdict = "none"
  /\ verdict' = "failure"
  /\ UNCHANGED <<tries, state>>

Init ==
  /\ tries = [t \in Targets |-> 0]
  /\ state = [t \in Targets |-> "open"]
  /\ verdict = "none"

Next == Report \/ Break \/ \E t \in Targets : Try(t) \/ GiveUp(t)

Spec == Init /\ [][Next]_vars /\ WF_vars(Next)

=============================================================================
