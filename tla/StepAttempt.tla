----------------------------- MODULE StepAttempt ------------------------------
(***************************************************************************)
(* What the host makes of every step: attempts, each a call of the handler *)
(* at some place in its code.                                              *)
(***************************************************************************)
EXTENDS Naturals

CONSTANT MaxAttempts \* attempts the host makes, the first included

ASSUME AttemptsAssumption == MaxAttempts \in Nat \ {0}

VARIABLES
  attempt,  \* HandlerContext.attempt
  pc        \* next call of the handler

=============================================================================
