------------------------- MODULE ChecksProofs -------------------------
(***************************************************************************)
(* The checks of devices, for any number of devices.  DeviceChecks, for    *)
(* any number of attempts: its invariants, and that every step of the four *)
(* handlers is one of TryEach or none.  WaitReachable, for any times: what *)
(* "stable" has seen, whom a timeout names, and how late the wait may end. *)
(***************************************************************************)
EXTENDS DeviceChecks, WaitReachable, TLAPS

(* What the last attempt on a device that is left as good has seen. *)
Seen(d) ==
  \/ last[d] = IF invert THEN "unmet" ELSE "met"
  \/ handler = "poll_until" /\ invert # matchesNothing /\ last[d] = "failed"

(* Why a device may be given up. *)
Excused(d) ==
  \/ tries[d] = attempts
  \/ last[d] = "raised"
  \/ handler = "dns" /\ last[d] = "unmet"

(* Only the current device is being tried; those behind it are untouched. *)
InTurn ==
  /\ bad \subseteq 1 .. dev - 1 \* no device is bad before its turn is over
  /\ \A d \in Devices : d > dev => tries[d] = 0
  /\ pc # "done" /\ dev \in Devices => tries[dev] = attempt
  /\ pc = "next" => attempt = 0
  /\ pc \in {"try", "sleep"} => dev \notin homeless

(* Inverted matches belong to poll_until. *)
PollOnly == handler # "poll_until" => ~invert /\ ~matchesNothing

(* The verdict comes with the end, and a success only behind the last device. *)
Judged ==
  /\ pc = "done" <=> verdict # "none"
  /\ verdict = "success" => bad = {} /\ dev = NDevices + 1

GoodSeen == \A d \in Devices : d < dev /\ d \notin bad => Seen(d)
BadExcused == \A d \in bad \ homeless : Excused(d)

Inv == TypeOK /\ InTurn /\ PollOnly /\ Judged /\ GoodSeen /\ BadExcused

USE ConstantsAssumption DEF Devices, Handlers, Answers, Outcomes

-----------------------------------------------------------------------------

LEMMA InitInv == Init => Inv
BY DEF Init, Inv, TypeOK, InTurn, PollOnly, Judged, GoodSeen, BadExcused

LEMMA InvImplies == Inv => SuccessIsSeen /\ NotGivenUpEarly
BY DEF Inv, TypeOK, Judged, GoodSeen, BadExcused, Seen, Excused, SuccessIsSeen, NotGivenUpEarly

(* Every step keeps the types and the turn of the devices. *)
(* The device that is left behind may be bad; the next one is untouched. *)
LEMMA NextDeviceKeeps ==
  ASSUME TypeOK, InTurn, Judged, pc # "done", dev \in Devices, NEW b \in BOOLEAN, NextDevice(b),
         UNCHANGED <<input, met, verdict>>,
         tries' \in [Devices -> 0 .. MaxAttempts], last' \in [Devices -> Outcomes],
         \A d \in Devices : d > dev => tries'[d] = tries[d]
  PROVE  TypeOK' /\ InTurn' /\ Judged'
<1> USE DEF NextDevice, TypeOK, InTurn, Judged, input
<1>1. bad' \subseteq bad \cup {dev}
  OBVIOUS
<1>2. dev' = dev + 1 /\ attempt' = 0 /\ pc' = "next" /\ verdict' = verdict
  OBVIOUS
<1>3. TypeOK'
  BY <1>1, <1>2
<1>4. InTurn'
  BY <1>1, <1>2
<1>5. Judged'
  BY <1>2
<1> QED
  BY <1>3, <1>4, <1>5

(* The record of an attempt. *)
LEMMA RecordKeeps ==
  ASSUME TypeOK, InTurn, pc = "try", NEW answer \in Answers, Record(answer)
  PROVE  /\ tries' \in [Devices -> 0 .. MaxAttempts] /\ last' \in [Devices -> Outcomes]
         /\ \A d \in Devices : d # dev => tries'[d] = tries[d] /\ last'[d] = last[d]
         /\ tries'[dev] = attempt + 1 /\ last'[dev] = answer
BY DEF TypeOK, InTurn, Record

(* An attempt ends the turn of its device, or is followed by another. *)
LEMMA TryCases ==
  ASSUME Inv, Try
  PROVE  \E answer \in Answers :
           /\ Record(answer)
           /\ \/ Matched(answer) /\ NextDevice(FALSE)
              \/ ~Matched(answer) /\ attempt + 1 < attempts /\ pc' = "sleep" /\ attempt' = attempt + 1
                 /\ UNCHANGED <<bad, dev>>
              \/ /\ ~Matched(answer) /\ NextDevice(TRUE)
                 /\ attempt + 1 = attempts \/ (handler = "dns" /\ answer = "unmet")
<1>1. PICK answer \in {"failed", IF met[dev] THEN "met" ELSE "unmet"} :
        /\ Record(answer)
        /\ IF Matched(answer) THEN NextDevice(FALSE)
           ELSE IF attempt + 1 < attempts /\ ~(handler = "dns" /\ answer = "unmet")
           THEN pc' = "sleep" /\ attempt' = attempt + 1 /\ UNCHANGED <<bad, dev>>
           ELSE NextDevice(TRUE)
  BY DEF Try
<1>2. answer \in Answers
  BY <1>1
<1>3. CASE Matched(answer)
  BY <1>1, <1>2, <1>3
<1>4. CASE ~Matched(answer) /\ attempt + 1 < attempts /\ ~(handler = "dns" /\ answer = "unmet")
  BY <1>1, <1>2, <1>4
<1>5. CASE ~Matched(answer) /\ ~(attempt + 1 < attempts /\ ~(handler = "dns" /\ answer = "unmet"))
  <2>1. attempt + 1 = attempts \/ (handler = "dns" /\ answer = "unmet")
    BY <1>5 DEF Inv, TypeOK
  <2> QED
    BY <1>1, <1>2, <1>5, <2>1
<1> QED
  BY <1>3, <1>4, <1>5

(* Every step keeps the types and the turn of the devices. *)
LEMMA NextTypeOK == Inv /\ [Next]_vars => TypeOK' /\ InTurn' /\ Judged'
<1> SUFFICES ASSUME Inv, [Next]_vars PROVE TypeOK' /\ InTurn' /\ Judged'
  OBVIOUS
<1>a. TypeOK /\ InTurn /\ Judged
  BY DEF Inv
<1>1. CASE Begin
  <2>1. CASE dev \in homeless
    BY <1>a, <1>1, <2>1, NextDeviceKeeps DEF Begin, TypeOK
  <2>2. CASE dev \notin homeless
    <3>1. dev \in Devices /\ pc = "next" /\ pc' = "try" /\ UNCHANGED <<input, met, verdict, tries, last, bad, dev, attempt>>
      BY <1>a, <1>1, <2>2 DEF Begin, TypeOK
    <3> QED
      BY <1>a, <2>2, <3>1 DEF TypeOK, InTurn, Judged, input
  <2> QED
    BY <2>1, <2>2
<1>2. CASE Try
  <2>1. PICK answer \in Answers :
           /\ Record(answer)
           /\ \/ NextDevice(TRUE) \/ NextDevice(FALSE)
              \/ attempt + 1 < attempts /\ pc' = "sleep" /\ attempt' = attempt + 1 /\ UNCHANGED <<bad, dev>>
    BY <1>2, TryCases
  <2>2. pc = "try" /\ dev \in Devices /\ UNCHANGED <<input, met, verdict>>
    BY <1>a, <1>2 DEF Try, TypeOK
  <2>3. /\ tries' \in [Devices -> 0 .. MaxAttempts] /\ last' \in [Devices -> Outcomes]
        /\ \A d \in Devices : d # dev => tries'[d] = tries[d]
        /\ tries'[dev] = attempt + 1
    BY <1>a, <2>1, <2>2, RecordKeeps
  <2>4. \A d \in Devices : d > dev => tries'[d] = tries[d]
    BY <2>2, <2>3, <1>a DEF TypeOK
  <2>5. CASE NextDevice(TRUE) \/ NextDevice(FALSE)
    BY <1>a, <2>2, <2>3, <2>4, <2>5, NextDeviceKeeps
  <2>6. CASE attempt + 1 < attempts /\ pc' = "sleep" /\ attempt' = attempt + 1 /\ UNCHANGED <<bad, dev>>
    BY <1>a, <2>2, <2>3, <2>4, <2>6 DEF TypeOK, InTurn, Judged, input
  <2> QED
    BY <2>1, <2>5, <2>6
<1>3. CASE Raise
  <2>1. dev \in Devices /\ pc # "done" /\ NextDevice(TRUE) /\ UNCHANGED <<input, met, verdict, tries>>
    BY <1>a, <1>3 DEF Raise, TypeOK
  <2>2. last' \in [Devices -> Outcomes]
    BY <1>a, <1>3 DEF Raise, TypeOK
  <2> QED
    BY <1>a, <2>1, <2>2, NextDeviceKeeps DEF TypeOK
<1> USE DEF TypeOK, InTurn, Judged, input
<1>4. CASE Break
  BY <1>a, <1>4 DEF Break
<1>5. CASE Sleep
  BY <1>a, <1>5 DEF Sleep
<1>6. CASE Judge
  BY <1>a, <1>6 DEF Judge
<1>7. CASE Change
  BY <1>a, <1>7 DEF Change
<1>8. CASE CancelTask
  BY <1>a, <1>8 DEF CancelTask
<1>9. CASE UNCHANGED vars
  BY <1>a, <1>9 DEF vars
<1> QED
  BY <1>1, <1>2, <1>3, <1>4, <1>5, <1>6, <1>7, <1>8, <1>9 DEF Next, Step

(* Inverted matches stay with poll_until. *)
LEMMA NextPollOnly == Inv /\ [Next]_vars => PollOnly'
<1> SUFFICES ASSUME Inv, [Next]_vars PROVE UNCHANGED input
  BY DEF Inv, PollOnly, input
<1> QED
  BY DEF Next, Step, Begin, Try, Raise, Break, Sleep, Judge, Change, CancelTask, vars, input

(* An answer that matches is what a success has to have seen. *)
LEMMA MatchedIsSeen ==
  ASSUME TypeOK, PollOnly, NEW answer \in Answers, Matched(answer)
  PROVE  \/ answer = IF invert THEN "unmet" ELSE "met"
         \/ handler = "poll_until" /\ invert # matchesNothing /\ answer = "failed"
<1>1. CASE handler = "poll_until"
  <2>1. (answer = "met" \/ (answer = "failed" /\ matchesNothing)) # invert
    BY <1>1 DEF Matched
  <2>2. CASE invert = TRUE
    BY <1>1, <2>1, <2>2 DEF TypeOK
  <2>3. CASE invert = FALSE
    BY <1>1, <2>1, <2>3 DEF TypeOK
  <2> QED
    BY <2>2, <2>3 DEF TypeOK
<1>2. CASE handler # "poll_until"
  BY <1>2 DEF Matched, PollOnly
<1> QED
  BY <1>1, <1>2

(* What was seen of the devices before does not change any more. *)
LEMMA SeenStays ==
  ASSUME NEW d, Seen(d), UNCHANGED input, last'[d] = last[d]
  PROVE  Seen(d)'
BY DEF Seen, input

LEMMA ExcusedStays ==
  ASSUME NEW d, Excused(d), UNCHANGED input, last'[d] = last[d], tries'[d] = tries[d]
  PROVE  Excused(d)'
BY DEF Excused, input

(* A step leaves the record and the standing of the devices alone, or is the *)
(* end of one device's turn, or an attempt that is followed by another.      *)
LEMMA StepCases ==
  ASSUME Inv, [Next]_vars
  PROVE  /\ UNCHANGED input
         /\ \/ UNCHANGED <<bad, dev, tries, last>>
            \/ dev \in homeless /\ dev \in Devices /\ NextDevice(TRUE) /\ UNCHANGED <<tries, last>>
            \/ Try /\ pc = "try" /\ dev \in Devices
            \/ /\ dev \in Devices /\ NextDevice(TRUE) /\ tries' = tries
               /\ last' = [last EXCEPT ![dev] = "raised"]
<1>1. CASE Begin
  BY <1>1 DEF Begin, Inv, TypeOK
<1>2. CASE Try
  BY <1>2 DEF Try, Inv, TypeOK
<1>3. CASE Raise
  BY <1>3 DEF Raise, Inv, TypeOK
<1>4. CASE Break
  BY <1>4 DEF Break
<1>5. CASE Sleep
  BY <1>5 DEF Sleep
<1>6. CASE Judge
  BY <1>6 DEF Judge
<1>7. CASE Change
  BY <1>7 DEF Change
<1>8. CASE CancelTask
  BY <1>8 DEF CancelTask
<1>9. CASE UNCHANGED vars
  BY <1>9 DEF vars, input
<1> QED
  BY <1>1, <1>2, <1>3, <1>4, <1>5, <1>6, <1>7, <1>8, <1>9 DEF Next, Step

(* A device is passed as good only on an answer that matches. *)
LEMMA NextGoodSeen == Inv /\ [Next]_vars => GoodSeen'
<1> SUFFICES ASSUME Inv, [Next]_vars, NEW d \in Devices, (d < dev /\ d \notin bad)' PROVE Seen(d)'
  BY DEF GoodSeen
<1>a. TypeOK /\ InTurn /\ PollOnly /\ GoodSeen
  BY DEF Inv
<1>b. UNCHANGED input
  BY StepCases
<1>1. CASE UNCHANGED <<bad, dev, tries, last>>
  BY <1>1, <1>a, <1>b, SeenStays DEF GoodSeen
<1>2. CASE dev \in Devices /\ NextDevice(TRUE) /\ (UNCHANGED last \/ last' = [last EXCEPT ![dev] = "raised"])
  <2>1. d < dev /\ d \notin bad
    BY <1>2, <1>a DEF NextDevice, TypeOK
  <2>2. last'[d] = last[d]
    BY <2>1, <1>2, <1>a DEF TypeOK
  <2> QED
    BY <2>1, <2>2, <1>a, <1>b, SeenStays DEF GoodSeen
<1>3. CASE Try /\ pc = "try" /\ dev \in Devices
  <2>1. PICK answer \in Answers :
           /\ Record(answer)
           /\ \/ Matched(answer) /\ NextDevice(FALSE)
              \/ UNCHANGED <<bad, dev>>
              \/ NextDevice(TRUE)
    BY <1>3, TryCases
  <2>2. (\A e \in Devices : e # dev => last'[e] = last[e]) /\ last'[dev] = answer
    BY <1>a, <1>3, <2>1, RecordKeeps
  <2>3. CASE d = dev
    <3>1. Matched(answer)
      BY <2>1, <2>3, <1>a DEF NextDevice, TypeOK
    <3> QED
      BY <3>1, <2>2, <2>3, <1>a, <1>b, MatchedIsSeen DEF Seen, input
  <2>4. CASE d # dev
    <3>1. d < dev /\ d \notin bad
      BY <2>1, <2>4, <1>a DEF NextDevice, TypeOK
    <3> QED
      BY <3>1, <2>2, <2>4, <1>a, <1>b, SeenStays DEF GoodSeen
  <2> QED
    BY <2>3, <2>4
<1> QED
  BY <1>1, <1>2, <1>3, StepCases

(* A device is given up with its last attempt, or for one of the reasons. *)
LEMMA NextBadExcused == Inv /\ [Next]_vars => BadExcused'
<1> SUFFICES ASSUME Inv, [Next]_vars, NEW d \in Devices, (d \in bad \ homeless)' PROVE Excused(d)'
  BY NextTypeOK DEF BadExcused, TypeOK
<1>a. TypeOK /\ InTurn /\ BadExcused
  BY DEF Inv
<1>b. UNCHANGED input /\ homeless' = homeless
  BY StepCases DEF input
<1>1. CASE UNCHANGED <<bad, dev, tries, last>>
  BY <1>1, <1>a, <1>b, ExcusedStays DEF BadExcused
<1>2. CASE dev \in homeless /\ dev \in Devices /\ NextDevice(TRUE) /\ UNCHANGED <<tries, last>>
  <2>1. d \in bad \ homeless
    BY <1>2, <1>b DEF NextDevice
  <2> QED
    BY <2>1, <1>2, <1>a, <1>b, ExcusedStays DEF BadExcused
<1>3. CASE Try /\ pc = "try" /\ dev \in Devices
  <2>1. PICK answer \in Answers :
           /\ Record(answer)
           /\ \/ NextDevice(FALSE)
              \/ UNCHANGED <<bad, dev>>
              \/ NextDevice(TRUE) /\ (attempt + 1 = attempts \/ (handler = "dns" /\ answer = "unmet"))
    BY <1>3, TryCases
  <2>2. /\ \A e \in Devices : e # dev => last'[e] = last[e] /\ tries'[e] = tries[e]
        /\ last'[dev] = answer /\ tries'[dev] = attempt + 1
    BY <1>a, <1>3, <2>1, RecordKeeps
  <2>3. CASE d = dev
    <3>1. d \notin bad
      BY <2>3, <1>a DEF InTurn, TypeOK
    <3>2. attempt + 1 = attempts \/ (handler = "dns" /\ answer = "unmet")
      BY <3>1, <2>1 DEF NextDevice
    <3> QED
      BY <3>2, <2>2, <2>3, <1>b DEF Excused, input
  <2>4. CASE d # dev
    <3>1. d \in bad \ homeless
      BY <2>1, <2>4, <1>b DEF NextDevice
    <3> QED
      BY <3>1, <2>2, <2>4, <1>a, <1>b, ExcusedStays DEF BadExcused
  <2> QED
    BY <2>3, <2>4
<1>4. CASE dev \in Devices /\ NextDevice(TRUE) /\ tries' = tries /\ last' = [last EXCEPT ![dev] = "raised"]
  <2>1. CASE d = dev
    BY <2>1, <1>4, <1>a DEF Excused, TypeOK
  <2>2. CASE d # dev
    <3>1. d \in bad \ homeless /\ last'[d] = last[d]
      BY <2>2, <1>4, <1>a, <1>b DEF NextDevice, TypeOK
    <3> QED
      BY <3>1, <1>4, <1>a, <1>b, ExcusedStays DEF BadExcused
  <2> QED
    BY <2>1, <2>2
<1> QED
  BY <1>1, <1>2, <1>3, <1>4, StepCases

LEMMA NextInv == Inv /\ [Next]_vars => Inv'
BY NextTypeOK, NextPollOnly, NextGoodSeen, NextBadExcused DEF Inv

-----------------------------------------------------------------------------

(* The inductive invariant. *)
THEOREM Invariance == Spec => []Inv
<1> QED
  BY InitInv, NextInv, PTL DEF Spec

(* The variables keep their types, for every number of devices and attempts. *)
THEOREM TypeCorrect == Spec => []TypeOK
<1>1. Inv => TypeOK
  BY DEF Inv
<1> QED
  BY Invariance, <1>1, PTL

(* A check that succeeds has seen its condition on every device. *)
THEOREM Success == Spec => []SuccessIsSeen
BY Invariance, InvImplies, PTL

(* No device is given up before its attempts are used. *)
THEOREM Persistence == Spec => []NotGivenUpEarly
BY Invariance, InvImplies, PTL

-----------------------------------------------------------------------------
(* The refinement of TryEach, but for its liveness, which TLC checks. *)

State == [d \in Devices |-> IF d \in bad THEN "bad" ELSE IF d < dev THEN "good" ELSE "open"]

(* The turn of TryEach is that of the current device. *)
LEMMA TurnIsDev ==
  ASSUME Inv, pc # "done", dev \in Devices
  PROVE  /\ Promise!Turn(dev) /\ dev \in Promise!Targets
         /\ pc = "try" => tries[dev] < MaxAttempts
<1>1. verdict = "none" /\ State[dev] = "open"
  BY DEF Inv, TypeOK, InTurn, Judged, State
<1>2. \A u \in Devices : u < dev => State[u] # "open"
  BY DEF Inv, TypeOK, State
<1>3. pc = "try" => tries[dev] < MaxAttempts
  BY DEF Inv, TypeOK, InTurn
<1> QED
  BY <1>1, <1>2, <1>3 DEF Promise!Turn, Promise!Targets, State

(* Leaving a device behind makes it good or bad, and no other. *)
LEMMA NextDeviceState ==
  ASSUME Inv, dev \in Devices, NEW b \in BOOLEAN, NextDevice(b)
  PROVE  State' = [State EXCEPT ![dev] = IF b THEN "bad" ELSE "good"]
<1>1. \A d \in Devices : State'[d] = IF d = dev THEN (IF b THEN "bad" ELSE "good") ELSE State[d]
  BY DEF NextDevice, State, Inv, TypeOK, InTurn
<1> QED
  BY <1>1 DEF State

LEMMA PromiseInit == Init => Promise!Init
BY DEF Init, Promise!Init, Promise!Targets

LEMMA PromiseNext == Inv /\ [Next]_vars => [Promise!Next]_(Promise!vars)
<1> SUFFICES ASSUME Inv, [Next]_vars PROVE [Promise!Next]_(Promise!vars)
  OBVIOUS
<1>a. ASSUME UNCHANGED <<tries, bad, dev, verdict>> PROVE UNCHANGED Promise!vars
  BY <1>a DEF Promise!vars
<1>b. ASSUME pc # "done", dev \in Devices, NextDevice(TRUE), UNCHANGED <<tries, verdict>>
      PROVE  Promise!Next
  <2>1. State' = [State EXCEPT ![dev] = "bad"]
    BY <1>b, NextDeviceState
  <2>2. PICK t \in Promise!Targets : t = dev
    BY <1>b, TurnIsDev
  <2>3. Promise!GiveUp(t)
    BY <1>b, <2>1, <2>2, TurnIsDev DEF Promise!GiveUp, Promise!Turn, State
  <2> QED
    BY <2>3, Zenon DEF Promise!Next
<1>c. ASSUME pc # "done", verdict' = "failure", UNCHANGED <<tries, bad, dev>>
      PROVE  Promise!Next
  <2>1. verdict = "none"
    BY <1>c DEF Inv, Judged
  <2> QED
    BY <1>c, <2>1 DEF Promise!Next, Promise!Break
<1>1. CASE Begin
  <2>1. CASE dev \in homeless
    BY <1>1, <2>1, <1>b DEF Begin, Inv, TypeOK
  <2>2. CASE dev \notin homeless
    BY <1>1, <2>2, <1>a DEF Begin
  <2> QED
    BY <2>1, <2>2
<1>2. CASE Try
  <2>1. PICK answer \in Answers :
          Record(answer) /\ (NextDevice(FALSE) \/ NextDevice(TRUE) \/ UNCHANGED <<bad, dev>>)
    BY <1>2, TryCases
  <2>2. pc = "try" /\ pc # "done" /\ dev \in Devices /\ verdict' = verdict
    BY <1>2 DEF Try, Inv, TypeOK
  <2>3. \E s \in {"open", "good", "bad"} : State' = [State EXCEPT ![dev] = s]
    <3>1. CASE NextDevice(FALSE)
      BY <2>2, <3>1, NextDeviceState
    <3>2. CASE NextDevice(TRUE)
      BY <2>2, <3>2, NextDeviceState
    <3>3. CASE UNCHANGED <<bad, dev>>
      <4>1. State' = State /\ State[dev] = "open"
        BY <2>2, <3>3 DEF State, Inv, TypeOK, InTurn
      <4> QED
        BY <4>1 DEF State
    <3> QED
      BY <2>1, <3>1, <3>2, <3>3
  <2>4. tries' = [tries EXCEPT ![dev] = @ + 1]
    BY <2>1 DEF Record
  <2>5. PICK t \in Promise!Targets : t = dev
    BY <2>2, TurnIsDev
  <2>6. Promise!Try(t)
    BY <2>2, <2>3, <2>4, <2>5, TurnIsDev DEF Promise!Try, Promise!Turn, State
  <2> QED
    BY <2>6, Zenon DEF Promise!Next
<1>3. CASE Raise
  BY <1>3, <1>b DEF Raise, Inv, TypeOK
<1>4. CASE Break
  BY <1>4, <1>c DEF Break
<1>5. CASE Sleep
  BY <1>5, <1>a DEF Sleep
<1>6. CASE Judge
  <2>1. verdict = "none"
    BY <1>6 DEF Judge, Inv, Judged
  <2>2. \A d \in Devices : State[d] = IF d \in bad THEN "bad" ELSE "good"
    BY <1>6 DEF Judge, State, Inv, TypeOK
  <2>3. (\A d \in Devices : State[d] = "good") <=> bad = {}
    BY <2>2 DEF Inv, TypeOK
  <2>4. UNCHANGED <<tries, bad, dev>> /\ verdict' = IF Devices # {} /\ bad = {} THEN "success" ELSE "failure"
    BY <1>6 DEF Judge
  <2>5. Promise!Report
    BY <2>1, <2>2, <2>3, <2>4 DEF Promise!Report, Promise!Targets, State
  <2> QED
    BY <2>5 DEF Promise!Next
<1>7. CASE Change
  BY <1>7, <1>a DEF Change
<1>8. CASE CancelTask
  BY <1>8, <1>c DEF CancelTask
<1>9. CASE UNCHANGED vars
  BY <1>9, <1>a DEF vars
<1> QED
  BY <1>1, <1>2, <1>3, <1>4, <1>5, <1>6, <1>7, <1>8, <1>9 DEF Next, Step

(* Every behaviour of the four handlers is one of TryEach: no device out of  *)
(* its turn, no attempt too many, success only if all are good.              *)
THEOREM Refinement == Spec => Promise!Init /\ [][Promise!Next]_(Promise!vars)
<1> QED
  BY InitInv, NextInv, PromiseInit, PromiseNext, PTL DEF Spec

-----------------------------------------------------------------------------
(* WaitReachable. *)

HIDE ConstantsAssumption DEF Handlers, Answers, Outcomes

(* The deadline is only looked at between the rounds. *)
Late ==
  /\ pc = "check" => now <= MaxWait + (dev - 1) * ConnectTimeout
  /\ pc # "check" => now <= MaxWait + NDevices * ConnectTimeout + PollInterval

(* The window of an id that no other device has is that of its device. *)
OwnWindow == \A d \in Devices : Alone(d) => window[key[d]] = since[d]

StableUpTo(n) ==
  \A d \in Devices : d < n =>
    /\ since[d] # None
    /\ Alone(d) => lastCheck[d] - since[d] >= StableSeconds

(* all_stable speaks of the devices checked in this round. *)
RoundSeen == pc = "check" /\ allStable => StableUpTo(dev)

WaitInv == WaitTypeOK /\ Late /\ OwnWindow /\ RoundSeen /\ StableIsSeen /\ NamedAreDown

USE WaitConstants

-----------------------------------------------------------------------------

LEMMA Products ==
  ASSUME NEW k \in Nat, k <= NDevices
  PROVE  /\ k * ConnectTimeout \in Nat /\ NDevices * ConnectTimeout \in Nat
         /\ k * ConnectTimeout <= NDevices * ConnectTimeout
         /\ (k + 1) * ConnectTimeout = k * ConnectTimeout + ConnectTimeout
OBVIOUS

LEMMA NoneIsLate ==
  /\ None \in Nat /\ Times = 0 .. None
  /\ MaxWait + NDevices * ConnectTimeout + PollInterval < None
<1>1. NDevices * ConnectTimeout \in Nat /\ (NDevices + 1) * ConnectTimeout = NDevices * ConnectTimeout + ConnectTimeout
  BY Products
<1> QED
  BY <1>1 DEF None, Times

LEMMA WaitStarts == WaitInit => WaitInv
<1> SUFFICES ASSUME WaitInit PROVE WaitInv
  OBVIOUS
<1>1. 0 \in Times \ {None} /\ None \in Times
  BY NoneIsLate
<1>2. WaitTypeOK
  BY <1>1 DEF WaitInit, WaitTypeOK
<1>3. Late
  BY Products DEF WaitInit, Late
<1> QED
  BY <1>2, <1>3 DEF WaitInit, WaitInv, OwnWindow, RoundSeen, StableIsSeen, NamedAreDown

LEMMA LateKept == WaitTypeOK /\ Late /\ [WaitNext]_waitVars => Late' /\ now' \in Times \ {None}
<1> SUFFICES ASSUME WaitTypeOK, Late, [WaitNext]_waitVars PROVE Late' /\ now' \in Times \ {None}
  OBVIOUS
<1>a. now \in Nat /\ now < None /\ dev \in 1 .. NDevices + 1
  BY NoneIsLate DEF WaitTypeOK
<1>1. CASE Round
  BY <1>1, <1>a, NoneIsLate, Products DEF Round, Late
<1>2. CASE Check
  <2>1. PICK t \in 0 .. ConnectTimeout : now' = now + t
    BY <1>2 DEF Check
  <2>2. dev - 1 \in Nat /\ dev - 1 <= NDevices /\ dev \in Nat /\ dev <= NDevices
    BY <1>2, <1>a DEF Check
  <2>3. /\ dev * ConnectTimeout = (dev - 1) * ConnectTimeout + ConnectTimeout
        /\ dev * ConnectTimeout <= NDevices * ConnectTimeout
        /\ (dev - 1) * ConnectTimeout \in Nat /\ NDevices * ConnectTimeout \in Nat
    <3>1. (dev - 1 + 1) * ConnectTimeout = (dev - 1) * ConnectTimeout + ConnectTimeout
      BY <2>2, Products
    <3>2. dev * ConnectTimeout <= NDevices * ConnectTimeout /\ (dev - 1) * ConnectTimeout \in Nat
          /\ NDevices * ConnectTimeout \in Nat
      BY <2>2, Products
    <3> QED
      BY <2>2, <3>1, <3>2
  <2>4. now' <= MaxWait + dev * ConnectTimeout /\ now' \in Nat
    BY <1>2, <1>a, <2>1, <2>3 DEF Check, Late
  <2>5. pc' = "check" /\ dev' - 1 = dev
    BY <1>2, <1>a DEF Check
  <2>6. now' < None
    BY <1>a, <2>3, <2>4, NoneIsLate
  <2> QED
    BY <2>4, <2>5, <2>6, NoneIsLate DEF Late
<1>3. CASE EndRound
  <2>1. now <= MaxWait + NDevices * ConnectTimeout /\ NDevices * ConnectTimeout \in Nat
    <3>1. dev - 1 = NDevices
      BY <1>3, <1>a DEF EndRound
    <3> QED
      BY <1>3, <1>a, <3>1, Products DEF EndRound, Late
  <2>2. now' \in {now, now + PollInterval} /\ pc' \in {"done", "round"}
    BY <1>3 DEF EndRound
  <2> QED
    BY <1>a, <2>1, <2>2, NoneIsLate DEF Late
<1>4. CASE UpOrDown \/ UNCHANGED waitVars
  BY <1>4, <1>a, NoneIsLate DEF UpOrDown, waitVars, Late
<1> QED
  BY <1>1, <1>2, <1>3, <1>4 DEF WaitNext, WaitStep

LEMMA TypeKept == WaitTypeOK /\ Late /\ [WaitNext]_waitVars => WaitTypeOK'
<1> SUFFICES ASSUME WaitTypeOK, Late, [WaitNext]_waitVars PROVE WaitTypeOK'
  OBVIOUS
<1>a. now' \in Times \ {None} /\ None \in Times
  BY LateKept, NoneIsLate
<1>1. CASE Round
  <2>1. named' \subseteq Devices
    BY <1>1 DEF Round, WaitTypeOK
  <2>2. \/ pc' = "done" /\ verdict' = "timeout" /\ dev' = dev /\ allStable' = allStable
        \/ pc' = "check" /\ verdict' = verdict /\ dev' = 1 /\ allStable' = TRUE
    BY <1>1, Zenon DEF Round
  <2>3. UNCHANGED <<key, up, window, since, lastCheck>> /\ pc = "round"
    BY <1>1 DEF Round
  <2>4. CASE pc' = "done" /\ verdict' = "timeout" /\ dev' = dev /\ allStable' = allStable
    BY <1>a, <2>1, <2>3, <2>4 DEF WaitTypeOK
  <2>5. CASE pc' = "check" /\ verdict' = verdict /\ dev' = 1 /\ allStable' = TRUE
    BY <1>a, <2>1, <2>3, <2>5 DEF WaitTypeOK
  <2> QED
    BY <2>2, <2>4, <2>5
<1>2. CASE Check
  <2>1. PICK reachable \in {FALSE, up[dev]} : Track(reachable) /\ Observe(reachable)
    BY <1>2 DEF Check
  <2>2. dev \in Devices /\ key[dev] \in Devices /\ dev' = dev + 1 /\ UNCHANGED <<key, up, pc, verdict, named>>
    BY <1>2 DEF Check, WaitTypeOK
  <2>3. reachable \in BOOLEAN
    BY <2>1, <2>2 DEF WaitTypeOK
  <2>4. since' \in [Devices -> Times] /\ lastCheck' \in [Devices -> Times \ {None}]
    BY <1>a, <2>1, <2>2 DEF Observe, WaitTypeOK
  <2>5. window' \in [Devices -> Times]
    BY <1>a, <2>1, <2>2 DEF Track, WaitTypeOK
  <2>6. allStable' \in BOOLEAN
    BY <2>1, <2>2, <2>3, Zenon DEF Track, WaitTypeOK
  <2>7. dev' \in 1 .. NDevices + 1
    BY <2>2, WaitConstants
  <2> QED
    BY <1>a, <2>2, <2>4, <2>5, <2>6, <2>7 DEF WaitTypeOK
<1>3. CASE EndRound
  BY <1>3, <1>a DEF EndRound, WaitTypeOK
<1>4. CASE UpOrDown \/ UNCHANGED waitVars
  BY <1>4, <1>a DEF UpOrDown, waitVars, WaitTypeOK
<1> QED
  BY <1>1, <1>2, <1>3, <1>4 DEF WaitNext, WaitStep

LEMMA CheckSeen ==
  ASSUME WaitInv, Check
  PROVE  OwnWindow' /\ RoundSeen'
<1>1. PICK reachable \in {FALSE, up[dev]} : Track(reachable) /\ Observe(reachable)
  BY DEF Check
<1>2. dev \in Devices /\ dev' = dev + 1 /\ pc = "check" /\ key' = key /\ WaitTypeOK
      /\ \A d \in Devices : key[d] \in Devices /\ Alone(d)' = Alone(d)
  BY DEF Check, WaitInv, WaitTypeOK, Alone
<1>3. now' \in Times \ {None}
  BY LateKept DEF WaitInv, WaitNext, WaitStep
<1>4. \A d \in Devices : d # dev => since'[d] = since[d] /\ lastCheck'[d] = lastCheck[d]
  BY <1>1, <1>2 DEF Observe, WaitTypeOK
<1>5. \A k \in Devices : k # key[dev] => window'[k] = window[k]
  BY <1>1, <1>2 DEF Track, WaitTypeOK
<1>6. CASE reachable
  <2>1. /\ window'[key[dev]] = IF window[key[dev]] = None THEN now' ELSE window[key[dev]]
        /\ since'[dev] = IF since[dev] = None THEN now' ELSE since[dev]
        /\ lastCheck'[dev] = now'
        /\ allStable' => allStable /\ window[key[dev]] # None /\ now' - window[key[dev]] >= StableSeconds
    BY <1>1, <1>2, <1>6 DEF Track, Observe, WaitTypeOK
  <2>2. OwnWindow'
    <3> SUFFICES ASSUME NEW d \in Devices, Alone(d) PROVE window'[key[d]] = since'[d]
      BY <1>2 DEF OwnWindow
    <3>1. window[key[d]] = since[d]
      BY DEF WaitInv, OwnWindow
    <3>2. CASE d = dev
      BY <2>1, <3>1, <3>2
    <3>3. CASE d # dev
      BY <1>2, <1>4, <1>5, <3>1, <3>3 DEF Alone
    <3> QED
      BY <3>2, <3>3
  <2>3. RoundSeen'
    <3> SUFFICES ASSUME allStable', NEW d \in Devices, d < dev + 1
                 PROVE  since'[d] # None /\ (Alone(d) => lastCheck'[d] - since'[d] >= StableSeconds)
      BY <1>2 DEF RoundSeen, StableUpTo
    <3>1. CASE d = dev
      BY <1>3, <2>1, <3>1 DEF WaitInv, OwnWindow
    <3>2. CASE d # dev
      BY <1>2, <1>4, <2>1, <3>2 DEF WaitInv, RoundSeen, StableUpTo
    <3> QED
      BY <3>1, <3>2
  <2> QED
    BY <2>2, <2>3
<1>7. CASE ~reachable
  <2>1. window'[key[dev]] = None /\ since'[dev] = None /\ ~allStable'
    BY <1>1, <1>2, <1>7 DEF Track, Observe, WaitTypeOK
  <2>2. OwnWindow'
    <3> SUFFICES ASSUME NEW d \in Devices, Alone(d) PROVE window'[key[d]] = since'[d]
      BY <1>2 DEF OwnWindow
    <3>1. CASE d = dev
      BY <2>1, <3>1
    <3>2. CASE d # dev
      BY <1>2, <1>4, <1>5, <3>2 DEF Alone, WaitInv, OwnWindow
    <3> QED
      BY <3>1, <3>2
  <2> QED
    BY <2>1, <2>2 DEF RoundSeen
<1> QED
  BY <1>6, <1>7

LEMMA WaitKept == WaitInv /\ [WaitNext]_waitVars => WaitInv'
<1> SUFFICES ASSUME WaitInv, [WaitNext]_waitVars PROVE WaitInv'
  OBVIOUS
<1>a. WaitTypeOK' /\ Late'
  BY TypeKept, LateKept DEF WaitInv
<1>b. key' = key /\ WaitTypeOK /\ WaitTypeOK'
  BY <1>a DEF WaitInv, WaitNext, WaitStep, Round, Check, EndRound, UpOrDown, waitVars
<1>c. \A d \in Devices : Alone(d)' = Alone(d)
  BY <1>b DEF Alone
<1>1. CASE Round
  <2>1. UNCHANGED <<window, since, lastCheck>> /\ pc = "round" /\ verdict' \in {"none", "timeout"}
    BY <1>1, <1>b DEF Round, WaitTypeOK
  <2>2. OwnWindow'
    BY <1>b, <1>c, <2>1 DEF WaitInv, OwnWindow
  <2>3. RoundSeen'
    BY <1>1 DEF Round, RoundSeen, StableUpTo
  <2>4. StableIsSeen'
    BY <2>1 DEF StableIsSeen
  <2>5. NamedAreDown'
    BY <1>1, <1>b, <1>c, <2>1 DEF Round, WaitInv, NamedAreDown, OwnWindow, WaitTypeOK
  <2> QED
    BY <1>a, <2>2, <2>3, <2>4, <2>5 DEF WaitInv
<1>2. CASE Check
  <2>1. verdict' = "none"
    BY <1>2, <1>b DEF Check, WaitTypeOK
  <2> QED
    BY <1>2, <1>a, <2>1, CheckSeen DEF WaitInv, StableIsSeen, NamedAreDown
<1>3. CASE EndRound
  <2>1. UNCHANGED <<window, since, lastCheck>> /\ pc = "check" /\ pc' # "check" /\ verdict' \in {"none", "stable"}
    BY <1>3, <1>b DEF EndRound, WaitTypeOK
  <2>2. OwnWindow'
    BY <1>b, <1>c, <2>1 DEF WaitInv, OwnWindow
  <2>3. RoundSeen' /\ NamedAreDown'
    BY <2>1 DEF RoundSeen, NamedAreDown
  <2>4. StableIsSeen'
    <3> SUFFICES ASSUME verdict' = "stable"
                 PROVE  \A d \in Devices : /\ since[d] # None
                                           /\ Alone(d) => lastCheck[d] - since[d] >= StableSeconds
      BY <1>c, <2>1 DEF StableIsSeen
    <3>1. allStable /\ dev = NDevices + 1
      BY <1>3, <1>b DEF EndRound, WaitTypeOK
    <3> QED
      BY <2>1, <3>1 DEF WaitInv, RoundSeen, StableUpTo
  <2> QED
    BY <1>a, <2>2, <2>3, <2>4 DEF WaitInv
<1>4. CASE UpOrDown \/ UNCHANGED waitVars
  <2>1. UNCHANGED <<pc, dev, allStable, window, verdict, named, since, lastCheck>>
    BY <1>4 DEF UpOrDown, waitVars
  <2> QED
    BY <1>a, <1>b, <1>c, <2>1 DEF WaitInv, OwnWindow, RoundSeen, StableUpTo, StableIsSeen, NamedAreDown
<1> QED
  BY <1>1, <1>2, <1>3, <1>4 DEF WaitNext, WaitStep

-----------------------------------------------------------------------------

(* The inductive invariant: how late it is, whose window is whose, and what    *)
(* the devices checked in this round have shown.                               *)
THEOREM WaitInvariance == WaitSpec => []WaitInv
BY WaitStarts, WaitKept, PTL DEF WaitSpec

(* Type correctness, for any number of devices and any times.                  *)
THEOREM WaitTypeCorrect == WaitSpec => []WaitTypeOK
<1>1. WaitInv => WaitTypeOK
  BY DEF WaitInv
<1> QED
  BY <1>1, WaitInvariance, PTL

(* Devices that wait_reachable reports as stable have been reachable at every  *)
(* check of a whole window.                                                    *)
THEOREM Stable == WaitSpec => []StableIsSeen
<1>1. WaitInv => StableIsSeen
  BY DEF WaitInv
<1> QED
  BY <1>1, WaitInvariance, PTL

(* The message of a timeout names those whose last check failed, no others.    *)
THEOREM Named == WaitSpec => []NamedAreDown
<1>1. WaitInv => NamedAreDown
  BY DEF WaitInv
<1> QED
  BY <1>1, WaitInvariance, PTL

(* max_wait_seconds is overrun by at most a round of checks and a pause.       *)
THEOREM OverrunBounded == WaitSpec => []Overrun
<1>1. WaitInv => Overrun
  <2> SUFFICES ASSUME WaitInv, verdict # "none" PROVE Overrun
    BY DEF Overrun
  <2> QED
    BY DEF WaitInv, WaitTypeOK, Late, Overrun
<1> QED
  BY <1>1, WaitInvariance, PTL

=============================================================================
