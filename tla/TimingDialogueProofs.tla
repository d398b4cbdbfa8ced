------------------------ MODULE TimingDialogueProofs -------------------------
(***************************************************************************)
(* TimingDialogue for any number of items and patterns, any limits and any *)
(* device: which prompt an answer reaches, which prompt is left waiting,   *)
(* and what is still sent after a cancellation.                            *)
(***************************************************************************)
EXTENDS TimingDialogue, FiniteSetTheorems, WellFoundedInduction, TLAPS

(* The device goes on behind a prompt only when it has its line, and takes one only there. *)
Asking ==
  \A i \in Items : /\ asks[i] /\ printed > 2 * i => got[i] # 0
                   /\ got[i] # 0 => asks[i] /\ printed >= 2 * i

(* Each transport has its own loops, and the position of the search is the end of what was read. *)
Loops ==
  /\ transport = "netmiko" /\ ~waits => pc \notin {"initial", "check", "read"}
  /\ transport # "netmiko" => pc \notin {"collect", "answers", "initial"}
  /\ pc \in {"connect", "command", "collect", "answers", "initial"} => start = 0
  /\ pc \in {"connect", "command"} => seen = 0
  /\ pc \in {"check", "read"} => start = seen

(* Prompts whose answer has been sent. *)
Fits ==
  /\ \A i \in Items : asks[i] \/ text[i] = {}
  /\ transport = "netmiko" => ~waits /\ \A i \in Items : Cardinality(text[i]) <= 1
Behind(i) == IF transport = "netmiko" THEN text[i] \subseteq first ELSE 2 * i <= start
OnTheWay(i, p) == WaitsAt(i) /\ Behind(i) /\ p \in text[i] /\ input = <<p>>
Answered ==
  Fits =>
    /\ \A i \in Items : got[i] # 0 => got[i] \in text[i] /\ Behind(i)
    /\ input = <<>> \/ \E i \in Items, p \in Patterns : OnTheWay(i, p)

(* A prompt behind the position was cut, or used up, or has a line coming. *)
Searched ==
  /\ \A i \in Items : start = 2 * i - 1 => i \in split
  /\ \A i \in Items : WaitsAt(i) /\ 2 * i <= start =>
       i \in split \/ text[i] \subseteq used \/ input # <<>>

(* The one answer that may go out after the cancellation. *)
LateOnce ==
  transport # "netmiko" \/ ~waits =>
    late = 0 \/ (late = 1 /\ cancelled # "no" /\ transport # "netmiko" /\
                   pc \in {"check", "close", "ended"})

TimedInv == TypeOK /\ Asking /\ Loops /\ Answered /\ Searched /\ LateOnce

USE ConstantsAssumption

-----------------------------------------------------------------------------

(* The first of some patterns is one of them. *)
LEMMA EarliestIn ==
  ASSUME NEW ps, ps \subseteq Nat, ps # {} PROVE Earliest(ps) \in ps
<1> DEFINE below == OpToRel(<, Nat)
<1>1. \E p \in ps : \A q \in ps : <<q, p>> \notin below
  BY NatLessThanWellFounded, WFMin
<1>2. \A p, q \in Nat : q < p => <<q, p>> \in below
  BY DEF OpToRel
<1> HIDE DEF below
<1>3. \E p \in ps : \A q \in ps : p <= q
  <2>1. PICK p \in ps : \A q \in ps : <<q, p>> \notin below
    BY <1>1
  <2>2. \A q \in ps : p \in Nat /\ q \in Nat /\ ~ q < p
    BY <1>2, <2>1
  <2>3. \A q \in ps : p <= q
    BY <2>2
  <2> QED
    BY <2>3
<1> QED
  BY <1>3 DEF Earliest

(* What a search finds is in an item wholly within the text. *)
LEMMA Found ==
  ASSUME TypeOK, NEW a \in Nat, NEW b \in Nat, NEW done, NEW fresh, fresh = Matching(a, b) \ done
  PROVE  /\ fresh \subseteq Patterns
         /\ fresh # {} =>
              /\ Earliest(fresh) \in fresh
              /\ \E i \in Items : a <= 2 * i - 2 /\ 2 * i <= b /\ Earliest(fresh) \in text[i]
<1>1. \A p \in fresh : \E i \in Items : a <= 2 * i - 2 /\ 2 * i <= b /\ p \in text[i]
  BY DEF Matching, Shown
<1>2. fresh \subseteq Patterns
  BY <1>1 DEF TypeOK
<1>3. fresh # {} => Earliest(fresh) \in fresh
  BY <1>2, EarliestIn DEF Patterns
<1> QED
  BY <1>1, <1>2, <1>3

(* Nothing is printed, read or sent at first. *)
LEMMA TimedInit == ASSUME Init PROVE TimedInv
<1> USE DEF Init
<1>1. Last \in Nat
  BY DEF Last
<1>2. TypeOK
  <2>1. <<>> \in Seq(Patterns)
    OBVIOUS
  <2>2. 0 \in 0 .. Last /\ 0 \in 0 .. 0 /\ 0 \in 0 .. QuietReads
    BY <1>1
  <2> QED
    BY <2>1, <2>2 DEF TypeOK
<1>3. Asking /\ Loops /\ Answered /\ LateOnce
  BY DEF Asking, Loops, Answered, LateOnce, Items
<1>4. Searched
  BY DEF Searched, Items, WaitsAt
<1> QED
  BY <1>2, <1>3, <1>4 DEF TimedInv

(* A read that searches the text behind the position. *)
LEMMA ReadTypes ==
  ASSUME TimedInv, seen' = printed, AnswerOne, text' = text
  PROVE  /\ start' = printed /\ printed \in Nat /\ used \subseteq used' /\ used' \subseteq Patterns
         /\ split' = split \cup Cut(printed) /\ split' \subseteq Items
         /\ \/ Matching(start, printed) \subseteq used /\ UNCHANGED <<used, input, late>>
            \/ \E i \in Items, p \in Patterns :
                 /\ start <= 2 * i - 2 /\ 2 * i <= printed /\ p \in text[i]
                 /\ Send(p)
<1> DEFINE fresh == Matching(start, printed) \ used
<1>1. start \in Nat /\ printed \in Nat /\ used \subseteq Patterns /\ split \subseteq Items
  BY DEF TimedInv, TypeOK, Last
<1>2. /\ fresh \subseteq Patterns
      /\ fresh # {} =>
           /\ Earliest(fresh) \in fresh
           /\ \E i \in Items : start <= 2 * i - 2 /\ 2 * i <= printed /\ Earliest(fresh) \in text[i]
  BY <1>1, Found DEF TimedInv
<1>3. start' = printed /\ split' = split \cup Cut(printed)
  BY DEF AnswerOne
<1>4. Cut(printed) \subseteq Items
  BY DEF Cut
<1>5. CASE fresh = {}
  <2>1. UNCHANGED <<used, input, late>>
    BY <1>5 DEF AnswerOne, Matching, Shown
  <2> QED
    BY <1>1, <1>3, <1>4, <1>5, <2>1
<1>6. CASE fresh # {}
  <2>1. used' = used \cup {Earliest(fresh)} /\ Send(Earliest(fresh))
    BY <1>6 DEF AnswerOne, Matching, Shown
  <2> QED
    BY <1>1, <1>2, <1>3, <1>4, <1>6, <2>1
<1> QED
  BY <1>5, <1>6

(* Every step of the transport, the device and the host keeps the types. *)
LEMMA TimedTypes == ASSUME TimedInv, [Next]_vars PROVE TypeOK'
<1> USE DEF TimedInv, TypeOK, script, device, client
<1>1. Last \in Nat /\ Patterns \subseteq Nat /\ printed \in Nat /\ seen \in Nat /\ late \in Nat /\ start \in Nat
  BY DEF Last, Patterns
<1>2. ASSUME NEW p \in Patterns, Send(p) PROVE input' \in Seq(Patterns) /\ late' \in Nat
  <2>1. Append(input, p) \in Seq(Patterns)
    OBVIOUS
  <2> QED
    BY <1>1, <1>2, <2>1 DEF Send
<1>3. ASSUME NEW outcome \in {"ok", "error", "failed", "cancelled"}, Finish(outcome)
      PROVE  pc' = "close" /\ result' \in {"none", "ok", "error", "failed", "cancelled"}
  BY <1>3 DEF Finish
<1>4. Conclude => pc' = "close" /\ result' \in {"none", "ok", "error", "failed", "cancelled"}
  BY <1>3 DEF Conclude
<1>5. CASE PrintOutput
  <2>1. printed' \in 0 .. Last /\ seen \in 0 .. printed'
    BY <1>1, <1>5 DEF PrintOutput
  <2> QED
    BY <1>5, <2>1 DEF PrintOutput
<1>6. CASE TakeLine
  <2>1. Head(input) \in Patterns /\ Tail(input) \in Seq(Patterns)
    BY <1>6 DEF TakeLine
  <2>2. got' \in [Items -> {0} \cup Patterns]
    BY <1>6, <2>1 DEF TakeLine
  <2> QED
    BY <1>6, <2>1, <2>2 DEF TakeLine
<1>7. CASE Connect
  BY <1>3, <1>7 DEF Connect, Goto
<1>8. CASE Command
  BY <1>3, <1>8 DEF Command, Goto
<1>9. CASE Collect
  <2>1. seen' \in 0 .. printed /\ start \in 0 .. seen' /\ printed' = printed /\ start' = start
    BY <1>1, <1>9 DEF Collect
  <2> QED
    BY <1>3, <1>9, <2>1 DEF Collect, Goto
<1>10. CASE Answers
  <2> DEFINE fresh == Matching(0, seen) \ first
  <2>1. fresh \subseteq Patterns /\ (fresh # {} => Earliest(fresh) \in fresh)
    BY <1>1, Found
  <2>2. CASE cancelled # "no" \/ Cardinality(first) >= AnswerLimit \/ fresh = {}
    BY <1>4, <1>10, <2>2 DEF Answers, AfterAnswers, Goto
  <2>3. CASE ~(cancelled # "no" \/ Cardinality(first) >= AnswerLimit \/ fresh = {})
    <3>1. Earliest(fresh) \in Patterns
      BY <2>1, <2>3
    <3>2. input' \in Seq(Patterns) /\ late' \in Nat /\ first' \subseteq Patterns
      BY <1>1, <1>2, <1>10, <2>3, <3>1 DEF Answers
    <3> QED
      BY <1>3, <1>10, <2>3, <3>2 DEF Answers, Goto
  <2> QED
    BY <2>2, <2>3
<1>11. CASE Initial
  <2> DEFINE fresh == Matching(0, seen) \ used
  <2>1. fresh \subseteq Patterns /\ (fresh # {} => Earliest(fresh) \in fresh)
    BY <1>1, Found
  <2>2. CASE fresh = {}
    <3>1. start' \in 0 .. seen' /\ split' \subseteq Items
      BY <1>1, <1>11, <2>2 DEF Initial, Cut
    <3> QED
      BY <1>11, <2>2, <3>1 DEF Initial, Goto
  <2>3. CASE fresh # {}
    <3>1. Earliest(fresh) \in Patterns
      BY <2>1, <2>3
    <3>2. input' \in Seq(Patterns) /\ late' \in Nat /\ used' \subseteq Patterns
      BY <1>1, <1>2, <1>11, <2>3, <3>1 DEF Initial
    <3> QED
      BY <1>3, <1>11, <2>3, <3>2 DEF Initial, Goto
  <2> QED
    BY <2>2, <2>3
<1>12. CASE Check \/ ReadFails
  BY <1>4, <1>12 DEF Check, ReadFails, Goto
<1>13. CASE NetmikoRead \/ ScrapliRead \/ AsyncsshRead
  <2>1. seen' = printed /\ AnswerOne /\ UNCHANGED <<script, running, printed, got, conn, first, expired, cancelled>>
    BY <1>13 DEF NetmikoRead, ScrapliRead, AsyncsshRead, Poll
  <2>2. start' = printed /\ used' \subseteq Patterns /\ split' \subseteq Items
    BY <2>1, ReadTypes
  <2>3. input' \in Seq(Patterns) /\ late' \in Nat
    <3>1. UNCHANGED <<input, late>> \/ \E p \in Patterns : Send(p)
      BY <2>1, ReadTypes
    <3> QED
      BY <1>1, <1>2, <3>1
  <2>4. pc' \in {"close", "check"} /\ result' \in {"none", "ok", "error", "failed", "cancelled"}
    BY <1>4, <1>13 DEF NetmikoRead, ScrapliRead, AsyncsshRead, Goto
  <2>5. quiet' \in 0 .. QuietReads
    <3>1. quiet' = quiet \/ quiet' = 0 \/ (quiet < QuietReads /\ quiet' = quiet + 1)
      BY <1>13 DEF NetmikoRead, ScrapliRead, AsyncsshRead, Poll
    <3> QED
      BY <3>1
  <2>6. seen' \in 0 .. printed' /\ start' \in 0 .. seen'
    BY <1>1, <2>1, <2>2
  <2> QED
    BY <2>1, <2>2, <2>3, <2>4, <2>5, <2>6
<1>14. CASE Close
  BY <1>14 DEF Close, Goto
<1>15. CASE Flag
  <2>1. cancelled' \in {"no", "flagged", "swept"}
    BY <1>15 DEF Flag
  <2> QED
    BY <1>15, <2>1 DEF Flag
<1>16. CASE CancelTask
  BY <1>3, <1>16 DEF CancelTask
<1>18. CASE Sweep
  BY <1>18 DEF Sweep
<1>19. CASE Drop
  BY <1>19 DEF Drop
<1>20. CASE Expire
  <2>1. expired' \in BOOLEAN
    BY <1>20 DEF Expire
  <2> QED
    BY <1>20, <2>1 DEF Expire
<1>17. CASE UNCHANGED vars
  BY <1>17 DEF vars
<1> QED
  BY <1>5, <1>6, <1>7, <1>8, <1>9, <1>10, <1>11, <1>12, <1>13, <1>14, <1>15, <1>16, <1>17,
     <1>18, <1>19, <1>20 DEF Next, Transport

(* The device neither goes on without its line nor reads one elsewhere. *)
LEMMA AskingKept == ASSUME TimedInv, [Next]_vars PROVE Asking'
<1> USE DEF TimedInv, script, device, client
<1>1. printed \in Nat /\ got \in [Items -> {0} \cup Patterns] /\ Items \subseteq Nat
  BY DEF TypeOK, Items, Last
<1>2. ASSUME UNCHANGED <<asks, printed, got>> PROVE Asking'
  BY <1>2 DEF Asking
<1>3. CASE PrintOutput
  <2>1. printed' = printed + 1 /\ UNCHANGED <<asks, got>>
    BY <1>3 DEF PrintOutput
  <2>2. \A i \in Items : asks[i] /\ printed = 2 * i => got[i] # 0
    BY <1>3 DEF PrintOutput, Waiting, WaitsAt
  <2>3. ASSUME NEW i \in Items
        PROVE  /\ asks[i] /\ printed + 1 > 2 * i => got[i] # 0
               /\ got[i] # 0 => asks[i] /\ printed + 1 >= 2 * i
    <3>1. i \in Nat
      BY <1>1
    <3>2. printed + 1 > 2 * i => printed > 2 * i \/ printed = 2 * i
      BY <1>1, <3>1
    <3>3. printed >= 2 * i => printed + 1 >= 2 * i
      BY <1>1, <3>1
    <3> QED
      BY <2>2, <3>2, <3>3 DEF Asking
  <2> QED
    BY <2>1, <2>3 DEF Asking
<1>4. CASE TakeLine
  <2>1. PICK i \in Items : WaitsAt(i) /\ got' = [got EXCEPT ![i] = Head(input)]
    BY <1>4 DEF TakeLine
  <2>2. Head(input) # 0
    BY <1>4 DEF TakeLine, TypeOK, Patterns
  <2>3. printed >= 2 * i /\ asks[i]
    BY <1>1, <2>1 DEF WaitsAt
  <2>4. UNCHANGED <<printed, asks>>
    BY <1>4 DEF TakeLine
  <2>5. \A j \in Items : got'[j] = IF j = i THEN Head(input) ELSE got[j]
    BY <1>1, <2>1
  <2> QED
    BY <2>2, <2>3, <2>4, <2>5 DEF Asking
<1>5. CASE Transport \/ Flag \/ Sweep \/ CancelTask \/ Drop \/ Expire
  <2>1. UNCHANGED <<asks, printed, got>>
    BY <1>5 DEF Transport, Connect, Command, Collect, Answers, Initial, Check, ReadFails,
       NetmikoRead, ScrapliRead, AsyncsshRead, Close, Flag, Sweep, CancelTask, Drop, Expire
  <2> QED
    BY <1>2, <2>1
<1>6. CASE UNCHANGED vars
  BY <1>2, <1>6 DEF vars
<1> QED
  BY <1>3, <1>4, <1>5, <1>6 DEF Next

(* The loops of netmiko come before the one the transports share. *)
LEMMA LoopsKept == ASSUME TimedInv, [Next]_vars PROVE Loops'
<1> USE DEF TimedInv, Loops, script, device, client
<1>1. seen \in Nat /\ start \in 0 .. seen
  BY DEF TypeOK, Last
<1>2. CASE PrintOutput \/ TakeLine \/ Flag \/ Sweep \/ Drop \/ Expire \/ UNCHANGED vars
  BY <1>2 DEF PrintOutput, TakeLine, Flag, Sweep, Drop, Expire, vars
<1>3. CASE Connect
  BY <1>3 DEF Connect, Goto, Finish
<1>4. CASE Command
  <2>1. seen = 0 => start = seen
    BY <1>1
  <2>2. pc = "command" => seen = 0
    OBVIOUS
  <2> QED
    BY <1>4, <2>1 DEF Command, Goto, Finish
<1>5. CASE Collect \/ Answers
  BY <1>5 DEF Collect, Answers, AfterAnswers, Conclude, Goto, Finish
<1>6. CASE Initial
  BY <1>6 DEF Initial, Goto, Finish
<1>7. CASE Check \/ ReadFails \/ Close \/ CancelTask
  BY <1>7 DEF Check, ReadFails, Close, CancelTask, Conclude, Goto, Finish
<1>8. CASE NetmikoRead \/ ScrapliRead \/ AsyncsshRead
  BY <1>8 DEF NetmikoRead, ScrapliRead, AsyncsshRead, Poll, AnswerOne, Conclude, Goto, Finish
<1> QED
  BY <1>2, <1>3, <1>4, <1>5, <1>6, <1>7, <1>8 DEF Next, Transport


(* What has been answered stays so, and lines that are sent reach the prompt they are meant for. *)
LEMMA AnsweredKept == ASSUME TimedInv, [Next]_vars PROVE Answered'
<1> USE DEF TimedInv, script, device, client
<1>1. /\ printed \in Nat /\ seen \in Nat /\ start \in Nat /\ seen <= printed /\ start <= seen
      /\ got \in [Items -> {0} \cup Patterns] /\ Items \subseteq Nat /\ Patterns \subseteq Nat
      /\ first \subseteq Patterns /\ used \subseteq Patterns /\ input \in Seq(Patterns)
      /\ text \in [Items -> SUBSET Patterns]
  BY DEF TypeOK, Items, Patterns, Last
<1>2. ASSUME UNCHANGED <<script, printed, input, got>>, first' = first, start' = start PROVE Answered'
  BY <1>2 DEF Answered, Fits, Behind, OnTheWay, WaitsAt
<1>3. ASSUME UNCHANGED <<script, printed, input, got>>, first' = first, start' \in Nat, start <= start'
      PROVE  Answered'
  <2>1. \A i \in Items : Behind(i) => Behind(i)'
    BY <1>1, <1>3 DEF Behind
  <2> QED
    BY <1>3, <2>1 DEF Answered, Fits, OnTheWay, WaitsAt
<1>4. ASSUME NEW i \in Items, NEW p \in Patterns, Fits, ~Behind(i), p \in text[i], 2 * i <= printed,
             Send(p), UNCHANGED <<script, printed, got>>, first \subseteq first', start' \in Nat,
             start <= start', Behind(i)'
      PROVE  Answered'
  <2>1. asks[i] /\ got[i] = 0
    BY <1>4 DEF Fits, Answered
  <2>2. WaitsAt(i)
    <3>1. ~(printed > 2 * i)
      BY <2>1 DEF Asking
    <3>2. printed = 2 * i
      BY <1>1, <1>4, <3>1
    <3> QED
      BY <2>1, <3>2 DEF WaitsAt
  <2>3. input = <<>>
    <3>1. \A j \in Items : WaitsAt(j) => j = i
      BY <1>1, <2>2 DEF WaitsAt
    <3> QED
      BY <1>4, <3>1 DEF Answered, OnTheWay
  <2>4. input' = <<p>>
    BY <1>4, <2>3 DEF Send
  <2>5. OnTheWay(i, p)'
    BY <1>4, <2>2, <2>4 DEF OnTheWay, WaitsAt
  <2>6. ASSUME NEW j \in Items, Behind(j) PROVE Behind(j)'
    <3>1. text' = text /\ transport' = transport /\ 2 * j \in Nat
      BY <1>1, <1>4
    <3>2. 2 * j <= start => 2 * j <= start'
      BY <1>1, <1>4, <3>1
    <3> QED
      BY <1>4, <2>6, <3>1, <3>2 DEF Behind
  <2> QED
    BY <1>4, <2>5, <2>6 DEF Answered
<1>5. CASE PrintOutput
  <2>1. Fits => input = <<>>
    BY <1>5 DEF PrintOutput, Answered, OnTheWay, Waiting
  <2>2. UNCHANGED <<script, input, got, first, start>>
    BY <1>5 DEF PrintOutput
  <2> QED
    BY <2>1, <2>2 DEF Answered, Fits, Behind
<1>6. CASE TakeLine
  <2>1. SUFFICES ASSUME Fits
                 PROVE  /\ \A i \in Items : got'[i] # 0 => got'[i] \in text[i] /\ Behind(i)
                        /\ input' = <<>>
    BY <1>6 DEF TakeLine, Answered, Fits, Behind
  <2>2. PICK i \in Items : WaitsAt(i) /\ got' = [got EXCEPT ![i] = Head(input)]
    BY <1>6 DEF TakeLine
  <2>3. PICK j \in Items, p \in Patterns : OnTheWay(j, p)
    BY <1>6, <2>1 DEF TakeLine, Answered
  <2>4. i = j
    BY <1>1, <2>2, <2>3 DEF OnTheWay, WaitsAt
  <2>5. Head(input) = p /\ Tail(input) = <<>>
    BY <2>3 DEF OnTheWay
  <2>6. input' = <<>>
    BY <1>6, <2>5 DEF TakeLine
  <2>7. \A k \in Items : got'[k] = IF k = i THEN p ELSE got[k]
    BY <1>1, <2>2, <2>5
  <2> QED
    BY <2>1, <2>3, <2>4, <2>6, <2>7 DEF Answered, OnTheWay
<1>7. CASE Answers
  <2> DEFINE fresh == Matching(0, seen) \ first
  <2>1. CASE cancelled # "no" \/ Cardinality(first) >= AnswerLimit \/ fresh = {}
    BY <1>2, <1>7, <2>1 DEF Answers
  <2>2. CASE ~(cancelled # "no" \/ Cardinality(first) >= AnswerLimit \/ fresh = {}) /\ conn = "open"
    <3> DEFINE p == Earliest(fresh)
    <3>1. p \in fresh /\ fresh \subseteq Patterns /\ \E i \in Items : 2 * i <= seen /\ p \in text[i]
      BY <1>1, <2>2, Found
    <3>2. PICK i \in Items : 2 * i <= seen /\ p \in text[i]
      BY <3>1
    <3>3. first' = first \cup {p} /\ Send(p) /\ UNCHANGED <<script, printed, got, start>>
      BY <1>7, <2>2 DEF Answers
    <3>4. ASSUME Fits PROVE Answered'
      <4>1. transport = "netmiko" /\ Cardinality(text[i]) <= 1
        BY <1>7, <3>4 DEF Fits, Loops, Answers
      <4>2. text[i] = {p}
        <5>1. IsFiniteSet(Patterns)
          BY FS_Interval DEF Patterns
        <5>2. IsFiniteSet(text[i])
          BY <1>1, <5>1, FS_Subset
        <5>3. {p} \subseteq text[i] /\ Cardinality({p}) = 1 /\ IsFiniteSet({p})
          BY <3>2, FS_Singleton
        <5>4. Cardinality({p}) <= Cardinality(text[i])
          BY <5>2, <5>3, FS_Subset
        <5>5. Cardinality(text[i]) \in Nat
          BY <5>2, FS_CardinalityType
        <5>6. Cardinality(text[i]) = Cardinality({p})
          BY <4>1, <5>3, <5>4, <5>5
        <5> QED
          BY <5>2, <5>3, <5>6, FS_Subset
      <4>3. ~Behind(i) /\ Behind(i)'
        BY <3>1, <3>3, <4>1, <4>2 DEF Behind
      <4>4. p \in Patterns /\ 2 * i <= printed /\ first \subseteq first' /\ start' \in Nat /\ start <= start'
        BY <1>1, <3>1, <3>2, <3>3
      <4> HIDE DEF p
      <4> QED
        BY <1>4, <3>2, <3>3, <3>4, <4>3, <4>4
    <3> QED
      BY <3>3, <3>4 DEF Answered, Fits
  <2>3. CASE ~(cancelled # "no" \/ Cardinality(first) >= AnswerLimit \/ fresh = {}) /\ conn # "open"
    BY <1>2, <1>7, <2>3 DEF Answers
  <2> QED
    BY <2>1, <2>2, <2>3
<1>8. CASE Initial
  BY <1>8 DEF Initial, Answered, Fits, Loops
<1>9. CASE NetmikoRead \/ ScrapliRead \/ AsyncsshRead
  <2>1. /\ seen' = printed /\ AnswerOne /\ pc = "read"
        /\ UNCHANGED <<script, running, printed, got, conn, first, expired, cancelled>>
    BY <1>9 DEF NetmikoRead, ScrapliRead, AsyncsshRead, Poll
  <2>2. start' = printed
    BY <2>1, ReadTypes
  <2>3. start' \in Nat /\ start <= start' /\ first \subseteq first'
    BY <1>1, <2>1, <2>2
  <2>4. CASE UNCHANGED <<used, input, late>>
    BY <1>3, <2>1, <2>3, <2>4
  <2>5. ASSUME NEW i \in Items, NEW p \in Patterns, start <= 2 * i - 2, 2 * i <= printed,
               p \in text[i], Send(p)
        PROVE  Answered'
    <3>1. ASSUME Fits PROVE Answered'
      <4>1. transport # "netmiko"
        BY <2>1, <3>1 DEF Fits, Loops
      <4>2. ~Behind(i) /\ Behind(i)'
        BY <1>1, <2>1, <2>2, <2>5, <4>1 DEF Behind
      <4> QED
        BY <1>4, <2>1, <2>3, <2>5, <3>1, <4>2
    <3> QED
      BY <2>1, <3>1 DEF Answered, Fits
  <2> QED
    BY <2>1, <2>4, <2>5, ReadTypes
<1>10. CASE Connect \/ Command \/ Collect \/ Check \/ ReadFails \/ Close \/ Flag \/ Sweep \/ CancelTask
            \/ Drop \/ Expire \/ UNCHANGED vars
  BY <1>2, <1>10 DEF Connect, Command, Collect, Check, ReadFails, Close, Flag, Sweep, CancelTask, Drop,
     Expire, vars
<1> QED
  BY <1>5, <1>6, <1>7, <1>8, <1>9, <1>10 DEF Next, Transport

(* Where a prompt that waits behind the position stands. *)
LEMMA SearchedKept == ASSUME TimedInv, [Next]_vars PROVE Searched'
<1> USE DEF TimedInv, script, device, client
<1>1. /\ printed \in Nat /\ seen \in Nat /\ start \in Nat /\ seen <= printed /\ start <= seen
      /\ got \in [Items -> {0} \cup Patterns] /\ Items \subseteq Nat \ {0}
      /\ input \in Seq(Patterns) /\ text \in [Items -> SUBSET Patterns]
  BY DEF TypeOK, Items, Last
<1>2. ASSUME UNCHANGED <<script, printed, got, start, split, used>>, input # <<>> => input' # <<>>
      PROVE  Searched'
  BY <1>2 DEF Searched, WaitsAt
<1>3. \A p \in Patterns : Append(input, p) # <<>>
  BY <1>1
<1>4. CASE PrintOutput
  <2>1. UNCHANGED <<start, split>> /\ printed' = printed + 1
    BY <1>4 DEF PrintOutput
  <2>2. \A i \in Items : ~(printed' = 2 * i /\ 2 * i <= start)
    BY <1>1, <2>1
  <2> QED
    BY <2>1, <2>2 DEF Searched, WaitsAt
<1>5. CASE TakeLine
  <2>1. PICK i \in Items : WaitsAt(i) /\ got' = [got EXCEPT ![i] = Head(input)]
    BY <1>5 DEF TakeLine
  <2>2. Head(input) # 0
    BY <1>5 DEF TakeLine, TypeOK, Patterns
  <2>3. UNCHANGED <<script, printed, start, split>>
    BY <1>5 DEF TakeLine
  <2>4. \A j \in Items : got'[j] = IF j = i THEN Head(input) ELSE got[j]
    BY <1>1, <2>1
  <2>5. \A j \in Items : printed = 2 * j => j = i
    BY <1>1, <2>1 DEF WaitsAt
  <2>6. \A j \in Items : ~WaitsAt(j)'
    BY <2>2, <2>3, <2>4, <2>5 DEF WaitsAt
  <2> QED
    BY <2>3, <2>6 DEF Searched
<1>6. CASE Answers
  BY <1>1, <1>6 DEF Answers, Searched, Loops
<1>7. CASE Initial
  <2> DEFINE fresh == Matching(0, seen) \ used
  <2>1. start = 0
    BY <1>7 DEF Initial, Loops
  <2>2. CASE fresh = {}
    <3>1. start' = seen /\ split' = split \cup Cut(seen) /\ UNCHANGED <<script, printed, got, used>>
      BY <1>7, <2>2 DEF Initial
    <3>2. \A i \in Items : 2 * i <= seen => text[i] \subseteq used
      BY <1>1, <2>2 DEF Matching, Shown
    <3>3. \A i \in Items : seen = 2 * i - 1 => i \in Cut(seen)
      BY DEF Cut
    <3> QED
      BY <3>1, <3>2, <3>3 DEF Searched
  <2>3. CASE fresh # {}
    <3>1. start' = 0 /\ UNCHANGED <<script, printed, got, split>>
      BY <1>7, <2>1, <2>3 DEF Initial
    <3>2. \A i \in Items : ~(0 = 2 * i - 1) /\ ~(2 * i <= 0)
      BY <1>1
    <3> QED
      BY <3>1, <3>2 DEF Searched
  <2> QED
    BY <2>2, <2>3
<1>8. CASE NetmikoRead \/ ScrapliRead \/ AsyncsshRead
  <2>1. /\ seen' = printed /\ AnswerOne /\ pc = "read"
        /\ UNCHANGED <<script, running, printed, got, conn, first, expired, cancelled>>
    BY <1>8 DEF NetmikoRead, ScrapliRead, AsyncsshRead, Poll
  <2>2. start' = printed /\ split' = split \cup Cut(printed) /\ used \subseteq used'
    BY <2>1, ReadTypes
  <2>3. \A i \in Items : start' = 2 * i - 1 => i \in split'
    BY <2>2 DEF Cut
  <2>4. ASSUME NEW i \in Items, WaitsAt(i), i \notin split', ~(text[i] \subseteq used')
        PROVE  input' # <<>>
    <3>1. printed = 2 * i /\ i \notin split
      BY <2>2, <2>4 DEF WaitsAt
    <3>2. CASE 2 * i <= start
      <4>1. Matching(start, printed) = {}
        BY <1>1, <3>1, <3>2 DEF Matching, Shown
      <4>2. UNCHANGED <<used, input>>
        BY <2>1, <4>1 DEF AnswerOne
      <4> QED
        BY <2>4, <3>1, <3>2, <4>2 DEF Searched
    <3>3. CASE start = 2 * i - 1
      BY <3>1, <3>3 DEF Searched
    <3>4. CASE start <= 2 * i - 2
      <4>1. i \in Shown(start, printed)
        BY <1>1, <3>1, <3>4 DEF Shown
      <4>2. text[i] \subseteq Matching(start, printed)
        BY <4>1 DEF Matching
      <4>3. ~(Matching(start, printed) \subseteq used)
        BY <2>2, <2>4, <4>2
      <4>4. \E p \in Patterns : Send(p)
        BY <2>1, <4>3, ReadTypes
      <4> QED
        BY <1>3, <4>4 DEF Send
    <3> QED
      BY <1>1, <3>2, <3>3, <3>4
  <2> QED
    BY <2>1, <2>3, <2>4 DEF Searched, WaitsAt
<1>9. CASE Connect \/ Command \/ Collect \/ Check \/ ReadFails \/ Close \/ Flag \/ Sweep \/ CancelTask
           \/ Drop \/ Expire \/ UNCHANGED vars
  BY <1>2, <1>9 DEF Connect, Command, Collect, Check, ReadFails, Close, Flag, Sweep, CancelTask, Drop,
     Expire, vars
<1> QED
  BY <1>4, <1>5, <1>6, <1>7, <1>8, <1>9 DEF Next, Transport

(* An answer that goes out late is followed by a look at the cancellation. *)
LEMMA LateOnceKept == ASSUME TimedInv, [Next]_vars PROVE LateOnce'
<1> USE DEF TimedInv, LateOnce, script, device, client
<1>1. CASE PrintOutput \/ TakeLine \/ Connect \/ Command \/ Collect \/ Flag \/ Sweep \/ Drop \/ Expire
           \/ UNCHANGED vars
  BY <1>1 DEF PrintOutput, TakeLine, Connect, Command, Collect, Flag, Sweep, Drop, Expire, vars
<1>2. CASE Answers
  <2>1. late' = late /\ cancelled' = cancelled /\ UNCHANGED <<transport, waits>> /\ pc = "answers"
    BY <1>2 DEF Answers, Send
  <2> QED
    BY <2>1
<1>3. CASE Initial
  BY <1>3 DEF Initial, Loops
<1>4. CASE Check \/ ReadFails \/ Close \/ CancelTask
  BY <1>4 DEF Check, ReadFails, Close, CancelTask, Conclude, Goto, Finish
<1>5. CASE NetmikoRead \/ ScrapliRead \/ AsyncsshRead
  <2>1. /\ pc = "read" /\ UNCHANGED <<transport, waits, cancelled>> /\ pc' \in {"check", "close"}
        /\ seen' = printed /\ AnswerOne
    BY <1>5 DEF NetmikoRead, ScrapliRead, AsyncsshRead, Poll, Goto, Conclude, Finish
  <2>2. late' = late \/ late' = IF cancelled = "no" THEN late ELSE late + 1
    BY <2>1 DEF AnswerOne, Send
  <2> QED
    BY <2>1, <2>2 DEF Loops
<1> QED
  BY <1>1, <1>2, <1>3, <1>4, <1>5 DEF Next, Transport

-----------------------------------------------------------------------------
(* The results. *)

LEMMA TimedStep == ASSUME TimedInv, [Next]_vars PROVE TimedInv'
BY TimedTypes, AskingKept, LoopsKept, AnsweredKept, SearchedKept, LateOnceKept DEF TimedInv

(* The inductive invariant: where the device waits, how far a transport has   *)
(* searched, whose answer is on its way, and what was sent too late.          *)
THEOREM TimedInvariant == Spec => []TimedInv
<1>1. Init => TimedInv
  BY TimedInit
<1>2. TimedInv /\ [Next]_vars => TimedInv'
  BY TimedStep
<1> QED
  BY <1>1, <1>2, PTL DEF Spec

(* Type correctness; what was searched is never more than what was read.      *)
THEOREM TypeCorrect == Spec => []TypeOK
<1>1. TimedInv => TypeOK
  BY DEF TimedInv
<1> QED
  BY <1>1, TimedInvariant, PTL

(* However the output of execute_command_timing is cut into chunks, no prompt *)
(* reads an answer that is meant for another, in the cases the property names.*)
THEOREM RightAnswers == Spec => []AnswersFit
<1>1. TimedInv => AnswersFit
  BY DEF TimedInv, Answered, Fits, AnswersFit
<1> QED
  BY <1>1, TimedInvariant, PTL

(* A loop that waits for output has answered what it has read: a prompt that  *)
(* still waits was cut by a chunk, or its patterns are used up.               *)
THEOREM NoPromptLeft == Spec => []ReadPromptAnswered
<1>1. TimedInv => ReadPromptAnswered
  <2> SUFFICES ASSUME TimedInv, pc \in {"check", "read"}, input = <<>>,
                      NEW i \in Items, WaitsAt(i), seen = printed
               PROVE  i \in split \/ text[i] \subseteq used
    BY DEF ReadPromptAnswered
  <2>1. start = printed /\ printed = 2 * i /\ printed \in Nat
    BY DEF TimedInv, TypeOK, Last, Loops, WaitsAt
  <2>2. 2 * i <= start
    BY <2>1
  <2> QED
    BY <2>2 DEF TimedInv, Searched
<1> QED
  BY <1>1, TimedInvariant, PTL

(* The loops look at the cancellation between a read and the next, so that no *)
(* more than one answer follows it.                                           *)
THEOREM AtMostOneLate == Spec => []OneLateAnswer
<1>1. TimedInv => OneLateAnswer
  BY DEF TimedInv, LateOnce, OneLateAnswer
<1> QED
  BY <1>1, TimedInvariant, PTL

=============================================================================
