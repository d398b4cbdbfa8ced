---------------------------- MODULE TimingDialogue ----------------------------
(***************************************************************************)
(* execute_command_timing of the three transports: a command is started on *)
(* a device that prints, asks and waits for an answer line; the transport  *)
(* reads what has arrived, answers the prompts it knows and stops at the   *)
(* text it waits for, after a quiet time or at its deadline.  The host may *)
(* cancel the step at any moment.                                          *)
(*                                                                         *)
(* The device's output is a row of items, each printed in two halves, and  *)
(* one last piece of text when the command is through.  Every text is then *)
(* a number: how many pieces have been printed, read, or searched.         *)
(***************************************************************************)
EXTENDS Naturals, Sequences, FiniteSets

CONSTANTS
  NItems,       \* items the command prints before it is through
  NPatterns,    \* prompt patterns with an answer, in the order of the dict
  AnswerLimit,  \* max_prompt_iterations
  QuietReads    \* _QUIET_READS_DONE

ASSUME ConstantsAssumption ==
  /\ NItems \in Nat /\ NPatterns \in Nat
  /\ AnswerLimit \in Nat /\ QuietReads \in Nat \ {0}

VARIABLES
  transport,  \* which of the three
  waits,      \* wait_for_patterns is given: the last piece of text
  text,       \* the patterns each item contains
  asks,       \* the items after which the device waits for a line
  \* device
  running,    \* the command has reached it
  printed,    \* pieces printed so far
  input,      \* lines it has been sent and has not read
  got,        \* the pattern whose answer each item was given, 0 for none
  \* transport
  pc,
  conn,       \* the SSH connection
  seen,       \* combined_output
  start,      \* prompt_check_start_pos
  first,      \* answered_prompts of netmiko's first loop
  used,       \* answered_prompt_patterns, answered_prompts of the others
  quiet,      \* quiet_reads
  expired,    \* read_timeout has passed
  result,
  \* host
  cancelled,  \* the registry: not cancelled, flagged, connections closed
  \* observers
  split,      \* items whose halves were read apart
  late        \* answers sent after the cancellation

script == <<transport, waits, text, asks>>
device == <<running, printed, input, got>>
client == <<pc, conn, seen, start, first, used, quiet, result>>
vars == <<transport, waits, text, asks, running, printed, input, got, pc, conn, seen, start,
          first, used, quiet, expired, result, cancelled, split, late>>

Transports == {"netmiko", "scrapli", "asyncssh"}
Items == 1 .. NItems
Patterns == 1 .. NPatterns
Last == 2 * NItems + 1

\* The items wholly within the text from piece a to piece b, and what they match.
Shown(a, b) == {i \in Items : a <= 2 * i - 2 /\ 2 * i <= b}
Matching(a, b) == UNION {text[i] : i \in Shown(a, b)}
Cut(b) == {i \in Items : b = 2 * i - 1}

-----------------------------------------------------------------------------
(* The device. *)

WaitsAt(i) == asks[i] /\ printed = 2 * i /\ got[i] = 0
Waiting == \E i \in Items : WaitsAt(i)

PrintOutput ==
  /\ running /\ printed < Last /\ ~Waiting
  /\ printed' = printed + 1
  /\ UNCHANGED <<script, running, input, got, client, expired, cancelled, split, late>>

TakeLine ==
  /\ running /\ input # <<>>
  /\ \E i \in Items : WaitsAt(i) /\ got' = [got EXCEPT ![i] = Head(input)]
  /\ input' = Tail(input)
  /\ UNCHANGED <<script, running, printed, client, expired, cancelled, split, late>>

-----------------------------------------------------------------------------
(* The transport. *)

Goto(next) == pc' = next /\ result' = result
Finish(outcome) == pc' = "close" /\ result' = outcome

\* The command's output decides between success and failure at the end: an
\* error text, or the exit status of the process.
Conclude == \E outcome \in {"ok", "error"} : Finish(outcome)

Send(p) ==
  /\ input' = Append(input, p)
  /\ late' = IF cancelled = "no" THEN late ELSE late + 1
\* One pattern out of those that match, the first in the order of the dict.
Earliest(ps) == CHOOSE p \in ps : \A q \in ps : p <= q

\* The open connection is registered for cancellation at once.
Connect ==
  /\ pc = "connect"
  /\ \/ conn' = "open" /\ Goto("command")
     \/ conn' = conn /\ Finish("failed")
  /\ UNCHANGED <<script, device, seen, start, first, used, quiet, expired, cancelled, split, late>>

\* Whether the step has been cancelled is not asked before the command goes out.
Command ==
  /\ pc = "command"
  /\ IF conn = "open"
     THEN /\ running' = TRUE
          /\ Goto(IF transport = "netmiko" THEN "collect" ELSE "check")
     ELSE Finish("failed") /\ running' = running
  /\ UNCHANGED <<script, printed, input, got, conn, seen, start, first, used, quiet, expired,
                 cancelled, split, late>>

\* netmiko: what send_command_timing has read when the device falls quiet; it
\* may also give up or lose the connection.
Collect ==
  /\ pc = "collect"
  /\ \/ conn = "open" /\ seen' = printed /\ Goto("answers")
     \/ seen' = seen /\ Finish("failed")
  /\ UNCHANGED <<script, device, conn, start, first, used, quiet, expired, cancelled, split, late>>

AfterAnswers == IF waits THEN Goto("initial") ELSE Conclude

\* netmiko's first loop searches all the output again for the patterns it has
\* not answered.  A cancellation ends this loop and no more.
Answers ==
  /\ pc = "answers"
  /\ LET fresh == Matching(0, seen) \ first IN
     IF cancelled # "no" \/ Cardinality(first) >= AnswerLimit \/ fresh = {}
     THEN AfterAnswers /\ UNCHANGED <<first, input, late>>
     ELSE IF conn = "open"
     THEN /\ first' = first \cup {Earliest(fresh)}
          /\ Send(Earliest(fresh))
          /\ Goto("collect")
     ELSE Finish("failed") /\ UNCHANGED <<first, input, late>>
  /\ UNCHANGED <<script, running, printed, got, conn, seen, start, used, quiet, expired,
                 cancelled, split>>

\* netmiko, before it waits for a pattern: the prompts of the output so far
\* are answered, whether the first loop has done so or not.
Initial ==
  /\ pc = "initial"
  /\ LET fresh == Matching(0, seen) \ used IN
     IF fresh = {}
     THEN start' = seen /\ split' = split \cup Cut(seen) /\ Goto("check") /\ UNCHANGED <<used, input, late>>
     ELSE IF conn = "open"
     THEN /\ used' = used \cup {Earliest(fresh)}
          /\ Send(Earliest(fresh))
          /\ Goto("initial")
          /\ UNCHANGED <<start, split>>
     ELSE Finish("failed") /\ UNCHANGED <<start, split, used, input, late>>
  /\ UNCHANGED <<script, running, printed, got, conn, seen, first, quiet, expired, cancelled>>

\* Slip: a cancelled step is not noticed.
CheckUncancelled ==
  /\ pc = "check"
  /\ IF expired \/ (transport = "netmiko" /\ seen = Last) THEN Conclude ELSE Goto("read")
  /\ UNCHANGED <<script, device, conn, seen, start, first, used, quiet, expired, cancelled, split, late>>

\* Slip: no deadline.
CheckForever ==
  /\ pc = "check"
  /\ IF cancelled # "no" \/ (transport = "netmiko" /\ seen = Last) THEN Conclude ELSE Goto("read")
  /\ UNCHANGED <<script, device, conn, seen, start, first, used, quiet, expired, cancelled, split, late>>

\* The head of the loop; only netmiko looks for the text here.
Check ==
  /\ pc = "check"
  /\ IF expired \/ cancelled # "no" \/ (transport = "netmiko" /\ seen = Last)
     THEN Conclude
     ELSE Goto("read")
  /\ UNCHANGED <<script, device, conn, seen, start, first, used, quiet, expired, cancelled, split, late>>

\* Slip: the position moves one piece too far.
AnswerOnePast ==
  LET fresh == Matching(start, seen') \ used IN
  /\ start' = seen' + 1
  /\ split' = split \cup Cut(seen')
  /\ IF fresh = {}
     THEN UNCHANGED <<used, input, late>>
     ELSE used' = used \cup {Earliest(fresh)} /\ Send(Earliest(fresh))

\* Slip: all the output is searched each time.
AnswerOneOfAll ==
  LET fresh == Matching(0, seen') \ used IN
  /\ start' = seen'
  /\ split' = split \cup Cut(seen')
  /\ IF fresh = {}
     THEN UNCHANGED <<used, input, late>>
     ELSE used' = used \cup {Earliest(fresh)} /\ Send(Earliest(fresh))

\* Slip: the position moves before the search.
AnswerOneBehind ==
  /\ start' = seen'
  /\ split' = split \cup Cut(seen')
  /\ UNCHANGED <<used, input, late>>

\* At most one of the new output's prompts is answered, and the search goes on
\* behind all of it.
AnswerOne ==
  LET fresh == Matching(start, seen') \ used IN
  /\ start' = seen'
  /\ split' = split \cup Cut(seen')
  /\ IF fresh = {}
     THEN UNCHANGED <<used, input, late>>
     ELSE used' = used \cup {Earliest(fresh)} /\ Send(Earliest(fresh))

\* A read that fails ends the loop and not the call: the device may be reloading.
ReadFails ==
  /\ pc = "read"
  /\ conn = "closed"
  /\ Conclude
  /\ UNCHANGED <<script, device, conn, seen, start, first, used, quiet, expired, cancelled, split, late>>

NetmikoRead ==
  /\ transport = "netmiko" /\ pc = "read" /\ conn = "open"
  /\ seen' = printed
  /\ AnswerOne
  /\ Goto("check")
  /\ UNCHANGED <<script, running, printed, got, conn, first, quiet, expired, cancelled>>

\* A bounded read that brings what has arrived, nothing if nothing has.
Poll ==
  /\ seen' = printed
  /\ quiet' = IF printed > seen THEN 0 ELSE IF quiet < QuietReads THEN quiet + 1 ELSE quiet
  /\ AnswerOne
Settled == IF waits THEN seen' = Last ELSE quiet' >= QuietReads

ScrapliRead ==
  /\ transport = "scrapli" /\ pc = "read" /\ conn = "open"
  /\ Poll
  /\ IF Settled THEN Conclude ELSE Goto("check")
  /\ UNCHANGED <<script, running, printed, got, conn, first, expired, cancelled>>

\* The process has exited once all is printed.
AsyncsshRead ==
  /\ transport = "asyncssh" /\ pc = "read" /\ conn = "open"
  /\ Poll
  /\ IF Settled \/ (printed = Last /\ printed = seen) THEN Conclude ELSE Goto("check")
  /\ UNCHANGED <<script, running, printed, got, conn, first, expired, cancelled>>

Close ==
  /\ pc = "close"
  /\ conn' = "closed"
  /\ Goto("ended")
  /\ UNCHANGED <<script, device, seen, start, first, used, quiet, expired, cancelled, split, late>>

Transport ==
  \/ Connect \/ Command \/ Collect \/ Answers \/ Initial \/ Check \/ ReadFails
  \/ NetmikoRead \/ ScrapliRead \/ AsyncsshRead \/ Close

-----------------------------------------------------------------------------
(* The host, the network and the clock. *)

Flag ==
  /\ cancelled = "no" /\ pc # "ended"
  /\ cancelled' = "flagged"
  /\ UNCHANGED <<script, device, client, expired, split, late>>

\* It closes the connection that is registered, if there is one.
Sweep ==
  /\ cancelled = "flagged"
  /\ cancelled' = "swept"
  /\ conn' = IF conn = "open" THEN "closed" ELSE conn
  /\ UNCHANGED <<script, device, pc, seen, start, first, used, quiet, expired, result, split, late>>

\* The coroutine is cancelled where it awaits; netmiko's thread does not notice.
CancelTask ==
  /\ cancelled # "no"
  /\ transport # "netmiko"
  /\ pc \in {"connect", "read"} \/ (transport = "asyncssh" /\ pc = "command")
  /\ Finish("cancelled")
  /\ UNCHANGED <<script, device, conn, seen, start, first, used, quiet, expired, cancelled, split, late>>

Drop ==
  /\ conn = "open" /\ pc # "close"
  /\ conn' = "closed"
  /\ UNCHANGED <<script, device, pc, seen, start, first, used, quiet, expired, result, cancelled,
                 split, late>>

Expire ==
  /\ ~expired /\ pc \in {"check", "read"}
  /\ expired' = TRUE
  /\ UNCHANGED <<script, device, client, cancelled, split, late>>

Init ==
  /\ transport \in Transports /\ waits \in BOOLEAN
  /\ text \in [Items -> SUBSET Patterns] /\ asks \in [Items -> BOOLEAN]
  /\ running = FALSE /\ printed = 0 /\ input = <<>> /\ got = [i \in Items |-> 0]
  /\ pc = "connect" /\ conn = "none" /\ result = "none"
  /\ seen = 0 /\ start = 0 /\ first = {} /\ used = {} /\ quiet = 0
  /\ expired = FALSE /\ cancelled = "no" /\ split = {} /\ late = 0

Next == Transport \/ PrintOutput \/ TakeLine \/ Flag \/ Sweep \/ CancelTask \/ Drop \/ Expire

\* Every read is bounded and the clock runs.  The device owes nothing.
Spec == Init /\ [][Next]_vars /\ WF_vars(Transport) /\ WF_vars(Expire)

-----------------------------------------------------------------------------
(* Properties. *)

\* Type invariant.
TypeOK ==
  /\ transport \in Transports /\ waits \in BOOLEAN
  /\ text \in [Items -> SUBSET Patterns] /\ asks \in [Items -> BOOLEAN]
  /\ running \in BOOLEAN /\ printed \in 0 .. Last
  /\ input \in Seq(Patterns) /\ got \in [Items -> {0} \cup Patterns]
  /\ pc \in {"connect", "command", "collect", "answers", "initial", "check", "read", "close", "ended"}
  /\ conn \in {"none", "open", "closed"}
  /\ seen \in 0 .. printed /\ start \in 0 .. seen
  /\ first \subseteq Patterns /\ used \subseteq Patterns
  /\ quiet \in 0 .. QuietReads /\ expired \in BOOLEAN
  /\ result \in {"none", "ok", "error", "failed", "cancelled"}
  /\ cancelled \in {"no", "flagged", "swept"}
  /\ split \subseteq Items /\ late \in Nat

\* With scrapli and asyncssh no prompt is given an answer that is meant for
\* another, however the output is cut into chunks, unless some text that is
\* no prompt contains a pattern.  Of netmiko this is true only when it waits
\* for no text and no prompt contains two patterns.
AnswersFit ==
  ( /\ \A i \in Items : asks[i] \/ text[i] = {}
    /\ transport = "netmiko" => ~waits /\ \A i \in Items : Cardinality(text[i]) <= 1 ) =>
  \A i \in Items : got[i] # 0 => got[i] \in text[i]

\* While a transport waits for output, a prompt whose text it has read has
\* been answered, unless the chunk ended within the prompt or its patterns
\* have been used up by earlier prompts.
ReadPromptAnswered ==
  (pc \in {"check", "read"} /\ conn = "open" /\ input = <<>>) =>
    \A i \in Items : (WaitsAt(i) /\ seen = printed) => i \in split \/ text[i] \subseteq used

\* After the cancellation of the step no more than one answer is sent, but by
\* netmiko when it is about to wait for a text.
OneLateAnswer == (transport # "netmiko" \/ ~waits) => late <= 1

\* The call ends, whatever the device does, and its connection is closed.
DialogueEnds == <>[](pc = "ended" /\ conn = "closed")

=============================================================================
