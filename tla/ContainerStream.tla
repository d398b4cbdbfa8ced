-------------------------- MODULE ContainerStream --------------------------
(***************************************************************************)
(* The output of one attached container in RunContainerHandler.execute:    *)
(* _stream_and_capture with its two reader tasks and its flusher task, the *)
(* caller's nested deadlines, and the cancellation of the step.  The       *)
(* readers gather lines into event buffers that either a full buffer or    *)
(* the flusher's tick empties into progress events, and capture the output *)
(* itself up to a budget.                                                  *)
(*                                                                         *)
(* A step of this module is what a task does between two awaits; the lock  *)
(* around the buffers is never held over one.  Lines are numbered, and an  *)
(* output is where its lines end, counted in units.                        *)
(***************************************************************************)
EXTENDS Integers, Sequences, Functions

CONSTANTS
  Sources,    \* the outputs a stream may have: where each line ends
  Huge,       \* the size of a line over the StreamReader's limit
  Budget,     \* units captured of a stream: stream_budget
  Threshold   \* units of buffered text that make a reader flush: 1024 bytes

ASSUME StreamConstants ==
  /\ Sources \subseteq Seq(Nat)
  /\ \A ends \in Sources : \A i, j \in DOMAIN ends : i < j => ends[i] <= ends[j]
  /\ Huge \in Nat
  /\ Budget \in Nat \ {0}
  /\ Threshold \in Nat \ {0}

Streams == {"stdout", "stderr"}

VARIABLES
  source,   \* what the container writes to each stream
  reader,   \* state of each reader task
  read,     \* lines each reader has read
  buf,      \* event buffers: numbers of the lines in them
  size,     \* stdout_event_size, stderr_event_size: units in them
  kept,     \* units captured of each stream
  trunc,    \* stdout_trunc, stderr_trunc
  flusher,  \* state of the flusher task
  taken,    \* ebuf: lines of stderr the flusher holds while it emits stdout's
  emitted,  \* lines of each stream in the order of their emit_progress calls
  main,     \* state of the coroutine of the step
  ended     \* the docker client has exited

streamVars == <<source, reader, read, buf, size, kept, trunc, flusher, taken, emitted, main, ended>>

ReaderStates == {"reading", "emitting", "done", "cancelled"}
FlusherStates ==
  {"sleeping", "stdout", "stderr", "finalStdout", "finalStderr", "done", "cancelled"}
MainStates == {"gather", "drain", "wait", "killed", "returned", "timedOut", "cancelled"}
MainEnds == {"returned", "timedOut", "cancelled"}

\* Units of the first lines of a stream.
UpTo(s, lines) == IF lines = 0 THEN 0 ELSE source[s][lines]
Units(s) == UpTo(s, read[s])
SizeOf(s, line) == UpTo(s, line) - UpTo(s, line - 1)

-----------------------------------------------------------------------------
(* The readers. *)

HasLine(s) == read[s] < Len(source[s])
NextSize(s) == SizeOf(s, read[s] + 1)

\* Slip: a line that fills the room exactly counts as cut.
CaptureFull(s, units) ==
  LET room == Budget - kept[s] IN
  /\ kept' = [kept EXCEPT ![s] = IF units > room THEN Budget ELSE kept[s] + units]
  /\ trunc' = [trunc EXCEPT ![s] = trunc[s] \/ (room > 0 /\ units >= room)]

\* Captures a line of this size, what of it is over the budget excepted.
Capture(s, units) ==
  LET room == Budget - kept[s] IN
  /\ kept' = [kept EXCEPT ![s] = IF units > room THEN Budget ELSE kept[s] + units]
  /\ trunc' = [trunc EXCEPT ![s] = trunc[s] \/ (room > 0 /\ units > room)]

\* Slip: a full buffer waits for one more line.
PastFull(units) == units > Threshold

Full(units) == units >= Threshold

\* The line is captured only when its flush has come back.
ReadLine(s) ==
  /\ reader[s] = "reading"
  /\ HasLine(s)
  /\ NextSize(s) # Huge
  /\ read' = [read EXCEPT ![s] = read[s] + 1]
  /\ LET lines == Append(buf[s], read[s] + 1)
         full == Full(size[s] + NextSize(s)) IN
     \/ /\ full
        /\ buf' = [buf EXCEPT ![s] = <<>>]
        /\ size' = [size EXCEPT ![s] = 0]
        /\ emitted' = [emitted EXCEPT ![s] = emitted[s] \o lines]
        /\ reader' = [reader EXCEPT ![s] = "emitting"]
        /\ UNCHANGED <<kept, trunc>>
     \/ /\ ~full
        /\ buf' = [buf EXCEPT ![s] = lines]
        /\ size' = [size EXCEPT ![s] = size[s] + NextSize(s)]
        /\ Capture(s, NextSize(s))
        /\ UNCHANGED <<reader, emitted>>
  /\ UNCHANGED <<source, flusher, taken, main, ended>>

\* emit_progress has come back, or raised: _flush_event_buffer tells no difference.
ReaderFlushed(s) ==
  /\ reader[s] = "emitting"
  /\ Capture(s, SizeOf(s, read[s]))
  /\ reader' = [reader EXCEPT ![s] = "reading"]
  /\ UNCHANGED <<source, read, buf, size, flusher, taken, emitted, main, ended>>

\* The end of the stream, or a line readline() raises for: the rest of the
\* stream is left in the pipe.
ReaderEnds(s) ==
  /\ reader[s] = "reading"
  /\ HasLine(s) => NextSize(s) = Huge
  /\ reader' = [reader EXCEPT ![s] = "done"]
  /\ UNCHANGED <<source, read, buf, size, kept, trunc, flusher, taken, emitted, main, ended>>

-----------------------------------------------------------------------------
(* The flusher. *)

BothDone == \A s \in Streams : reader[s] = "done"

Emit(s, lines) == emitted' = [emitted EXCEPT ![s] = emitted[s] \o lines]

\* Slip: the flusher copies the buffers and does not clear them.
CopyBuffers(toStdout, toStderr, otherwise) ==
  /\ Emit("stdout", buf["stdout"])
  /\ taken' = buf["stderr"]
  /\ flusher' = toStdout
  /\ UNCHANGED <<buf, size>>

\* Both buffers are emptied at once; stderr's lines wait for stdout's event.
TakeBuffers(toStdout, toStderr, otherwise) ==
  /\ buf' = [s \in Streams |-> <<>>]
  /\ size' = [s \in Streams |-> 0]
  /\ \/ /\ buf["stdout"] # <<>>
        /\ Emit("stdout", buf["stdout"])
        /\ taken' = buf["stderr"]
        /\ flusher' = toStdout
     \/ /\ buf["stdout"] = <<>> /\ buf["stderr"] # <<>>
        /\ Emit("stderr", buf["stderr"])
        /\ taken' = <<>>
        /\ flusher' = toStderr
     \/ /\ buf["stdout"] = <<>> /\ buf["stderr"] = <<>>
        /\ flusher' = otherwise
        /\ UNCHANGED <<taken, emitted>>

\* After a round: the loop goes on until both readers are done, and a last
\* flush follows without a wait in between.
LastFlush == TakeBuffers("finalStdout", "finalStderr", "done")

Round ==
  \/ /\ ~BothDone
     /\ flusher' = "sleeping"
     /\ UNCHANGED <<buf, size, taken, emitted>>
  \/ BothDone /\ LastFlush

\* A tick that finds nothing and the readers done ends the flusher.
Tick ==
  /\ flusher = "sleeping"
  /\ TakeBuffers("stdout", "stderr", IF BothDone THEN "done" ELSE "sleeping")
  /\ UNCHANGED <<source, reader, read, kept, trunc, main, ended>>

StdoutFlushed ==
  /\ flusher \in {"stdout", "finalStdout"}
  /\ \/ /\ taken # <<>>
        /\ Emit("stderr", taken)
        /\ taken' = <<>>
        /\ flusher' = IF flusher = "stdout" THEN "stderr" ELSE "finalStderr"
        /\ UNCHANGED <<buf, size>>
     \/ /\ taken = <<>> /\ flusher = "stdout"
        /\ Round
     \/ /\ taken = <<>> /\ flusher = "finalStdout"
        /\ flusher' = "done"
        /\ UNCHANGED <<buf, size, taken, emitted>>
  /\ UNCHANGED <<source, reader, read, kept, trunc, main, ended>>

StderrFlushed ==
  /\ \/ flusher = "stderr" /\ Round
     \/ flusher = "finalStderr" /\ flusher' = "done" /\ UNCHANGED <<buf, size, taken, emitted>>
  /\ UNCHANGED <<source, reader, read, kept, trunc, main, ended>>

-----------------------------------------------------------------------------
(* The coroutine of the step. *)

CancelReaders ==
  reader' = [s \in Streams |-> IF reader[s] = "done" THEN "done" ELSE "cancelled"]

CancelFlusher == flusher' = IF flusher = "done" THEN "done" ELSE "cancelled"

ReadersGathered ==
  /\ main = "gather"
  /\ BothDone
  /\ main' = "drain"
  /\ UNCHANGED <<source, reader, read, buf, size, kept, trunc, flusher, taken, emitted, ended>>

\* The deadline of the gather strikes: its handler stops every task.  The caller
\* kills the client, after this deadline and its own.
InnerDeadline ==
  /\ main = "gather"
  /\ CancelReaders
  /\ CancelFlusher
  /\ main' = "killed"
  /\ UNCHANGED <<source, read, buf, size, kept, trunc, taken, emitted, ended>>

\* The caller's deadline, armed just before, strikes first: a cancellation to
\* _stream_and_capture, like that of the step.  The gather passes it on to the
\* readers, and nobody to the flusher.
CutGather(result) ==
  /\ main = "gather"
  /\ CancelReaders
  /\ main' = result
  /\ UNCHANGED <<source, read, buf, size, kept, trunc, flusher, taken, emitted, ended>>

OuterDeadline == CutGather("killed")

\* Slip: the flusher that did not finish in time is forgotten.
DrainGivenUp ==
  /\ main = "drain"
  /\ main' = "wait"
  /\ UNCHANGED <<source, reader, read, buf, size, kept, trunc, flusher, taken, emitted, ended>>

\* The five seconds of the final flush are over, or the caller's deadline or a
\* cancellation strikes in them: the flusher returns when it is cancelled, and
\* the coroutine goes on as if it had flushed.
DrainCut ==
  /\ main = "drain"
  /\ flusher # "done"
  /\ CancelFlusher
  /\ main' = "wait"
  /\ UNCHANGED <<source, reader, read, buf, size, kept, trunc, taken, emitted, ended>>

Drained ==
  /\ main = "drain"
  /\ flusher = "done"
  /\ main' = "wait"
  /\ UNCHANGED <<source, reader, read, buf, size, kept, trunc, flusher, taken, emitted, ended>>

\* The client exits once its output is read, or the rest of it fits the pipe.
ClientExits ==
  /\ ~ended
  /\ \A s \in Streams : reader[s] = "reading" => ~HasLine(s)
  /\ ended' = TRUE
  /\ UNCHANGED <<source, reader, read, buf, size, kept, trunc, flusher, taken, emitted, main>>

\* Slip: no deadline on the client's exit.
WaitedToTheEnd ==
  /\ main = "wait"
  /\ ended
  /\ main' = "returned"
  /\ UNCHANGED <<source, reader, read, buf, size, kept, trunc, flusher, taken, emitted, ended>>

Waited ==
  /\ main = "wait"
  /\ \/ ended /\ main' = "returned"
     \/ main' = "killed"
  /\ UNCHANGED <<source, reader, read, buf, size, kept, trunc, flusher, taken, emitted, ended>>

\* The wait for a client that was killed has no deadline.
Reaped ==
  /\ main = "killed"
  /\ ended
  /\ main' = "timedOut"
  /\ UNCHANGED <<source, reader, read, buf, size, kept, trunc, flusher, taken, emitted, ended>>

\* The host cancels the step.  From Python 3.12 on a cancellation during the
\* final flush is swallowed (DrainCut); before, it ends the coroutine.
CancelStep ==
  \/ CutGather("cancelled")
  \/ /\ main \in {"drain", "wait"}
     /\ CancelFlusher
     /\ main' = "cancelled"
     /\ UNCHANGED <<source, reader, read, buf, size, kept, trunc, taken, emitted, ended>>
  \/ /\ main = "killed"
     /\ main' = "cancelled"
     /\ UNCHANGED <<source, reader, read, buf, size, kept, trunc, flusher, taken, emitted, ended>>

Readers == \E s \in Streams : ReadLine(s) \/ ReaderFlushed(s) \/ ReaderEnds(s)
Flusher == Tick \/ StdoutFlushed \/ StderrFlushed
Main == ReadersGathered \/ InnerDeadline \/ OuterDeadline \/ DrainCut \/ Drained \/ Waited \/ Reaped

StreamInit ==
  /\ source \in [Streams -> Sources]
  /\ reader = [s \in Streams |-> "reading"]
  /\ read = [s \in Streams |-> 0]
  /\ buf = [s \in Streams |-> <<>>]
  /\ size = [s \in Streams |-> 0]
  /\ kept = [s \in Streams |-> 0]
  /\ trunc = [s \in Streams |-> FALSE]
  /\ flusher = "sleeping"
  /\ taken = <<>>
  /\ emitted = [s \in Streams |-> <<>>]
  /\ main = "gather"
  /\ ended = FALSE

StreamNext == Readers \/ Flusher \/ Main \/ ClientExits \/ CancelStep

\* Timers fire, the event loop runs what they make ready, and the host's
\* emit_progress returns to the flusher.  Of the docker client it is assumed
\* that it exits when it is killed, of the container nothing.
StreamSpec ==
  /\ StreamInit /\ [][StreamNext]_streamVars
  /\ WF_streamVars(Main) /\ WF_streamVars(Flusher)
  /\ WF_streamVars(main = "killed" /\ ClientExits)

-----------------------------------------------------------------------------
(* Properties. *)

\* Type invariant.
StreamTypeOK ==
  /\ source \in [Streams -> Sources]
  /\ reader \in [Streams -> ReaderStates]
  /\ read \in [Streams -> Nat] /\ \A s \in Streams : read[s] <= Len(source[s])
  /\ buf \in [Streams -> Seq(Nat)] /\ size \in [Streams -> 0 .. Threshold - 1]
  /\ kept \in [Streams -> 0 .. Budget]
  /\ trunc \in [Streams -> BOOLEAN]
  /\ flusher \in FlusherStates
  /\ taken \in Seq(Nat)
  /\ emitted \in [Streams -> Seq(Nat)]
  /\ main \in MainStates
  /\ ended \in BOOLEAN

Ascending(lines) == \A i, j \in DOMAIN lines : i < j => lines[i] < lines[j]

Held(s) == IF s = "stderr" THEN taken ELSE <<>>
Seen(s) == emitted[s] \o Held(s) \o buf[s]

\* Every line that was read is in one place: sent once, held by the flusher, or
\* in its buffer; and those of stdout are sent in their order, though a reader
\* and the flusher both send them and wait in the middle of it.
LinesSentAsRead ==
  /\ \A s \in Streams : Len(Seen(s)) = read[s] /\ Range(Seen(s)) = 1 .. read[s]
  /\ Ascending(emitted["stdout"] \o buf["stdout"])

\* What the step goes on with is what the readers read, up to the budget, and
\* it is marked as truncated only when something is missing.
CapturedAsRead ==
  main \in {"wait", "returned"} =>
    \A s \in Streams :
      /\ kept[s] = IF Units(s) > Budget THEN Budget ELSE Units(s)
      /\ trunc[s] => Units(s) > Budget

\* A step that returns its output leaves no task of the stream running, and a
\* flusher that comes to its end no line unsent.
ReturnLeavesNothing ==
  /\ main = "returned" => BothDone /\ flusher \in {"done", "cancelled"}
  /\ flusher = "done" => \A s \in Streams : buf[s] = <<>> /\ Held(s) = <<>>

\* The stream ends, by the deadline and the kill if by nothing else.
StreamEnds == <>(main \in MainEnds)

=============================================================================
