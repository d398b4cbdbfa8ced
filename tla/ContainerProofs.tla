-------------------------- MODULE ContainerProofs ---------------------------
(***************************************************************************)
(* container.run: what the readers and the flusher of an attached          *)
(* container do with its output (ContainerStream), for any output, budget  *)
(* and buffer; then ContainerRun for any number of attempts, cancellations *)
(* and faults: which containers can work at once, and what an attempt      *)
(* leaves behind.                                                          *)
(***************************************************************************)
EXTENDS ContainerRun, ContainerStream, FiniteSetTheorems, SequenceTheorems, TLAPS

Lines(seq) == Range(seq)
Count(seq) == Len(seq)

(* Each line that was read is in one of three places. *)
Counted ==
  \A s \in Streams : Count(emitted[s]) + Count(Held(s)) + Count(buf[s]) = read[s]
Covered ==
  \A s \in Streams :
    Lines(emitted[s]) \cup Lines(Held(s)) \cup Lines(buf[s]) = 1 .. read[s]
InOrder == Ascending(emitted["stdout"] \o buf["stdout"])

(* The flusher holds lines only while it sends those of stdout, and begins its *)
(* last flush when no more lines can come.                                     *)
Flushing ==
  /\ flusher \in {"sleeping", "stderr", "finalStderr", "done"} => taken = <<>>
  /\ flusher \in {"finalStdout", "finalStderr", "done"} =>
       BothDone /\ \A s \in Streams : buf[s] = <<>>

(* What the coroutine has waited for. *)
Waiting ==
  /\ main \in {"drain", "wait", "returned"} => BothDone
  /\ main \in {"wait", "returned"} => flusher \in {"done", "cancelled"}

(* A line is captured when its flush has come back. *)
UpToBudget(units) == IF units > Budget THEN Budget ELSE units
Capturing ==
  \A s \in Streams :
    /\ reader[s] \in {"reading", "done"} => kept[s] = UpToBudget(Units(s))
    /\ reader[s] = "emitting" =>
         read[s] > 0 /\ kept[s] = UpToBudget(UpTo(s, read[s] - 1))
    /\ trunc[s] => Units(s) > Budget

Places == Counted /\ Covered /\ InOrder
StreamInv == StreamTypeOK /\ Places /\ Flushing /\ Waiting /\ Capturing

USE StreamConstants

-----------------------------------------------------------------------------

(* Lines of sequences put together. *)
LEMMA ConcatLines ==
  ASSUME NEW s \in Seq(Nat), NEW t \in Seq(Nat)
  PROVE  /\ s \o t \in Seq(Nat) /\ Count(s \o t) = Count(s) + Count(t)
         /\ Lines(s \o t) = Lines(s) \cup Lines(t)
<1>1. s \o t \in Seq(Nat) /\ Len(s \o t) = Len(s) + Len(t) /\
      \A i \in 1 .. Len(s) + Len(t) : (s \o t)[i] = IF i <= Len(s) THEN s[i] ELSE t[i - Len(s)]
  BY ConcatProperties
<1>2. DOMAIN s = 1 .. Len(s) /\ DOMAIN t = 1 .. Len(t) /\ DOMAIN (s \o t) = 1 .. Len(s) + Len(t)
  BY <1>1, LenProperties
<1>3. Len(s) \in Nat /\ Len(t) \in Nat
  BY LenProperties
<1>4. ASSUME NEW i \in DOMAIN s PROVE s[i] \in Lines(s \o t)
  <2>1. i \in DOMAIN (s \o t) /\ (s \o t)[i] = s[i]
    BY <1>1, <1>2, <1>3
  <2> QED
    BY <2>1 DEF Lines, Range
<1>5. ASSUME NEW i \in DOMAIN t PROVE t[i] \in Lines(s \o t)
  <2>1. i \in 1 .. Len(t) /\ Len(s) + i \in 1 .. Len(s) + Len(t) /\ ~(Len(s) + i <= Len(s))
    BY <1>2, <1>3
  <2>2. Len(s) + i \in DOMAIN (s \o t) /\ (s \o t)[Len(s) + i] = t[i]
    BY <1>1, <1>2, <1>3, <2>1
  <2> QED
    BY <2>2 DEF Lines, Range
<1>6. ASSUME NEW i \in DOMAIN (s \o t) PROVE (s \o t)[i] \in Lines(s) \cup Lines(t)
  <2>1. CASE i <= Len(s)
    <3>1. i \in DOMAIN s /\ (s \o t)[i] = s[i]
      BY <1>1, <1>2, <1>3, <2>1
    <3> QED
      BY <3>1 DEF Lines, Range
  <2>2. CASE i > Len(s)
    <3>1. i - Len(s) \in DOMAIN t /\ (s \o t)[i] = t[i - Len(s)]
      BY <1>1, <1>2, <1>3, <2>2
    <3> QED
      BY <3>1 DEF Lines, Range
  <2> QED
    BY <1>2, <1>3, <2>1, <2>2
<1>7. Lines(s \o t) = Lines(s) \cup Lines(t)
  BY <1>4, <1>5, <1>6 DEF Lines, Range
<1> QED
  BY <1>1, <1>7 DEF Count

LEMMA AppendLines ==
  ASSUME NEW s \in Seq(Nat), NEW line \in Nat
  PROVE  /\ Append(s, line) \in Seq(Nat) /\ Count(Append(s, line)) = Count(s) + 1
         /\ Lines(Append(s, line)) = Lines(s) \cup {line}
<1>1. Append(s, line) \in Seq(Nat) /\ Len(Append(s, line)) = Len(s) + 1
  OBVIOUS
<1>2. DOMAIN s = 1 .. Len(s) /\ DOMAIN Append(s, line) = 1 .. Len(s) + 1 /\ Len(s) \in Nat
  BY <1>1, LenProperties
<1>3. \A i \in 1 .. Len(s) + 1 : Append(s, line)[i] = IF i <= Len(s) THEN s[i] ELSE line
  BY <1>2
<1>4. Lines(Append(s, line)) \subseteq Lines(s) \cup {line}
  BY <1>2, <1>3 DEF Lines, Range
<1>5. ASSUME NEW i \in DOMAIN s PROVE s[i] \in Lines(Append(s, line))
  <2>1. i \in DOMAIN Append(s, line) /\ Append(s, line)[i] = s[i]
    BY <1>2, <1>3
  <2> QED
    BY <2>1 DEF Lines, Range
<1>6. line \in Lines(Append(s, line))
  <2>1. Len(s) + 1 \in DOMAIN Append(s, line) /\ Append(s, line)[Len(s) + 1] = line
    BY <1>2, <1>3
  <2> QED
    BY <2>1 DEF Lines, Range
<1> QED
  BY <1>1, <1>4, <1>5, <1>6 DEF Lines, Count, Range

LEMMA CountType == \A seq \in Seq(Nat) : Count(seq) \in Nat
BY LenProperties DEF Count

LEMMA NoLines ==
  /\ <<>> \in Seq(Nat)
  /\ \A e : e = <<>> => Count(e) = 0 /\ Lines(e) = {}
BY DEF Lines, Count, Range

(* A new line at the end keeps the order. *)
LEMMA AscendingAppend ==
  ASSUME NEW s \in Seq(Nat), NEW line \in Nat, Ascending(s),
         \A l \in Lines(s) : l < line
  PROVE  Ascending(Append(s, line))
<1>1. DOMAIN s = 1 .. Len(s) /\ DOMAIN Append(s, line) = 1 .. Len(s) + 1 /\ Len(s) \in Nat
  BY LenProperties, Append(s, line) \in Seq(Nat), Len(Append(s, line)) = Len(s) + 1
<1>2. \A i \in 1 .. Len(s) + 1 : Append(s, line)[i] = IF i <= Len(s) THEN s[i] ELSE line
  BY <1>1
<1>3. \A i \in 1 .. Len(s) : s[i] \in Nat /\ s[i] < line
  BY <1>1 DEF Lines, Range
<1> SUFFICES ASSUME NEW i \in 1 .. Len(s) + 1, NEW j \in 1 .. Len(s) + 1, i < j
             PROVE  Append(s, line)[i] < Append(s, line)[j]
  BY <1>1 DEF Ascending
<1>4. i <= Len(s) /\ i \in DOMAIN s
  BY <1>1
<1>5. CASE j <= Len(s)
  BY <1>1, <1>2, <1>4, <1>5 DEF Ascending
<1>6. CASE j = Len(s) + 1
  BY <1>1, <1>2, <1>3, <1>4, <1>6
<1> QED
  BY <1>1, <1>5, <1>6

LEMMA AppendOfConcat ==
  ASSUME NEW s \in Seq(Nat), NEW t \in Seq(Nat), NEW line \in Nat
  PROVE  Append(s \o t, line) = s \o Append(t, line)
<1> DEFINE left == Append(s \o t, line)
           right == s \o Append(t, line)
<1>1. Len(s) \in Nat /\ Len(t) \in Nat
  BY LenProperties
<1>2. /\ s \o t \in Seq(Nat) /\ Len(s \o t) = Len(s) + Len(t)
      /\ \A i \in 1 .. Len(s) + Len(t) : (s \o t)[i] = IF i <= Len(s) THEN s[i] ELSE t[i - Len(s)]
  BY ConcatProperties
<1>3. /\ Append(t, line) \in Seq(Nat) /\ Len(Append(t, line)) = Len(t) + 1
      /\ \A i \in 1 .. Len(t) : Append(t, line)[i] = t[i]
      /\ Append(t, line)[Len(t) + 1] = line
  BY AppendProperties
<1>4. /\ left \in Seq(Nat) /\ Len(left) = Len(s \o t) + 1
      /\ \A i \in 1 .. Len(s \o t) : left[i] = (s \o t)[i]
      /\ left[Len(s \o t) + 1] = line
  BY <1>2, AppendProperties
<1>5. /\ right \in Seq(Nat) /\ Len(right) = Len(s) + Len(Append(t, line))
      /\ \A i \in 1 .. Len(s) + Len(Append(t, line)) :
           right[i] = IF i <= Len(s) THEN s[i] ELSE Append(t, line)[i - Len(s)]
  BY <1>3, ConcatProperties
<1> HIDE DEF left, right
<1>6. ASSUME NEW i \in 1 .. Len(left) PROVE left[i] = right[i]
  <2>1. CASE i <= Len(s)
    <3>1. /\ i \in 1 .. Len(s \o t) /\ i \in 1 .. Len(s) + Len(t)
          /\ i \in 1 .. Len(s) + Len(Append(t, line))
      BY <1>1, <1>2, <1>3, <2>1
    <3>2. left[i] = s[i] /\ right[i] = s[i]
      BY <1>2, <1>4, <1>5, <2>1, <3>1
    <3> QED
      BY <3>2
  <2>2. CASE Len(s) < i /\ i <= Len(s) + Len(t)
    <3>1. /\ i \in 1 .. Len(s \o t) /\ i \in 1 .. Len(s) + Len(t)
          /\ i \in 1 .. Len(s) + Len(Append(t, line))
          /\ i - Len(s) \in 1 .. Len(t) /\ ~(i <= Len(s))
      BY <1>1, <1>2, <1>3, <2>2
    <3>2. left[i] = t[i - Len(s)]
      BY <1>2, <1>4, <3>1
    <3>3. right[i] = t[i - Len(s)]
      BY <1>3, <1>5, <3>1
    <3> QED
      BY <3>2, <3>3
  <2>3. CASE i = Len(s) + Len(t) + 1
    <3>1. i - Len(s) = Len(t) + 1 /\ ~(i <= Len(s)) /\ i \in 1 .. Len(s) + Len(Append(t, line))
      BY <1>1, <1>3, <2>3
    <3> QED
      BY <1>2, <1>3, <1>4, <1>5, <2>3, <3>1
  <2> QED
    BY <1>1, <1>2, <1>4, <2>1, <2>2, <2>3
<1>7. Len(left) = Len(right)
  BY <1>1, <1>2, <1>3, <1>4, <1>5
<1>8. left = right
  BY <1>4, <1>5, <1>6, <1>7, SeqEqual
<1> QED
  BY <1>8 DEF left, right

(* How much of a stream its first lines hold. *)
LEMMA UpToGrows ==
  ASSUME source \in [Streams -> Sources],
         NEW s \in Streams, NEW n \in Nat, n < Len(source[s])
  PROVE  /\ UpTo(s, n) \in Nat /\ UpTo(s, n + 1) \in Nat
         /\ UpTo(s, n) <= UpTo(s, n + 1)
<1>1. source[s] \in Seq(Nat) /\ source[s] \in Sources
  OBVIOUS
<1>2. DOMAIN source[s] = 1 .. Len(source[s]) /\ Len(source[s]) \in Nat
  BY <1>1, LenProperties
<1>3. \A i \in 1 .. Len(source[s]) : source[s][i] \in Nat
  BY <1>1, ElementOfSeq
<1>4. \A i, j \in 1 .. Len(source[s]) : i < j => source[s][i] <= source[s][j]
  BY <1>1, <1>2
<1> QED
  BY <1>2, <1>3, <1>4 DEF UpTo

LEMMA StreamStarts == ASSUME StreamInit PROVE StreamInv
<1>1. StreamTypeOK
  <2>1. \A s \in Streams : source[s] \in Seq(Nat)
    BY DEF StreamInit
  <2>2. \A s \in Streams : Len(source[s]) \in Nat
    BY <2>1, LenProperties
  <2>3. <<>> \in Seq(Nat) /\ Budget \in Nat /\ Threshold \in Nat /\ Threshold > 0
    OBVIOUS
  <2>4. read \in [Streams -> Nat] /\ \A s \in Streams : read[s] <= Len(source[s])
    BY <2>2 DEF StreamInit
  <2>5. /\ size \in [Streams -> 0 .. Threshold - 1]
        /\ kept \in [Streams -> 0 .. Budget]
    BY <2>3 DEF StreamInit
  <2> QED
    BY <2>3, <2>4, <2>5 DEF StreamInit, StreamTypeOK, ReaderStates,
       FlusherStates, MainStates
<1>2. Places
  BY NoLines, ConcatEmptySeq DEF Places, Counted, Covered, InOrder, StreamInit,
     Streams, Held, Ascending
<1>3. Flushing /\ Waiting /\ Capturing
  BY DEF Flushing, Waiting, Capturing, StreamInit, Streams, Units, UpTo,
     UpToBudget
<1> QED
  BY <1>1, <1>2, <1>3 DEF StreamInv

(* A reader that takes a line over keeps the places, whether it sends the     *)
(* buffer or adds to it.                                                      *)
LEMMA ReadKeepsPlaces ==
  ASSUME StreamInv, NEW s \in Streams, ReadLine(s)
  PROVE  Places'
<1> DEFINE line == read[s] + 1
           seen == emitted[s] \o buf[s]
           lines == Append(buf[s], line)
<1> USE DEF StreamInv, Places
<1>1. /\ emitted \in [Streams -> Seq(Nat)] /\ buf \in [Streams -> Seq(Nat)]
      /\ read \in [Streams -> Nat] /\ taken \in Seq(Nat)
  BY DEF StreamTypeOK
<1>2. line \in Nat /\ emitted[s] \in Seq(Nat) /\ buf[s] \in Seq(Nat) /\ Held(s) \in Seq(Nat)
  BY <1>1, NoLines DEF Held
<1>3. /\ Count(emitted[s]) \in Nat /\ Count(buf[s]) \in Nat /\ Count(Held(s)) \in Nat
      /\ Count(emitted[s]) + Count(Held(s)) + Count(buf[s]) = read[s]
      /\ Lines(emitted[s]) \cup Lines(Held(s)) \cup Lines(buf[s]) = 1 .. read[s]
  BY <1>2, CountType DEF Counted, Covered
<1>4. /\ lines \in Seq(Nat) /\ Count(lines) = Count(buf[s]) + 1
      /\ Lines(lines) = Lines(buf[s]) \cup {line}
  BY <1>2, AppendLines
<1>5. /\ emitted[s] \o lines \in Seq(Nat)
      /\ Count(emitted[s] \o lines) = Count(emitted[s]) + Count(buf[s]) + 1
      /\ Lines(emitted[s] \o lines) = Lines(emitted[s]) \cup Lines(buf[s]) \cup {line}
  <2> HIDE DEF lines, line
  <2>1. /\ emitted[s] \o lines \in Seq(Nat)
        /\ Count(emitted[s] \o lines) = Count(emitted[s]) + Count(lines)
        /\ Lines(emitted[s] \o lines) = Lines(emitted[s]) \cup Lines(lines)
    BY <1>2, <1>4, ConcatLines
  <2>2. Count(emitted[s] \o lines) = Count(emitted[s]) + Count(buf[s]) + 1
    BY <1>3, <1>4, <2>1
  <2> QED
    BY <1>4, <2>1, <2>2
<1>6. /\ read' = [read EXCEPT ![s] = line] /\ taken' = taken
      /\ \/ /\ emitted' = [emitted EXCEPT ![s] = emitted[s] \o lines]
            /\ buf' = [buf EXCEPT ![s] = <<>>]
         \/ /\ buf' = [buf EXCEPT ![s] = lines]
            /\ emitted' = emitted
  BY DEF ReadLine
<1>7. 1 .. line = (1 .. read[s]) \cup {line}
  BY <1>1 DEF Streams
<1>8. \A r \in Streams : Held(r)' = Held(r)
  BY <1>6 DEF Held
<1>9. \A r \in Streams : r # s =>
        emitted'[r] = emitted[r] /\ buf'[r] = buf[r] /\ read'[r] = read[r]
  BY <1>1, <1>6
<1>10. read'[s] = line
  BY <1>1, <1>6
<1>11. /\ Count(emitted'[s]) + Count(Held(s)) + Count(buf'[s]) = line
       /\ Lines(emitted'[s]) \cup Lines(Held(s)) \cup Lines(buf'[s]) = 1 .. line
  <2>1. \/ buf'[s] = <<>> /\ emitted'[s] = emitted[s] \o lines
        \/ buf'[s] = lines /\ emitted'[s] = emitted[s]
    BY <1>1, <1>6
  <2>2. Count(emitted[s]) + Count(Held(s)) + (Count(buf[s]) + 1) = line
    BY <1>1, <1>3
  <2> HIDE DEF line, lines
  <2>3. Count(emitted'[s]) + Count(Held(s)) + Count(buf'[s]) = line
    <3>1. CASE buf'[s] = <<>> /\ emitted'[s] = emitted[s] \o lines
      <4>1. Count(buf'[s]) = 0 /\ Count(emitted'[s]) = Count(emitted[s]) + Count(buf[s]) + 1
        BY <1>5, <3>1, NoLines
      <4> QED
        BY <1>3, <2>2, <4>1
    <3>2. CASE buf'[s] = lines /\ emitted'[s] = emitted[s]
      BY <1>3, <1>4, <2>2, <3>2
    <3> QED
      BY <2>1, <3>1, <3>2
  <2>4. Lines(emitted'[s]) \cup Lines(buf'[s]) = Lines(emitted[s]) \cup Lines(buf[s]) \cup {line}
    BY <1>4, <1>5, <2>1, NoLines
  <2> QED
    BY <1>3, <1>7, <2>3, <2>4
<1>12. Counted'
  BY <1>8, <1>9, <1>10, <1>11 DEF Counted
<1>13. Covered'
  BY <1>8, <1>9, <1>10, <1>11 DEF Covered
<1>14. InOrder'
  <2>1. CASE s = "stdout"
    <3>1. seen \in Seq(Nat) /\ Lines(seen) = Lines(emitted[s]) \cup Lines(buf[s])
      BY <1>2, ConcatLines
    <3>2. Ascending(seen) /\ \A l \in Lines(seen) : l < line
      <4>1. \A l \in 1 .. read[s] : l < line
        BY <1>1
      <4> QED
        BY <1>3, <2>1, <3>1, <4>1 DEF InOrder
    <3>3. Ascending(Append(seen, line))
      <4> HIDE DEF seen, line
      <4> QED
        BY <1>2, <3>1, <3>2, AscendingAppend
    <3>4. Append(seen, line) = emitted[s] \o lines
      <4> HIDE DEF line
      <4> QED
        BY <1>2, AppendOfConcat, Zenon DEF seen, lines
    <3>5. emitted'[s] \o buf'[s] = emitted[s] \o lines
      <4> HIDE DEF lines
      <4>1. \/ buf'[s] = <<>> /\ emitted'[s] = emitted[s] \o lines
            \/ buf'[s] = lines /\ emitted'[s] = emitted[s]
        BY <1>1, <1>6
      <4> QED
        BY <1>5, <4>1, ConcatEmptySeq
    <3> QED
      BY <2>1, <3>3, <3>4, <3>5 DEF InOrder
  <2>2. CASE s # "stdout"
    BY <1>9, <2>2 DEF InOrder, Streams
  <2> QED
    BY <2>1, <2>2
<1> QED
  BY <1>12, <1>13, <1>14

(* Lines taken out of a buffer are in the flusher's hands or sent. *)
LEMMA TakeKeepsPlaces ==
  ASSUME StreamInv, NEW toStdout, NEW toStderr, NEW otherwise, taken = <<>>, read' = read,
         TakeBuffers(toStdout, toStderr, otherwise)
  PROVE  Places'
<1> USE DEF StreamInv, Places
<1>1. /\ emitted \in [Streams -> Seq(Nat)] /\ buf \in [Streams -> Seq(Nat)]
  BY DEF StreamTypeOK
<1>2. \A s \in Streams : Held(s) = <<>>
  BY DEF Held
<1>3. \A s \in Streams :
        /\ emitted[s] \o buf[s] \in Seq(Nat)
        /\ Count(emitted[s] \o buf[s]) = read[s]
        /\ Lines(emitted[s] \o buf[s]) = 1 .. read[s]
  <2> TAKE s \in Streams
  <2>1. emitted[s] \in Seq(Nat) /\ buf[s] \in Seq(Nat)
    BY <1>1
  <2>2. Count(emitted[s]) \in Nat /\ Count(buf[s]) \in Nat
    BY <2>1, CountType
  <2>3. Count(emitted[s]) + Count(buf[s]) = read[s]
    BY <1>2, <2>2, NoLines DEF Counted
  <2>4. Lines(emitted[s]) \cup Lines(buf[s]) = 1 .. read[s]
    BY <1>2, NoLines DEF Covered
  <2> QED
    BY <2>1, <2>3, <2>4, ConcatLines
<1>4. "stdout" \in Streams /\ "stderr" \in Streams
  BY DEF Streams
<1>5. \A s \in Streams : buf'[s] = <<>>
  BY DEF TakeBuffers
<1>6. /\ emitted'["stdout"] = emitted["stdout"] \o buf["stdout"]
      /\ \/ /\ emitted'["stderr"] = emitted["stderr"] \o buf["stderr"]
            /\ taken' = <<>>
         \/ /\ emitted'["stderr"] = emitted["stderr"]
            /\ taken' = buf["stderr"]
  <2>1. \A s \in Streams : emitted[s] \o <<>> = emitted[s]
    BY <1>1, ConcatEmptySeq
  <2> QED
    BY <1>1, <1>4, <2>1 DEF TakeBuffers, Emit
<1>7. Counted' /\ Covered'
  <2>1. /\ emitted["stderr"] \in Seq(Nat) /\ buf["stderr"] \in Seq(Nat)
        /\ Count(emitted["stderr"]) \in Nat /\ Count(buf["stderr"]) \in Nat
        /\ Count(emitted["stderr"]) + Count(buf["stderr"]) = read["stderr"]
        /\ Lines(emitted["stderr"]) \cup Lines(buf["stderr"]) = 1 .. read["stderr"]
    <3>1. /\ emitted["stderr"] \in Seq(Nat) /\ buf["stderr"] \in Seq(Nat)
          /\ Count(emitted["stderr"]) \in Nat /\ Count(buf["stderr"]) \in Nat
      BY <1>1, <1>4, CountType
    <3>2. Count(emitted["stderr"]) + Count(buf["stderr"]) = read["stderr"]
      BY <1>2, <1>4, <3>1, NoLines DEF Counted
    <3> QED
      BY <1>2, <1>4, <3>1, <3>2, NoLines DEF Covered
  <2>2. Count(emitted["stdout"] \o buf["stdout"]) = read["stdout"] /\
        Lines(emitted["stdout"] \o buf["stdout"]) = 1 .. read["stdout"]
    BY <1>3, <1>4
  <2>3. /\ Count(emitted["stderr"] \o buf["stderr"]) = read["stderr"]
        /\ Lines(emitted["stderr"] \o buf["stderr"]) = 1 .. read["stderr"]
    BY <1>3, <1>4
  <2>4. read["stdout"] \in Nat /\ read["stderr"] \in Nat
    BY <1>4 DEF StreamTypeOK
  <2>5. /\ Held("stdout")' = <<>> /\ Held("stderr")' = taken'
    BY DEF Held
  <2>6. /\ Count(emitted'["stdout"]) + Count(Held("stdout")') + Count(buf'["stdout"]) = read["stdout"]
        /\ Lines(emitted'["stdout"]) \cup Lines(Held("stdout")') \cup Lines(buf'["stdout"])
             = 1 .. read["stdout"]
    BY <1>4, <1>5, <1>6, <2>2, <2>4, <2>5, NoLines
  <2>7. /\ Count(emitted'["stderr"]) + Count(Held("stderr")') + Count(buf'["stderr"]) = read["stderr"]
        /\ Lines(emitted'["stderr"]) \cup Lines(Held("stderr")') \cup Lines(buf'["stderr"])
             = 1 .. read["stderr"]
    <3>1. /\ buf'["stderr"] = <<>>
          /\ \/ emitted'["stderr"] = emitted["stderr"] \o buf["stderr"] /\ taken' = <<>>
             \/ emitted'["stderr"] = emitted["stderr"] /\ taken' = buf["stderr"]
      BY <1>4, <1>5, <1>6
    <3>2. Count(emitted'["stderr"]) + Count(taken') + Count(buf'["stderr"]) = read["stderr"]
      <4>1. Count(buf'["stderr"]) = 0
        BY <3>1, NoLines
      <4>2. CASE emitted'["stderr"] = emitted["stderr"] \o buf["stderr"] /\ taken' = <<>>
        BY <2>3, <2>4, <4>1, <4>2, NoLines
      <4>3. CASE emitted'["stderr"] = emitted["stderr"] /\ taken' = buf["stderr"]
        BY <2>1, <4>1, <4>3
      <4> QED
        BY <3>1, <4>2, <4>3
    <3>3. Lines(emitted'["stderr"]) \cup Lines(taken') \cup Lines(buf'["stderr"]) = 1 .. read["stderr"]
      BY <2>1, <2>3, <3>1, NoLines
    <3> QED
      BY <2>5, <3>2, <3>3
  <2> QED
    BY <2>6, <2>7 DEF Counted, Covered, Streams
<1>8. InOrder'
  <2>1. emitted'["stdout"] \o buf'["stdout"] = emitted["stdout"] \o buf["stdout"]
    BY <1>3, <1>4, <1>5, <1>6, ConcatEmptySeq
  <2> QED
    BY <2>1 DEF InOrder
<1> QED
  BY <1>7, <1>8

(* And so they are when the flusher goes on with stderr's. *)
LEMMA SendKeepsPlaces ==
  ASSUME StreamInv, taken # <<>>, taken' = <<>>, read' = read, buf' = buf, Emit("stderr", taken)
  PROVE  Places'
<1> USE DEF StreamInv, Places
<1>1. /\ emitted["stderr"] \in Seq(Nat) /\ buf["stderr"] \in Seq(Nat) /\ taken \in Seq(Nat)
      /\ emitted \in [Streams -> Seq(Nat)]
  BY DEF StreamTypeOK, Streams
<1>2. /\ Count(emitted["stderr"] \o taken) = Count(emitted["stderr"]) + Count(taken)
      /\ Lines(emitted["stderr"] \o taken) = Lines(emitted["stderr"]) \cup Lines(taken)
  BY <1>1, ConcatLines
<1>3. /\ emitted'["stdout"] = emitted["stdout"]
      /\ emitted'["stderr"] = emitted["stderr"] \o taken
  BY <1>1 DEF Emit, Streams
<1>4. /\ Held("stdout")' = Held("stdout")
      /\ Held("stderr") = taken /\ Held("stderr")' = <<>>
  BY DEF Held
<1>5. Count(emitted["stderr"]) \in Nat /\ Count(taken) \in Nat /\ Count(buf["stderr"]) \in Nat
  BY <1>1, CountType
<1>6. Counted'
  <2>1. /\ Count(emitted["stderr"]) + Count(taken) + Count(buf["stderr"]) = read["stderr"]
        /\ Count(emitted["stdout"]) + Count(Held("stdout")) + Count(buf["stdout"]) = read["stdout"]
    BY <1>4 DEF Counted, Streams
  <2>2. Count(emitted'["stderr"]) + Count(Held("stderr")') + Count(buf'["stderr"]) = read["stderr"]
    BY <1>2, <1>3, <1>4, <1>5, <2>1, NoLines
  <2> QED
    BY <1>3, <1>4, <2>1, <2>2 DEF Counted, Streams
<1>7. Covered'
  BY <1>2, <1>3, <1>4, NoLines DEF Covered, Streams
<1>8. InOrder'
  BY <1>3 DEF InOrder
<1> QED
  BY <1>6, <1>7, <1>8

(* Types, action by action. *)
LEMMA StreamTypes ==
  ASSUME StreamInv, [StreamNext]_streamVars
  PROVE  StreamTypeOK'
<1> USE DEF StreamInv, StreamTypeOK, ReaderStates, FlusherStates,
        MainStates, streamVars
<1>1. "stdout" \in Streams /\ "stderr" \in Streams
  BY DEF Streams
<1>2. <<>> \in Seq(Nat) /\ Budget \in Nat /\ Threshold \in Nat /\ Threshold > 0
  OBVIOUS
<1>3. \A s \in Streams : Len(source[s]) \in Nat
  <2>1. \A s \in Streams : source[s] \in Seq(Nat)
    OBVIOUS
  <2> QED
    BY <2>1, LenProperties
<1>4. \A s \in Streams, units \in Nat :
        Capture(s, units) =>
          kept' \in [Streams -> 0 .. Budget] /\ trunc' \in [Streams -> BOOLEAN]
  <2> SUFFICES ASSUME NEW s \in Streams, NEW units \in Nat, Capture(s, units)
               PROVE  kept' \in [Streams -> 0 .. Budget] /\ trunc' \in [Streams -> BOOLEAN]
    OBVIOUS
  <2>1. kept' \in [Streams -> 0 .. Budget]
    <3>1. kept[s] \in 0 .. Budget
      OBVIOUS
    <3>2. (IF units > Budget - kept[s] THEN Budget ELSE kept[s] + units) \in 0 .. Budget
      BY <1>2, <3>1
    <3> QED
      BY <3>2 DEF Capture
  <2>2. trunc' \in [Streams -> BOOLEAN]
    BY DEF Capture
  <2> QED
    BY <2>1, <2>2
<1>5. \A s \in {"stdout", "stderr"}, lines \in Seq(Nat) :
        Emit(s, lines) => emitted' \in [Streams -> Seq(Nat)]
  <2> TAKE s \in {"stdout", "stderr"}, lines \in Seq(Nat)
  <2>1. emitted[s] \o lines \in Seq(Nat)
    BY ConcatLines DEF Streams
  <2> QED
    BY <2>1 DEF Emit
<1>6. ASSUME NEW toStdout, NEW toStderr, NEW otherwise,
             TakeBuffers(toStdout, toStderr, otherwise)
      PROVE  /\ buf' \in [Streams -> Seq(Nat)] /\ size' \in [Streams -> 0 .. Threshold - 1]
             /\ taken' \in Seq(Nat) /\ emitted' \in [Streams -> Seq(Nat)]
             /\ flusher' \in {toStdout, toStderr, otherwise}
  <2>1. buf' \in [Streams -> Seq(Nat)] /\ size' \in [Streams -> 0 .. Threshold - 1]
    BY <1>2, <1>6 DEF TakeBuffers
  <2>2. taken' \in Seq(Nat) /\ flusher' \in {toStdout, toStderr, otherwise}
    BY <1>1, <1>2, <1>6 DEF TakeBuffers
  <2>3. emitted' \in [Streams -> Seq(Nat)]
    BY <1>1, <1>5, <1>6 DEF TakeBuffers
  <2> QED
    BY <2>1, <2>2, <2>3
<1>7. ASSUME NEW s \in Streams, ReadLine(s) PROVE StreamTypeOK'
  <2>1. read[s] \in Nat /\ read[s] < Len(source[s])
    BY <1>7 DEF ReadLine, HasLine
  <2>2. NextSize(s) \in Nat
    <3>1. /\ UpTo(s, read[s]) \in Nat /\ UpTo(s, read[s] + 1) \in Nat
          /\ UpTo(s, read[s]) <= UpTo(s, read[s] + 1)
      BY <2>1, UpToGrows
    <3> QED
      BY <2>1, <3>1, (read[s] + 1) - 1 = read[s] DEF NextSize, SizeOf
  <2>3. Append(buf[s], read[s] + 1) \in Seq(Nat)
    BY <2>1, AppendLines
  <2>4. read' \in [Streams -> Nat] /\ \A r \in Streams : read'[r] <= Len(source'[r])
    <3>1. read' = [read EXCEPT ![s] = read[s] + 1] /\ source' = source
      BY <1>7 DEF ReadLine
    <3> QED
      BY <1>3, <2>1, <3>1
  <2>5. buf' \in [Streams -> Seq(Nat)] /\ reader' \in [Streams -> ReaderStates]
    <3>1. \/ buf' = [buf EXCEPT ![s] = <<>>] \/ buf' = [buf EXCEPT ![s] = Append(buf[s], read[s] + 1)]
      BY <1>7 DEF ReadLine
    <3>2. reader' = [reader EXCEPT ![s] = "emitting"] \/ reader' = reader
      BY <1>7 DEF ReadLine
    <3> QED
      BY <1>2, <2>3, <3>1, <3>2
  <2>6. emitted' \in [Streams -> Seq(Nat)]
    <3>1. emitted[s] \o Append(buf[s], read[s] + 1) \in Seq(Nat)
      BY <2>3, ConcatLines
    <3>2. \/ emitted' = emitted
          \/ emitted' = [emitted EXCEPT ![s] = emitted[s] \o Append(buf[s], read[s] + 1)]
      BY <1>7 DEF ReadLine
    <3> QED
      BY <3>1, <3>2
  <2>7. size' \in [Streams -> 0 .. Threshold - 1]
    <3>1. size[s] \in Nat
      BY <1>2
    <3>2. ~Full(size[s] + NextSize(s)) => size[s] + NextSize(s) \in 0 .. Threshold - 1
      BY <1>2, <2>2, <3>1 DEF Full
    <3>3. \/ size' = [size EXCEPT ![s] = 0]
          \/ /\ ~Full(size[s] + NextSize(s))
             /\ size' = [size EXCEPT ![s] = size[s] + NextSize(s)]
      BY <1>7 DEF ReadLine
    <3>4. 0 \in 0 .. Threshold - 1
      BY <1>2
    <3> QED
      BY <3>2, <3>3, <3>4
  <2>8. kept' \in [Streams -> 0 .. Budget] /\ trunc' \in [Streams -> BOOLEAN]
    BY <1>4, <1>7, <2>2 DEF ReadLine
  <2> QED
    BY <1>7, <2>4, <2>5, <2>6, <2>7, <2>8 DEF ReadLine
<1>8. ASSUME NEW s \in Streams, ReaderFlushed(s) PROVE StreamTypeOK'
  <2>1. read[s] \in Nat /\ read[s] > 0 /\ read[s] <= Len(source[s])
    BY <1>8 DEF ReaderFlushed, Capturing
  <2>2. read[s] - 1 \in Nat /\ read[s] - 1 < Len(source[s]) /\ (read[s] - 1) + 1 = read[s]
    BY <1>3, <2>1
  <2>3. SizeOf(s, read[s]) \in Nat
    <3>1. /\ UpTo(s, read[s] - 1) \in Nat /\ UpTo(s, read[s]) \in Nat
          /\ UpTo(s, read[s] - 1) <= UpTo(s, read[s])
      BY <2>2, UpToGrows
    <3> QED
      BY <3>1 DEF SizeOf
  <2>4. kept' \in [Streams -> 0 .. Budget] /\ trunc' \in [Streams -> BOOLEAN]
    BY <1>4, <1>8, <2>3 DEF ReaderFlushed
  <2> QED
    BY <1>8, <2>4 DEF ReaderFlushed
<1>9. ASSUME NEW s \in Streams, ReaderEnds(s) PROVE StreamTypeOK'
  BY <1>9 DEF ReaderEnds
<1>10. CASE Tick
  BY <1>6, <1>10 DEF Tick
<1>11. CASE Round /\ UNCHANGED <<source, reader, read, kept, trunc, main, ended>>
  BY <1>6, <1>11 DEF Round, LastFlush
<1>12. CASE StdoutFlushed
  BY <1>2, <1>5, <1>11, <1>12 DEF StdoutFlushed
<1>13. CASE StderrFlushed
  BY <1>11, <1>13 DEF StderrFlushed
<1>14. CASE Main
  BY <1>14 DEF Main, ReadersGathered, InnerDeadline, OuterDeadline,
     CutGather, CancelReaders, CancelFlusher, DrainCut, Drained,
     Waited, Reaped
<1>15. CASE ClientExits \/ CancelStep
  BY <1>15 DEF ClientExits, CancelStep, CutGather, CancelReaders,
     CancelFlusher
<1>16. CASE UNCHANGED streamVars
  BY <1>16
<1> QED
  BY <1>7, <1>8, <1>9, <1>10, <1>12, <1>13, <1>14, <1>15, <1>16 DEF StreamNext, Readers,
     Flusher

(* The places of the lines, action by action. *)
LEMMA StreamPlaces ==
  ASSUME StreamInv, [StreamNext]_streamVars
  PROVE  Places'
<1>1. ASSUME UNCHANGED <<read, buf, taken, emitted>> PROVE Places'
  BY <1>1 DEF StreamInv, Places, Counted, Covered, InOrder, Held
<1>2. ASSUME NEW s \in Streams, ReadLine(s) PROVE Places'
  BY <1>2, ReadKeepsPlaces
<1>3. ASSUME NEW s \in Streams, ReaderFlushed(s) \/ ReaderEnds(s) PROVE Places'
  BY <1>1, <1>3 DEF ReaderFlushed, ReaderEnds
<1>4. CASE Tick
  BY <1>4, TakeKeepsPlaces DEF Tick, StreamInv, Flushing
<1>5. CASE StdoutFlushed
  BY <1>1, <1>5, TakeKeepsPlaces, SendKeepsPlaces DEF StdoutFlushed, Round,
     LastFlush
<1>6. CASE StderrFlushed
  BY <1>1, <1>6, TakeKeepsPlaces DEF StderrFlushed, Round, LastFlush,
     StreamInv, Flushing
<1>7. CASE Main \/ ClientExits \/ CancelStep \/ UNCHANGED streamVars
  BY <1>1, <1>7 DEF Main, ReadersGathered, InnerDeadline, OuterDeadline,
     CutGather, DrainCut, Drained, Waited, Reaped, ClientExits,
     CancelStep, streamVars
<1> QED
  BY <1>2, <1>3, <1>4, <1>5, <1>6, <1>7 DEF StreamNext, Readers, Flusher

(* What the flusher holds and what the coroutine has waited for. *)
LEMMA StreamTasks ==
  ASSUME StreamInv, [StreamNext]_streamVars
  PROVE  Flushing' /\ Waiting'
<1> USE DEF StreamInv, Flushing, Waiting
<1>1. BothDone => BothDone'
  BY DEF StreamNext, streamVars, Readers, ReadLine, ReaderFlushed,
     ReaderEnds, Flusher, Tick, StdoutFlushed, StderrFlushed,
     Main, ReadersGathered, InnerDeadline, OuterDeadline,
     CutGather, CancelReaders, DrainCut, Drained, Waited, Reaped,
     ClientExits, CancelStep, BothDone, StreamTypeOK
<1>2. ASSUME NEW s \in Streams,
             ReadLine(s) \/ ReaderFlushed(s) \/ ReaderEnds(s)
      PROVE  Flushing' /\ Waiting'
  <2>1. ~BothDone /\ UNCHANGED <<flusher, taken, main>>
    BY <1>2 DEF ReadLine, ReaderFlushed, ReaderEnds, BothDone
  <2> QED
    BY <2>1
<1>3. ASSUME NEW toStdout, NEW toStderr, NEW otherwise,
             TakeBuffers(toStdout, toStderr, otherwise), taken = <<>>
      PROVE  /\ \A s \in Streams : buf'[s] = <<>>
             /\ flusher' = toStdout \/ (flusher' \in {toStderr, otherwise} /\ taken' = <<>>)
  BY <1>3 DEF TakeBuffers
<1>4. CASE Tick
  <2>1. main \notin {"wait", "returned"} /\ UNCHANGED <<main, reader>> /\ taken = <<>>
    BY <1>4 DEF Tick
  <2>2. /\ \A s \in Streams : buf'[s] = <<>>
        /\ \/ flusher' = "stdout"
           \/ taken' = <<>> /\ flusher' \in {"stderr", IF BothDone THEN "done" ELSE "sleeping"}
    BY <1>3, <1>4, <2>1 DEF Tick
  <2> QED
    BY <1>1, <2>1, <2>2
<1>5. ASSUME Round, taken = <<>>, flusher \in {"stdout", "stderr"}, UNCHANGED <<main, reader>>
      PROVE  Flushing' /\ Waiting'
  <2>1. CASE ~BothDone
    BY <1>5, <2>1 DEF Round
  <2>2. CASE BothDone
    <3>1. /\ \A s \in Streams : buf'[s] = <<>>
          /\ flusher' = "finalStdout" \/ (taken' = <<>> /\ flusher' \in {"finalStderr", "done"})
      BY <1>3, <1>5, <2>2 DEF Round, LastFlush
    <3> QED
      BY <1>1, <1>5, <2>2, <3>1
  <2> QED
    BY <2>1, <2>2
<1>6. CASE StdoutFlushed
  <2>1. main \notin {"wait", "returned"} /\ UNCHANGED <<main, reader>>
    BY <1>6 DEF StdoutFlushed
  <2>2. CASE taken = <<>> /\ Round /\ flusher = "stdout"
    BY <1>5, <2>1, <2>2
  <2>3. CASE ~(taken = <<>> /\ Round /\ flusher = "stdout")
    <3>1. taken' = <<>> /\ buf' = buf /\ flusher' \in {"stderr", "finalStderr", "done"}
          /\ (flusher' \in {"finalStderr", "done"} => flusher = "finalStdout")
      BY <1>6, <2>3 DEF StdoutFlushed
    <3> QED
      BY <1>1, <2>1, <3>1
  <2> QED
    BY <2>2, <2>3
<1>7. CASE StderrFlushed
  <2>1. CASE flusher = "stderr"
    BY <1>5, <1>7, <2>1 DEF StderrFlushed
  <2>2. CASE flusher = "finalStderr"
    BY <1>1, <1>7, <2>2 DEF StderrFlushed
  <2> QED
    BY <1>7, <2>1, <2>2 DEF StderrFlushed
<1>8. CASE Main \/ ClientExits \/ CancelStep
  BY <1>1, <1>8 DEF Main, ReadersGathered, InnerDeadline, OuterDeadline,
     CutGather, CancelFlusher, DrainCut, Drained, Waited, Reaped,
     ClientExits, CancelStep
<1>9. CASE UNCHANGED streamVars
  BY <1>1, <1>9 DEF streamVars
<1> QED
  BY <1>2, <1>4, <1>6, <1>7, <1>8, <1>9 DEF StreamNext, Readers, Flusher

(* The captured text, reader by reader. *)
LEMMA StreamCaptures ==
  ASSUME StreamInv, [StreamNext]_streamVars
  PROVE  Capturing'
<1> USE DEF StreamInv
<1>1. /\ reader \in [Streams -> ReaderStates] /\ read \in [Streams -> Nat]
      /\ kept \in [Streams -> 0 .. Budget] /\ trunc \in [Streams -> BOOLEAN]
      /\ source \in [Streams -> Sources]
  BY DEF StreamTypeOK
<1>2. Budget \in Nat /\ Budget > 0
  OBVIOUS
<1>3. ASSUME UNCHANGED <<source, read, kept, trunc>>,
             \A s \in Streams : reader'[s] = reader[s] \/ reader'[s] = "cancelled" \/
               (reader[s] = "reading" /\ reader'[s] = "done")
      PROVE  Capturing'
  BY <1>3 DEF Capturing, Units, UpTo
<1>4. ASSUME NEW units \in Nat, NEW more \in Nat, NEW s \in Streams,
             kept[s] = UpToBudget(units), Capture(s, more),
             trunc[s] => units + more > Budget
      PROVE  /\ kept'[s] = UpToBudget(units + more)
             /\ trunc'[s] => units + more > Budget
             /\ \A r \in Streams : r # s => kept'[r] = kept[r] /\ trunc'[r] = trunc[r]
  <2>1. kept'[s] = IF more > Budget - kept[s] THEN Budget ELSE kept[s] + more
    BY <1>1, <1>4 DEF Capture
  <2>2. trunc'[s] = (trunc[s] \/ (Budget - kept[s] > 0 /\ more > Budget - kept[s]))
    BY <1>1, <1>4 DEF Capture
  <2>3. kept'[s] = UpToBudget(units + more)
    BY <1>2, <1>4, <2>1 DEF UpToBudget
  <2>4. trunc'[s] => units + more > Budget
    <3>1. Budget - kept[s] > 0 /\ more > Budget - kept[s] => units + more > Budget
      BY <1>2, <1>4 DEF UpToBudget
    <3> QED
      BY <1>4, <2>2, <3>1
  <2>5. \A r \in Streams : r # s => kept'[r] = kept[r] /\ trunc'[r] = trunc[r]
    BY <1>1, <1>4 DEF Capture
  <2> QED
    BY <2>3, <2>4, <2>5
<1>5. ASSUME NEW s \in Streams, ReadLine(s) PROVE Capturing'
  <2> DEFINE units == UpTo(s, read[s])
             after == UpTo(s, read[s] + 1)
  <2>1. read[s] \in Nat /\ read[s] < Len(source[s]) /\ reader[s] = "reading"
    BY <1>1, <1>5 DEF ReadLine, HasLine
  <2>2. units \in Nat /\ after \in Nat /\ units <= after
    BY <1>1, <2>1, UpToGrows
  <2>3. NextSize(s) = after - units
    BY <2>1, (read[s] + 1) - 1 = read[s] DEF NextSize, SizeOf
  <2>4. kept[s] = UpToBudget(units) /\ (trunc[s] => units > Budget)
    BY <2>1 DEF Capturing, Units
  <2>5. /\ read'[s] = read[s] + 1 /\ source' = source
        /\ \A r \in Streams : r # s => read'[r] = read[r] /\ reader'[r] = reader[r]
    BY <1>1, <1>5 DEF ReadLine
  <2>6. UpTo(s, read[s])' = after /\ Units(s)' = after
    BY <2>5 DEF UpTo, Units
  <2>7. CASE Full(size[s] + NextSize(s))
    <3>1. reader'[s] = "emitting" /\ kept' = kept /\ trunc' = trunc
      BY <1>1, <1>5, <2>7 DEF ReadLine
    <3>2. read'[s] - 1 = read[s] /\ read'[s] > 0
      BY <2>1, <2>5
    <3> QED
      BY <2>2, <2>4, <2>5, <2>6, <3>1, <3>2, <1>2 DEF Capturing, Units, UpTo
  <2>8. CASE ~Full(size[s] + NextSize(s))
    <3>1. reader' = reader /\ Capture(s, after - units)
      BY <1>5, <2>3, <2>8 DEF ReadLine
    <3>2. after - units \in Nat /\ units + (after - units) = after
      BY <2>2
    <3>3. /\ kept'[s] = UpToBudget(after)
          /\ trunc'[s] => after > Budget
          /\ \A r \in Streams : r # s => kept'[r] = kept[r] /\ trunc'[r] = trunc[r]
      BY <1>2, <1>4, <2>2, <2>4, <3>1, <3>2
    <3> QED
      BY <2>1, <2>5, <2>6, <3>1, <3>3 DEF Capturing, Units, UpTo
  <2> QED
    BY <2>7, <2>8
<1>6. ASSUME NEW s \in Streams, ReaderFlushed(s) PROVE Capturing'
  <2> DEFINE units == UpTo(s, read[s] - 1)
             after == UpTo(s, read[s])
  <2>1. /\ read[s] - 1 \in Nat /\ read[s] - 1 < Len(source[s]) /\ (read[s] - 1) + 1 = read[s]
        /\ kept[s] = UpToBudget(units) /\ (trunc[s] => after > Budget)
    <3>1. reader[s] = "emitting" /\ read[s] \in Nat /\ read[s] > 0
      BY <1>1, <1>6 DEF ReaderFlushed, Capturing
    <3>2. Len(source[s]) \in Nat /\ read[s] <= Len(source[s])
      <4>1. source[s] \in Seq(Nat)
        BY <1>1
      <4> QED
        BY <4>1, LenProperties DEF StreamTypeOK
    <3> QED
      BY <3>1, <3>2 DEF Capturing, Units
  <2>2. units \in Nat /\ after \in Nat /\ units <= after
    BY <1>1, <2>1, UpToGrows
  <2>3. Capture(s, after - units)
    BY <1>6 DEF ReaderFlushed, SizeOf
  <2>4. after - units \in Nat /\ units + (after - units) = after
    BY <2>2
  <2>5. /\ kept'[s] = UpToBudget(after)
        /\ trunc'[s] => after > Budget
        /\ \A r \in Streams : r # s => kept'[r] = kept[r] /\ trunc'[r] = trunc[r]
    BY <1>2, <1>4, <2>1, <2>2, <2>3, <2>4
  <2>6. reader'[s] = "reading" /\ UNCHANGED <<source, read>>
        /\ \A r \in Streams : r # s => reader'[r] = reader[r]
    BY <1>1, <1>6 DEF ReaderFlushed
  <2> QED
    BY <2>5, <2>6 DEF Capturing, Units, UpTo
<1>7. ASSUME NEW s \in Streams, ReaderEnds(s) PROVE Capturing'
  BY <1>1, <1>3, <1>7 DEF ReaderEnds
<1>8. CASE Flusher \/ ClientExits \/ UNCHANGED streamVars
  <2>1. UNCHANGED <<source, read, kept, trunc, reader>>
    BY <1>8 DEF Flusher, Tick, StdoutFlushed, StderrFlushed,
       ClientExits, streamVars
  <2> QED
    BY <1>3, <2>1
<1>9. CASE Main \/ CancelStep
  <2>1. /\ UNCHANGED <<source, read, kept, trunc>>
        /\ reader' = reader \/ CancelReaders
    BY <1>9 DEF Main, ReadersGathered, InnerDeadline, OuterDeadline,
     CutGather, DrainCut, Drained, Waited, Reaped, CancelStep
  <2> QED
    BY <1>3, <2>1 DEF CancelReaders
<1> QED
  BY <1>5, <1>6, <1>7, <1>8, <1>9 DEF StreamNext, Readers

LEMMA StreamStep ==
  ASSUME StreamInv, [StreamNext]_streamVars
  PROVE  StreamInv'
BY StreamTypes, StreamPlaces, StreamTasks, StreamCaptures DEF StreamInv

LEMMA StreamAlways ==
  StreamSpec => []StreamInv
<1>1. StreamInit => StreamInv
  BY StreamStarts
<1>2. StreamInv /\ [StreamNext]_streamVars => StreamInv'
  BY StreamStep
<1> QED
  BY <1>1, <1>2, PTL DEF StreamSpec

(* Type correctness of the output of a container. *)
THEOREM OutputTypeCorrect ==
  StreamSpec => []StreamTypeOK
<1>1. StreamInv => StreamTypeOK
  BY DEF StreamInv
<1> QED
  BY <1>1, StreamAlways, PTL

(* However long the output and wherever its deadlines and cancellations strike, every line the   *)
(* readers of _stream_and_capture took is sent once, held by the flusher or buffered, and those  *)
(* of stdout are sent in their order.                                                            *)
THEOREM LinesSent ==
  StreamSpec => []LinesSentAsRead
<1>1. StreamInv => LinesSentAsRead
  <2> SUFFICES ASSUME StreamInv PROVE LinesSentAsRead
    OBVIOUS
  <2>1. ASSUME NEW s \in Streams
        PROVE  Len(Seen(s)) = read[s] /\ Range(Seen(s)) = 1 .. read[s]
    <3>1. emitted[s] \in Seq(Nat) /\ Held(s) \in Seq(Nat) /\ buf[s] \in Seq(Nat)
      BY NoLines DEF StreamInv, StreamTypeOK, Held
    <3>2. /\ emitted[s] \o Held(s) \in Seq(Nat)
          /\ Count(emitted[s] \o Held(s)) = Count(emitted[s]) + Count(Held(s))
          /\ Lines(emitted[s] \o Held(s)) = Lines(emitted[s]) \cup Lines(Held(s))
      BY <3>1, ConcatLines
    <3>3. /\ Count(Seen(s)) = Count(emitted[s] \o Held(s)) + Count(buf[s])
          /\ Lines(Seen(s)) = Lines(emitted[s] \o Held(s)) \cup Lines(buf[s])
      BY <3>1, <3>2, ConcatLines DEF Seen
    <3>4. Count(Seen(s)) = read[s]
      BY <3>2, <3>3 DEF StreamInv, Places, Counted
    <3>5. Lines(Seen(s)) = 1 .. read[s]
      BY <3>2, <3>3 DEF StreamInv, Places, Covered
    <3> QED
      BY <3>4, <3>5 DEF Count, Lines
  <2> QED
    BY <2>1 DEF LinesSentAsRead, StreamInv, Places, InOrder
<1> QED
  BY <1>1, StreamAlways, PTL

(* What the step goes on with is what was read of each stream, up to the budget, and nothing is  *)
(* marked as truncated that is not: for every budget, buffer and output.                         *)
THEOREM Captured ==
  StreamSpec => []CapturedAsRead
<1>1. StreamInv => CapturedAsRead
  BY DEF StreamInv, Waiting, Capturing, UpToBudget, CapturedAsRead, BothDone
<1> QED
  BY <1>1, StreamAlways, PTL

(* A step that returns leaves no task of the stream, and a flusher that ends no line unsent.     *)
THEOREM NothingLeft ==
  StreamSpec => []ReturnLeavesNothing
<1>1. StreamInv => ReturnLeavesNothing
  BY DEF StreamInv, Waiting, Flushing, ReturnLeavesNothing, Held
<1> QED
  BY <1>1, StreamAlways, PTL

HIDE StreamConstants

-----------------------------------------------------------------------------
(* The attempts. *)

(* A container that has been started. *)
Ran(n) == ctr[n] \in {"running"} \cup Exited

BeforeCreate == {"begin", "ps", "rmOld", "stage", "stageOutputs", "stageArtifacts", "pull",
   "create"}
BeforeStart == {"stage", "stageOutputs", "stageArtifacts", "pull", "create", "copy", "start"}
AfterStart == {"stream", "harvest", "rmTimeout", "remove"}

(* The list of copies is not used up before the container is started. *)
CopiesLeft == pc \in {"stageOutputs", "stageArtifacts", "pull", "create", "copy"} => todo # <<>>

(* Nothing is known of the attempts to come. *)
Fresh == \A n \in Attempts : n > attempt => ctr[n] = "none" /\ n \notin creating \cup
   removing \cup dirs \cup found

(* The attempt's own container, directories and requests, before it has any. *)
Early ==
  /\ pc \in BeforeCreate => ctr[attempt] = "none" /\ attempt \notin creating
  /\ pc \in {"begin", "ps", "rmOld", "stage"} => attempt \notin dirs
  /\ verdict = "none" => attempt \notin removing

Decided == pc \in {"harvest", "rmTimeout", "remove", "report", "ended"} => verdict # "none"

DirsRemoved ==
  (pc = "report" \/ (pc = "ended" /\ verdict \in {"ok", "failed", "timeout"})) => attempt
     \notin dirs

(* Without a fault, a container that was started is the current one, or about  *)
(* to be removed; and without a cancellation nothing is left to requests.      *)
Leftovers ==
  /\ faults = 0 => \A n \in Attempts : Ran(n) => n \in removing \/ (n = attempt /\ pc \in
     AfterStart)
  /\ faults = 0 /\ cancels = 0 => removing = {}

(* What OneRunning asks for: no fault, or one and no cancellation. *)
Calm == faults = 0 \/ (faults = 1 /\ cancels = 0)

(* The preflight cleanup has found whatever has run. *)
Alone ==
  Calm =>
    /\ \A m, n \in Attempts : ctr[m] = "running" /\ ctr[n] = "running" => m = n
    /\ pc \in BeforeStart => \A n \in Attempts : Ran(n) => n = attempt
    /\ pc = "rmOld" => \A n \in Attempts : Ran(n) => n \in found

Base == TypeOK /\ CopiesLeft /\ Fresh /\ Early /\ Decided
Inv == Base /\ DirsRemoved /\ Leftovers /\ Alone

USE ConstantsAssumption DEF Attempts, Exited, CtrStates, Copies, Verdicts, Preflight,
   Removals, Waits, Name, Mine

-----------------------------------------------------------------------------

LEMMA InitInv == Init => Inv
BY DEF Init, Inv, Base, TypeOK, CopiesLeft, Fresh, Early, Decided, DirsRemoved, Leftovers,
   Alone, Ran,
       BeforeCreate, BeforeStart, AfterStart

LEMMA TypeKept == TypeOK /\ CopiesLeft /\ [Next]_vars => (TypeOK /\ CopiesLeft)'
<1> SUFFICES ASSUME TypeOK /\ CopiesLeft, [Next]_vars PROVE (TypeOK /\ CopiesLeft)'
  OBVIOUS
<1> USE DEF TypeOK, CopiesLeft
<1>1. CASE Begin
  BY <1>1 DEF docker, Begin
<1>2. CASE PreflightList
  BY <1>2 DEF docker, PreflightList, Labelled
<1>3. CASE PreflightRemove
  BY <1>3 DEF docker, PreflightRemove, Remove
<1>4. CASE StageAttachments
  <2>1. <<"roots">> \in Seq(Copies) /\ <<"roots">> # <<>>
    OBVIOUS
  <2>2. <<"roots", "attachments">> \in Seq(Copies) /\ <<"roots", "attachments">> # <<>>
    OBVIOUS
  <2>3. todo' \in Seq(Copies) /\ (pc' = "stageOutputs" => todo' # <<>>)
    BY <1>4, <2>1, <2>2 DEF StageAttachments, Return
  <2> QED
    BY <1>4, <2>3 DEF docker, StageAttachments, Return
<1>5. CASE StageStepOutputs
  <2>1. Append(todo, "stepOutputs") \in Seq(Copies)
    OBVIOUS
  <2>2. Append(todo, "stepOutputs") # <<>>
    OBVIOUS
  <2>3. todo' \in Seq(Copies) /\ todo' # <<>>
    BY <1>5, <2>1, <2>2 DEF StageStepOutputs
  <2> QED
    BY <1>5, <2>3 DEF docker, StageStepOutputs
<1>6. CASE StageArtifacts
  <2>1. Append(todo, "artifacts") \in Seq(Copies)
    OBVIOUS
  <2>2. Append(todo, "artifacts") # <<>>
    OBVIOUS
  <2>3. todo' \in Seq(Copies) /\ todo' # <<>>
    BY <1>6, <2>1, <2>2 DEF StageArtifacts, Return
  <2> QED
    BY <1>6, <2>3 DEF docker, StageArtifacts, Return
<1>7. CASE Pull
  BY <1>7 DEF docker, Pull, Return, TimedOut
<1>8. CASE Create
  BY <1>8 DEF docker, Create, Becomes, Return, TimedOut
<1>9. CASE Copy
  <2>1. todo \in Seq(Copies) /\ todo # <<>>
    BY <1>9 DEF Copy
  <2>2. Tail(todo) \in Seq(Copies)
    BY <2>1, HeadTailProperties
  <2>3. todo' \in Seq(Copies) /\ (pc' = "copy" => todo' # <<>>)
    BY <1>9, <2>1, <2>2 DEF Copy, Return, TimedOut
  <2> QED
    BY <1>9, <2>3 DEF docker, Copy, Return, TimedOut
<1>10. CASE Start
  BY <1>10 DEF docker, Start, Return
<1>11. CASE Stream
  BY <1>11 DEF docker, Stream, Return
<1>12. CASE Harvest
  BY <1>12 DEF docker, Harvest
<1>13. CASE TimeoutRemove
  BY <1>13 DEF docker, TimeoutRemove, Remove
<1>14. CASE Cleanup
  BY <1>14 DEF docker, Cleanup, Remove
<1>15. CASE Report
  BY <1>15 DEF docker, Report
<1>16. CASE LateCreate
  BY <1>16 DEF docker, LateCreate
<1>17. CASE LateRemove
  BY <1>17 DEF docker, LateRemove, Remove
<1>18. CASE Exit
  BY <1>18 DEF docker, Exit
<1>19. CASE Cancel
  <2>1. creating' \subseteq Attempts /\ removing' \subseteq Attempts
    BY <1>19 DEF Cancel, Abandon
  <2>2. ctr' \in [Attempts -> CtrStates]
    BY <1>19 DEF Cancel, Abandon, Becomes
  <2> QED
    BY <1>19, <2>1, <2>2 DEF Cancel
<1>20. CASE WorkerLost
  <2>1. creating' \subseteq Attempts /\ removing' \subseteq Attempts
    BY <1>20 DEF WorkerLost, Abandon
  <2>2. ctr' \in [Attempts -> CtrStates]
    BY <1>20 DEF WorkerLost, Abandon, Becomes
  <2> QED
    BY <1>20, <2>1, <2>2 DEF WorkerLost
<1>21. CASE Retry
  BY <1>21 DEF docker, Retry
<1>22. CASE UNCHANGED vars
  BY <1>22 DEF docker, vars
<1> QED
  BY <1>1, <1>2, <1>3, <1>4, <1>5, <1>6, <1>7, <1>8, <1>9, <1>10, <1>11, <1>12, <1>13,
     <1>14, <1>15, <1>16, <1>17, <1>18, <1>19, <1>20, <1>21, <1>22 DEF Next, Handler, Late

LEMMA FreshKept == TypeOK /\ Fresh /\ [Next]_vars => Fresh'
<1> SUFFICES ASSUME TypeOK /\ Fresh, [Next]_vars PROVE Fresh'
  OBVIOUS
<1> USE DEF TypeOK, Fresh
<1>1. CASE Begin
  BY <1>1 DEF docker, Begin
<1>2. CASE PreflightList
  BY <1>2 DEF docker, PreflightList, Labelled
<1>3. CASE PreflightRemove
  BY <1>3 DEF docker, PreflightRemove, Remove
<1>4. CASE StageAttachments
  BY <1>4 DEF docker, StageAttachments, Return
<1>5. CASE StageStepOutputs
  BY <1>5 DEF docker, StageStepOutputs
<1>6. CASE StageArtifacts
  BY <1>6 DEF docker, StageArtifacts, Return
<1>7. CASE Pull
  BY <1>7 DEF docker, Pull, Return, TimedOut
<1>8. CASE Create
  BY <1>8 DEF docker, Create, Becomes, Return, TimedOut
<1>9. CASE Copy
  BY <1>9 DEF docker, Copy, Return, TimedOut
<1>10. CASE Start
  BY <1>10 DEF docker, Start, Return
<1>11. CASE Stream
  BY <1>11 DEF docker, Stream, Return
<1>12. CASE Harvest
  BY <1>12 DEF docker, Harvest
<1>13. CASE TimeoutRemove
  BY <1>13 DEF docker, TimeoutRemove, Remove
<1>14. CASE Cleanup
  BY <1>14 DEF docker, Cleanup, Remove
<1>15. CASE Report
  BY <1>15 DEF docker, Report
<1>16. CASE LateCreate
  BY <1>16 DEF docker, LateCreate
<1>17. CASE LateRemove
  BY <1>17 DEF docker, LateRemove, Remove
<1>18. CASE Exit
  BY <1>18 DEF docker, Exit
<1>19. CASE Cancel
  BY <1>19 DEF docker, Cancel, Abandon, Becomes
<1>20. CASE WorkerLost
  BY <1>20 DEF docker, WorkerLost, Abandon, Becomes
<1>21. CASE Retry
  BY <1>21 DEF docker, Retry
<1>22. CASE UNCHANGED vars
  BY <1>22 DEF docker, vars
<1> QED
  BY <1>1, <1>2, <1>3, <1>4, <1>5, <1>6, <1>7, <1>8, <1>9, <1>10, <1>11, <1>12, <1>13,
     <1>14, <1>15, <1>16, <1>17, <1>18, <1>19, <1>20, <1>21, <1>22 DEF Next, Handler, Late

LEMMA EarlyKept == TypeOK /\ Fresh /\ Early /\ [Next]_vars => Early'
<1> SUFFICES ASSUME TypeOK /\ Fresh /\ Early, [Next]_vars PROVE Early'
  OBVIOUS
<1> USE DEF TypeOK, Fresh, Early, BeforeCreate
<1>1. CASE Begin
  BY <1>1 DEF docker, Begin
<1>2. CASE PreflightList
  BY <1>2 DEF docker, PreflightList, Labelled
<1>3. CASE PreflightRemove
  BY <1>3 DEF docker, PreflightRemove, Remove
<1>4. CASE StageAttachments
  BY <1>4 DEF docker, StageAttachments, Return
<1>5. CASE StageStepOutputs
  BY <1>5 DEF docker, StageStepOutputs
<1>6. CASE StageArtifacts
  BY <1>6 DEF docker, StageArtifacts, Return
<1>7. CASE Pull
  BY <1>7 DEF docker, Pull, Return, TimedOut
<1>8. CASE Create
  BY <1>8 DEF docker, Create, Becomes, Return, TimedOut
<1>9. CASE Copy
  BY <1>9 DEF docker, Copy, Return, TimedOut
<1>10. CASE Start
  BY <1>10 DEF docker, Start, Return
<1>11. CASE Stream
  BY <1>11 DEF docker, Stream, Return
<1>12. CASE Harvest
  BY <1>12 DEF docker, Harvest
<1>13. CASE TimeoutRemove
  BY <1>13 DEF docker, TimeoutRemove, Remove
<1>14. CASE Cleanup
  BY <1>14 DEF docker, Cleanup, Remove
<1>15. CASE Report
  BY <1>15 DEF docker, Report
<1>16. CASE LateCreate
  BY <1>16 DEF docker, LateCreate
<1>17. CASE LateRemove
  BY <1>17 DEF docker, LateRemove, Remove
<1>18. CASE Exit
  BY <1>18 DEF docker, Exit
<1>19. CASE Cancel
  BY <1>19 DEF docker, Cancel, Abandon, Becomes
<1>20. CASE WorkerLost
  BY <1>20 DEF docker, WorkerLost, Abandon, Becomes
<1>21. CASE Retry
  BY <1>21 DEF docker, Retry
<1>22. CASE UNCHANGED vars
  BY <1>22 DEF docker, vars
<1> QED
  BY <1>1, <1>2, <1>3, <1>4, <1>5, <1>6, <1>7, <1>8, <1>9, <1>10, <1>11, <1>12, <1>13,
     <1>14, <1>15, <1>16, <1>17, <1>18, <1>19, <1>20, <1>21, <1>22 DEF Next, Handler, Late

LEMMA DecidedKept == TypeOK /\ Decided /\ [Next]_vars => Decided'
<1> SUFFICES ASSUME TypeOK /\ Decided, [Next]_vars PROVE Decided'
  OBVIOUS
<1> USE DEF TypeOK, Decided
<1>1. CASE Begin
  BY <1>1 DEF docker, Begin
<1>2. CASE PreflightList
  BY <1>2 DEF docker, PreflightList, Labelled
<1>3. CASE PreflightRemove
  BY <1>3 DEF docker, PreflightRemove, Remove
<1>4. CASE StageAttachments
  BY <1>4 DEF docker, StageAttachments, Return
<1>5. CASE StageStepOutputs
  BY <1>5 DEF docker, StageStepOutputs
<1>6. CASE StageArtifacts
  BY <1>6 DEF docker, StageArtifacts, Return
<1>7. CASE Pull
  BY <1>7 DEF docker, Pull, Return, TimedOut
<1>8. CASE Create
  BY <1>8 DEF docker, Create, Becomes, Return, TimedOut
<1>9. CASE Copy
  BY <1>9 DEF docker, Copy, Return, TimedOut
<1>10. CASE Start
  BY <1>10 DEF docker, Start, Return
<1>11. CASE Stream
  BY <1>11 DEF docker, Stream, Return
<1>12. CASE Harvest
  BY <1>12 DEF docker, Harvest
<1>13. CASE TimeoutRemove
  BY <1>13 DEF docker, TimeoutRemove, Remove
<1>14. CASE Cleanup
  BY <1>14 DEF docker, Cleanup, Remove
<1>15. CASE Report
  BY <1>15 DEF docker, Report
<1>16. CASE LateCreate
  BY <1>16 DEF docker, LateCreate
<1>17. CASE LateRemove
  BY <1>17 DEF docker, LateRemove, Remove
<1>18. CASE Exit
  BY <1>18 DEF docker, Exit
<1>19. CASE Cancel
  BY <1>19 DEF docker, Cancel, Abandon, Becomes
<1>20. CASE WorkerLost
  BY <1>20 DEF docker, WorkerLost, Abandon, Becomes
<1>21. CASE Retry
  BY <1>21 DEF docker, Retry
<1>22. CASE UNCHANGED vars
  BY <1>22 DEF docker, vars
<1> QED
  BY <1>1, <1>2, <1>3, <1>4, <1>5, <1>6, <1>7, <1>8, <1>9, <1>10, <1>11, <1>12, <1>13,
     <1>14, <1>15, <1>16, <1>17, <1>18, <1>19, <1>20, <1>21, <1>22 DEF Next, Handler, Late

LEMMA DirsRemovedKept == TypeOK /\ Fresh /\ Early /\ DirsRemoved /\ [Next]_vars => DirsRemoved'
<1> SUFFICES ASSUME TypeOK /\ Fresh /\ Early /\ DirsRemoved, [Next]_vars PROVE DirsRemoved'
  OBVIOUS
<1> USE DEF TypeOK, Early, DirsRemoved
<1>1. CASE Begin
  BY <1>1 DEF docker, Begin
<1>2. CASE PreflightList
  BY <1>2 DEF docker, PreflightList, Labelled
<1>3. CASE PreflightRemove
  BY <1>3 DEF docker, PreflightRemove, Remove
<1>4. CASE StageAttachments
  BY <1>4 DEF docker, StageAttachments, Return
<1>5. CASE StageStepOutputs
  BY <1>5 DEF docker, StageStepOutputs
<1>6. CASE StageArtifacts
  BY <1>6 DEF docker, StageArtifacts, Return
<1>7. CASE Pull
  BY <1>7 DEF docker, Pull, Return, TimedOut
<1>8. CASE Create
  BY <1>8 DEF docker, Create, Becomes, Return, TimedOut
<1>9. CASE Copy
  BY <1>9 DEF docker, Copy, Return, TimedOut
<1>10. CASE Start
  BY <1>10 DEF docker, Start, Return
<1>11. CASE Stream
  BY <1>11 DEF docker, Stream, Return
<1>12. CASE Harvest
  BY <1>12 DEF docker, Harvest
<1>13. CASE TimeoutRemove
  BY <1>13 DEF docker, TimeoutRemove, Remove
<1>14. CASE Cleanup
  BY <1>14 DEF docker, Cleanup, Remove
<1>15. CASE Report
  BY <1>15 DEF docker, Report
<1>16. CASE LateCreate
  BY <1>16 DEF docker, LateCreate
<1>17. CASE LateRemove
  BY <1>17 DEF docker, LateRemove, Remove
<1>18. CASE Exit
  BY <1>18 DEF docker, Exit
<1>19. CASE Cancel
  BY <1>19 DEF docker, Cancel, Abandon, Becomes
<1>20. CASE WorkerLost
  BY <1>20 DEF docker, WorkerLost, Abandon, Becomes
<1>21. CASE Retry
  BY <1>21 DEF docker, Retry
<1>22. CASE UNCHANGED vars
  BY <1>22 DEF docker, vars
<1> QED
  BY <1>1, <1>2, <1>3, <1>4, <1>5, <1>6, <1>7, <1>8, <1>9, <1>10, <1>11, <1>12, <1>13,
     <1>14, <1>15, <1>16, <1>17, <1>18, <1>19, <1>20, <1>21, <1>22 DEF Next, Handler, Late

LEMMA LeftoversKept == Base /\ Leftovers /\ [Next]_vars => Leftovers'
<1> SUFFICES ASSUME Base /\ Leftovers, [Next]_vars PROVE Leftovers'
  OBVIOUS
<1> USE DEF Base, TypeOK, Early, Leftovers, Ran, AfterStart, BeforeCreate
<1>1. CASE Begin
  BY <1>1 DEF docker, Begin
<1>2. CASE PreflightList
  BY <1>2 DEF docker, PreflightList, Labelled
<1>3. CASE PreflightRemove
  BY <1>3 DEF docker, PreflightRemove, Remove
<1>4. CASE StageAttachments
  BY <1>4 DEF docker, StageAttachments, Return
<1>5. CASE StageStepOutputs
  BY <1>5 DEF docker, StageStepOutputs
<1>6. CASE StageArtifacts
  BY <1>6 DEF docker, StageArtifacts, Return
<1>7. CASE Pull
  BY <1>7 DEF docker, Pull, Return, TimedOut
<1>8. CASE Create
  BY <1>8 DEF docker, Create, Becomes, Return, TimedOut
<1>9. CASE Copy
  BY <1>9 DEF docker, Copy, Return, TimedOut
<1>10. CASE Start
  BY <1>10 DEF docker, Start, Return
<1>11. CASE Stream
  BY <1>11 DEF docker, Stream, Return
<1>12. CASE Harvest
  BY <1>12 DEF docker, Harvest
<1>13. CASE TimeoutRemove
  BY <1>13 DEF docker, TimeoutRemove, Remove
<1>14. CASE Cleanup
  BY <1>14 DEF docker, Cleanup, Remove
<1>15. CASE Report
  BY <1>15 DEF docker, Report
<1>16. CASE LateCreate
  BY <1>16 DEF docker, LateCreate
<1>17. CASE LateRemove
  BY <1>17 DEF docker, LateRemove, Remove
<1>18. CASE Exit
  BY <1>18 DEF docker, Exit
<1>19. CASE Cancel
  BY <1>19 DEF docker, Cancel, Abandon, Becomes
<1>20. CASE WorkerLost
  BY <1>20 DEF docker, WorkerLost, Abandon, Becomes
<1>21. CASE Retry
  BY <1>21 DEF docker, Retry
<1>22. CASE UNCHANGED vars
  BY <1>22 DEF docker, vars
<1> QED
  BY <1>1, <1>2, <1>3, <1>4, <1>5, <1>6, <1>7, <1>8, <1>9, <1>10, <1>11, <1>12, <1>13,
     <1>14, <1>15, <1>16, <1>17, <1>18, <1>19, <1>20, <1>21, <1>22 DEF Next, Handler, Late

LEMMA AloneKept == Base /\ Leftovers /\ Alone /\ [Next]_vars => Alone'
<1> SUFFICES ASSUME Base /\ Leftovers /\ Alone, [Next]_vars PROVE Alone'
  OBVIOUS
<1> USE DEF Base, TypeOK, Early, Fresh, Leftovers, Alone, Calm, Ran, AfterStart,
   BeforeStart, BeforeCreate
<1>1. CASE Begin
  BY <1>1 DEF docker, Begin
<1>2. CASE PreflightList
  BY <1>2 DEF docker, PreflightList, Labelled
<1>3. CASE PreflightRemove
  BY <1>3 DEF docker, PreflightRemove, Remove
<1>4. CASE StageAttachments
  BY <1>4 DEF docker, StageAttachments, Return
<1>5. CASE StageStepOutputs
  BY <1>5 DEF docker, StageStepOutputs
<1>6. CASE StageArtifacts
  BY <1>6 DEF docker, StageArtifacts, Return
<1>7. CASE Pull
  BY <1>7 DEF docker, Pull, Return, TimedOut
<1>8. CASE Create
  BY <1>8 DEF docker, Create, Becomes, Return, TimedOut
<1>9. CASE Copy
  BY <1>9 DEF docker, Copy, Return, TimedOut
<1>10. CASE Start
  BY <1>10 DEF docker, Start, Return
<1>11. CASE Stream
  BY <1>11 DEF docker, Stream, Return
<1>12. CASE Harvest
  BY <1>12 DEF docker, Harvest
<1>13. CASE TimeoutRemove
  BY <1>13 DEF docker, TimeoutRemove, Remove
<1>14. CASE Cleanup
  BY <1>14 DEF docker, Cleanup, Remove
<1>15. CASE Report
  BY <1>15 DEF docker, Report
<1>16. CASE LateCreate
  BY <1>16 DEF docker, LateCreate
<1>17. CASE LateRemove
  BY <1>17 DEF docker, LateRemove, Remove
<1>18. CASE Exit
  BY <1>18 DEF docker, Exit
<1>19. CASE Cancel
  BY <1>19 DEF docker, Cancel, Abandon, Becomes
<1>20. CASE WorkerLost
  BY <1>20 DEF docker, WorkerLost, Abandon, Becomes
<1>21. CASE Retry
  BY <1>21 DEF docker, Retry
<1>22. CASE UNCHANGED vars
  BY <1>22 DEF docker, vars
<1> QED
  BY <1>1, <1>2, <1>3, <1>4, <1>5, <1>6, <1>7, <1>8, <1>9, <1>10, <1>11, <1>12, <1>13,
     <1>14, <1>15, <1>16, <1>17, <1>18, <1>19, <1>20, <1>21, <1>22 DEF Next, Handler, Late

(* The invariant is inductive. *)
LEMMA InvKept == Inv /\ [Next]_vars => Inv'
BY TypeKept, FreshKept, EarlyKept, DecidedKept, DirsRemovedKept, LeftoversKept, AloneKept
   DEF Inv, Base

THEOREM Invariance == Spec => []Inv
BY InitInv, InvKept, PTL DEF Spec

-----------------------------------------------------------------------------

(* The type invariant holds for any number of attempts, cancellations, faults. *)
THEOREM TypeCorrect == Spec => []TypeOK
<1>1. Inv => TypeOK
  BY DEF Inv, Base
<1> QED
  BY <1>1, Invariance, PTL

(* Two attempts never work at the same time while at most one thing has gone   *)
(* wrong, or any number of cancellations and no fault.                         *)
THEOREM OneAtATime == Spec => []OneRunning
<1>1. Inv => OneRunning
  <2> SUFFICES ASSUME Inv, faults = 0 \/ faults + cancels <= 1 PROVE Cardinality(Running) <= 1
    BY DEF OneRunning
  <2>1. Calm
    BY DEF Inv, Base, TypeOK, Calm
  <2>2. \A m, n \in Running : m = n
    BY <2>1 DEF Inv, Alone, Running
  <2>3. CASE Running = {}
    BY <2>3, FS_EmptySet
  <2>4. CASE Running # {}
    <3>1. PICK n : n \in Running
      BY <2>4
    <3>2. Running = {n}
      BY <2>2, <3>1
    <3>3. Cardinality(Running) = 1
      BY <3>2, FS_Singleton
    <3> QED
      BY <3>3
  <2> QED
    BY <2>3, <2>4
<1> QED
  BY <1>1, Invariance, PTL

(* Without a fault, a container left behind never ran. *)
THEOREM Leftover == Spec => []LeftoverNeverRan
<1>1. Inv => LeftoverNeverRan
  BY DEF Inv, Base, TypeOK, Leftovers, LeftoverNeverRan, Ran, AfterStart
<1> QED
  BY <1>1, Invariance, PTL

(* An attempt with a result of its own has removed its directories. *)
THEOREM DirectoriesRemoved == Spec => []StagingRemoved
<1>1. Inv => StagingRemoved
  BY DEF Inv, DirsRemoved, StagingRemoved
<1> QED
  BY <1>1, Invariance, PTL

LEMMA NotTaken == Inv /\ [Next]_vars => [(Mine = "running" /\ verdict = "none") =>
   ctr'[Name(attempt)] # "none"]_vars
<1> SUFFICES ASSUME Inv, [Next]_vars, Mine = "running", verdict = "none" PROVE
   ctr'[attempt] # "none"
  OBVIOUS
<1> USE DEF Inv, Base, TypeOK, Early, Decided, BeforeCreate
<1>1. CASE Begin
  BY <1>1 DEF docker, Begin
<1>2. CASE PreflightList
  BY <1>2 DEF docker, PreflightList, Labelled
<1>3. CASE PreflightRemove
  BY <1>3 DEF docker, PreflightRemove, Remove
<1>4. CASE StageAttachments
  BY <1>4 DEF docker, StageAttachments, Return
<1>5. CASE StageStepOutputs
  BY <1>5 DEF docker, StageStepOutputs
<1>6. CASE StageArtifacts
  BY <1>6 DEF docker, StageArtifacts, Return
<1>7. CASE Pull
  BY <1>7 DEF docker, Pull, Return, TimedOut
<1>8. CASE Create
  BY <1>8 DEF docker, Create, Becomes, Return, TimedOut
<1>9. CASE Copy
  BY <1>9 DEF docker, Copy, Return, TimedOut
<1>10. CASE Start
  BY <1>10 DEF docker, Start, Return
<1>11. CASE Stream
  BY <1>11 DEF docker, Stream, Return
<1>12. CASE Harvest
  BY <1>12 DEF docker, Harvest
<1>13. CASE TimeoutRemove
  BY <1>13 DEF docker, TimeoutRemove, Remove
<1>14. CASE Cleanup
  BY <1>14 DEF docker, Cleanup, Remove
<1>15. CASE Report
  BY <1>15 DEF docker, Report
<1>16. CASE LateCreate
  BY <1>16 DEF docker, LateCreate
<1>17. CASE LateRemove
  BY <1>17 DEF docker, LateRemove, Remove
<1>18. CASE Exit
  BY <1>18 DEF docker, Exit
<1>19. CASE Cancel
  BY <1>19 DEF docker, Cancel, Abandon, Becomes
<1>20. CASE WorkerLost
  BY <1>20 DEF docker, WorkerLost, Abandon, Becomes
<1>21. CASE Retry
  BY <1>21 DEF docker, Retry
<1>22. CASE UNCHANGED vars
  BY <1>22 DEF docker, vars
<1> QED
  BY <1>1, <1>2, <1>3, <1>4, <1>5, <1>6, <1>7, <1>8, <1>9, <1>10, <1>11, <1>12, <1>13,
     <1>14, <1>15, <1>16, <1>17, <1>18, <1>19, <1>20, <1>21, <1>22 DEF Next, Handler, Late

(* The container of an attempt at work is never taken from under it. *)
THEOREM NothingTaken == Spec => NotTakenAway
BY Invariance, NotTaken, PTL DEF Spec, NotTakenAway

=============================================================================
