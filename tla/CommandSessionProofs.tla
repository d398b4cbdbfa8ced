------------------------- MODULE CommandSessionProofs -------------------------
(***************************************************************************)
(* CommandSession for any devices and command lists: what a success, a     *)
(* save and a cancellation mean for the commands of the list.              *)
(***************************************************************************)
EXTENDS CommandSession, TLAPS

(* A command that need not have been carried out. *)
Exempt == {i \in Indices : Blank(i) \/ (ConfigSet /\ Framing(i)) \/ (transport = "netmiko"
   /\ i \in Post)}
Complete(d) == Indices \subseteq accepted[d] \cup Exempt

(* The devices that are done with: each has its commands or an error. *)
Behind ==
  /\ \A d \in Devices : d < dev /\ d \notin bad => Complete(d)
  /\ handler = "done" => dev > NDevices

(* Without a failure, what the session has not carried out is still to come. *)
Ahead ==
  handler = "await" /\ step \in {"config", "run", "close"} /\ ~Failed =>
    \A i \in Indices :
      \/ i \in accepted[dev] \cup Exempt
      \/ i \in todo /\ step # "close"
      \/ i \in Config /\ step = "config"

(* The commands behind the block run once all of it is in force. *)
Block == step = "run" /\ todo # {} => Config \subseteq accepted[dev]

(* A session belongs to its transport and its commands. *)
Proper ==
  /\ step = "config" => ConfigSet /\ Config # {}
  /\ todo \subseteq Post \cup Exec
  /\ step = "close" => todo = {}
  /\ handler \in {"next", "done"} => step = "idle"
  /\ handler = "await" => step # "idle"

(* With scrapli and asyncssh nothing has happened on a device before its block, *)
(* and a late block ends in a failure when something stands behind it.          *)
Asking == transport \in {"scrapli", "asyncssh"}
Untouched(d) == accepted[d] = {} /\ saved[d] = NotSaved /\ late[d] = {}
Coming(d) == d > dev \/ (d = dev /\ (handler = "next" \/ step \in {"connect", "config"}))
Lateness ==
  Asking =>
    /\ step = "config" => todo = Post
    /\ \A d \in Devices : Coming(d) => Untouched(d)
    /\ cancelled = "no" => \A d \in Devices : late[d] = {}
    /\ handler = "await" /\ step \in {"run", "close"} /\ late[dev] # {} /\ Post # {} =>
         Failed \/ (step = "run" /\ todo # {})

Inv ==
  TypeOK /\ Behind /\ Ahead /\ Block /\ Proper /\ SavedIsWhole /\ Lateness /\ LateBlockUnsaved

-----------------------------------------------------------------------------
(* The command list. *)

LEMMA Lists == ASSUME NEW cs \in CommandLists
               PROVE  cs \in Seq(Kinds) /\ cs # <<>> /\ NDevices \in Nat
BY ConstantsAssumption

LEMMA Parts == /\ Config \subseteq Indices /\ Post \subseteq Indices /\ Exec \subseteq Indices
               /\ Config # {} => ConfigSet
               /\ ConfigSet => Exec = {}
               /\ ~ConfigSet => Post = {}
BY DEF Config, Post, Exec

(* Each command has its place. *)
LEMMA Placed == Indices \subseteq Config \cup Post \cup Exec \cup Exempt
BY DEF Config, Post, Exec, Exempt, Dropped

(* The parts depend on the input alone. *)
LEMMA Same == ASSUME UNCHANGED input
              PROVE  /\ Indices' = Indices /\ Config' = Config /\ Post' = Post /\ Exec' = Exec
                     /\ Exempt' = Exempt /\ ConfigSet' = ConfigSet /\ transport' = transport
<1>1. transport' = transport /\ commands' = commands
  BY DEF input
<1>2. Indices' = Indices /\ ConfigSet' = ConfigSet
  BY <1>1 DEF ConfigSet, Indices
<1>3. \A i : InConfig(i)' = InConfig(i) /\ Dropped(i)' = Dropped(i) /\ Blank(i)' = Blank(i)
  BY <1>1 DEF InConfig, Dropped, Blank
<1>4. \A i : Framing(i)' = Framing(i)
  BY <1>1, <1>3 DEF Framing
<1>5. Config' = Config
  BY <1>1, <1>2, <1>3, <1>4 DEF Config
<1>6. Post' = Post
  BY <1>1, <1>2, <1>3, <1>4 DEF Post
<1>7. Exec' = Exec
  BY <1>2, <1>3 DEF Exec
<1>8. Exempt' = Exempt
  BY <1>1, <1>2, <1>3, <1>4, <1>6 DEF Exempt
<1> QED
  BY <1>1, <1>2, <1>5, <1>6, <1>7, <1>8

LEMMA Frozen == ASSUME [Next]_vars PROVE UNCHANGED input
BY DEF Next, Step, Session, NextDevice, Return, Flag, Sweep, CancelTask, Drop, Connect,
   NetmikoConfig,
       ScrapliConfig, NetmikoRun, ScrapliRun, AsyncsshRun, ShellRun, Close, input, vars

-----------------------------------------------------------------------------
(* Types, in groups the provers can take. *)

InputType ==
  /\ transport \in Transports /\ commands \in CommandLists /\ failFast \in BOOLEAN
  /\ homeless \subseteq Devices /\ rejected \subseteq Indices
DeviceType ==
  /\ accepted \in [Devices -> SUBSET Indices] /\ saved \in [Devices -> SUBSET (Indices \cup {0})]
  /\ late \in [Devices -> SUBSET Indices]
LoopType ==
  /\ handler \in {"next", "await", "done", "cancelled"}
  /\ dev \in 1 .. NDevices + 1 /\ bad \subseteq Devices
  /\ cancelled \in {"no", "flagged", "swept"}
SessionType ==
  /\ step \in {"idle", "connect", "config", "run", "close"} /\ conn \in {"none", "open", "closed"}
  /\ step # "idle" => dev \in Devices
  /\ todo \subseteq Indices
ResultsType == results \in [Indices -> Seq(Codes)]

LEMMA Types == TypeOK <=> InputType /\ DeviceType /\ LoopType /\ SessionType /\ ResultsType
BY DEF TypeOK, InputType, DeviceType, LoopType, SessionType, ResultsType

LEMMA TypesAgain ==
  ASSUME InputType', DeviceType', LoopType', SessionType', ResultsType' PROVE TypeOK'
BY DEF TypeOK, InputType, DeviceType, LoopType, SessionType, ResultsType

LEMMA InputKept == ASSUME InputType, UNCHANGED input PROVE InputType'
BY Same DEF InputType, input

-----------------------------------------------------------------------------
(* What a session does to its device. *)

Unsaved == \A d \in Devices : saved'[d] = saved[d]
Grown == \A d \in Devices : accepted[d] \subseteq accepted'[d]

LEMMA DoesGrows == ASSUME DeviceType, dev \in Devices, NEW S \in SUBSET Indices, Does(S)
                   PROVE  /\ accepted' \in [Devices -> SUBSET Indices] /\ Grown
                          /\ S \subseteq accepted'[dev]
BY DEF DeviceType, Does, Grown

LEMMA CarriesGrows == ASSUME DeviceType, dev \in Devices, NEW i \in Indices, Carries(i)
                      PROVE  /\ accepted' \in [Devices -> SUBSET Indices] /\ Grown
                             /\ saved' \in [Devices -> SUBSET (Indices \cup {0})]
                             /\ \A d \in Devices : saved'[d] = saved[d] \/ (d = dev /\
                                saved'[d] = accepted[d])
                             /\ Runs(i) => i \in accepted'[dev]
<1>1. Does(IF Runs(i) THEN {i} ELSE {}) /\ (IF Runs(i) THEN {i} ELSE {}) \in SUBSET Indices
  BY DEF Carries
<1>2. accepted' \in [Devices -> SUBSET Indices] /\ Grown /\ (IF Runs(i) THEN {i} ELSE {})
   \subseteq accepted'[dev]
  BY <1>1, DoesGrows
<1>3. saved' = saved \/ saved' = [saved EXCEPT ![dev] = accepted[dev]]
  BY DEF Carries
<1> QED
  BY <1>2, <1>3 DEF DeviceType

LEMMA StartsLate == ASSUME DeviceType, dev \in Devices, NEW S \in SUBSET Indices, Starts(S)
                    PROVE  /\ late' \in [Devices -> SUBSET Indices]
                           /\ cancelled = "no" => late' = late
BY DEF DeviceType, Starts

(* All that happens to the devices in one step. *)
Effect ==
  /\ DeviceType' /\ Grown
  /\ \A d \in Devices : saved'[d] = saved[d] \/ (d = dev /\ step = "run" /\ todo # {} /\
     saved'[d] = accepted[d])

LEMMA NoEffect == ASSUME DeviceType, UNCHANGED input, accepted' = accepted, saved' = saved,
   late' = late
                  PROVE  Effect
BY Same DEF DeviceType, Effect, Grown

(* One command: carried out or not, and started before the cancellation. *)
LEMMA OneEffect ==
  ASSUME DeviceType, UNCHANGED input, dev \in Devices, step = "run", NEW i \in Indices, IsNext(i),
         Carries(i) \/ Idle,
         NEW S \in SUBSET Indices, Starts(S)
  PROVE  Effect
<1>1. late' \in [Devices -> SUBSET Indices]
  BY StartsLate
<1>2. todo # {}
  BY DEF IsNext
<1>3. /\ accepted' \in [Devices -> SUBSET Indices] /\ Grown
      /\ saved' \in [Devices -> SUBSET (Indices \cup {0})]
      /\ \A d \in Devices : saved'[d] = saved[d] \/ (d = dev /\ saved'[d] = accepted[d])
  <2>1. CASE Idle
    BY <2>1 DEF Idle, devices, DeviceType, Grown
  <2> QED
    BY <2>1, CarriesGrows
<1> QED
  BY <1>1, <1>2, <1>3, Same DEF Effect, DeviceType

LEMMA BlockEffect ==
  ASSUME DeviceType, UNCHANGED input, dev \in Devices, NEW S \in SUBSET Indices, Does(S),
     saved' = saved,
         NEW T \in SUBSET Indices, Starts(T)
  PROVE  Effect
<1>1. late' \in [Devices -> SUBSET Indices]
  BY StartsLate
<1>2. accepted' \in [Devices -> SUBSET Indices] /\ Grown
  BY DoesGrows
<1> QED
  BY <1>1, <1>2, Same DEF Effect, DeviceType

LEMMA Effects == ASSUME DeviceType, SessionType, [Next]_vars PROVE Effect
<1>0. UNCHANGED input
  BY Frozen
<1> USE <1>0
<1>1. CASE NextDevice
  BY <1>1, NoEffect DEF NextDevice, devices
<1>2. CASE Return
  BY <1>2, NoEffect DEF Return, devices
<1>3. CASE Connect
  BY <1>3, NoEffect DEF Connect, devices
<1>4. CASE NetmikoConfig
  <2>1. dev \in Devices /\ saved' = saved /\ transport = "netmiko"
    BY <1>4 DEF NetmikoConfig, SessionType
  <2>2. \E S \in SUBSET Indices : Does(S)
    BY <1>4, Parts DEF NetmikoConfig
  <2>3. \E T \in SUBSET Indices : Starts(T)
    BY <1>4, Parts DEF NetmikoConfig
  <2> QED
    BY <2>1, <2>2, <2>3, BlockEffect
<1>5. CASE ScrapliConfig
  <2> DEFINE sent == {i \in Config : \A j \in Config \cap rejected : i <= j}
  <2>1. dev \in Devices /\ saved' = saved /\ sent \subseteq Config
    BY <1>5 DEF ScrapliConfig, SessionType
  <2>2. \E S \in SUBSET Indices : Does(S)
    BY <1>5, <2>1, Parts DEF ScrapliConfig
  <2>3. \E T \in SUBSET Config : Starts(T)
    BY <1>5, <2>1 DEF ScrapliConfig
  <2> QED
    BY <2>1, <2>2, <2>3, Parts, BlockEffect
<1>6. CASE NetmikoRun
  <2>1. dev \in Devices /\ step = "run"
    BY <1>6 DEF NetmikoRun, SessionType
  <2>2. CASE UNCHANGED <<devices, late>>
    BY <2>2, NoEffect DEF devices
  <2>3. CASE /\ \E i \in Indices : IsNext(i) /\ (Carries(i) \/ Idle)
             /\ \E S \in SUBSET Indices : Starts(S)
    BY <2>1, <2>3, OneEffect
  <2> QED
    BY <1>6, <2>2, <2>3 DEF NetmikoRun, Pass, Answered, Unanswered, Raises
<1>7. CASE ScrapliRun
  <2>1. dev \in Devices /\ step = "run"
    BY <1>7 DEF ScrapliRun, SessionType
  <2>2. CASE UNCHANGED <<devices, late>>
    BY <2>2, NoEffect DEF devices
  <2>3. CASE /\ \E i \in Indices : IsNext(i) /\ (Carries(i) \/ Idle)
             /\ \E S \in SUBSET Indices : Starts(S)
    BY <2>1, <2>3, OneEffect
  <2> QED
    BY <1>7, <2>2, <2>3 DEF ScrapliRun, Pass, Cancelled, Answered, Unanswered, Raises
<1>8. CASE AsyncsshRun
  <2>1. dev \in Devices /\ step = "run"
    BY <1>8 DEF AsyncsshRun, SessionType
  <2>2. CASE UNCHANGED <<devices, late>>
    BY <2>2, NoEffect DEF devices
  <2>3. CASE /\ \E i \in Indices : IsNext(i) /\ (Carries(i) \/ Idle)
             /\ \E S \in SUBSET Indices : Starts(S)
    BY <2>1, <2>3, OneEffect
  <2> QED
    BY <1>8, <2>2, <2>3 DEF AsyncsshRun, Pass, Cancelled, Answered, Unanswered, Raises
<1>9. CASE ShellRun
  <2>1. dev \in Devices /\ step = "run"
    BY <1>9 DEF ShellRun, SessionType
  <2>2. CASE UNCHANGED <<devices, late>>
    BY <2>2, NoEffect DEF devices
  <2>3. CASE /\ \E i \in Indices : IsNext(i) /\ (Carries(i) \/ Idle)
             /\ \E S \in SUBSET Indices : Starts(S)
    BY <2>1, <2>3, OneEffect
  <2> QED
    BY <1>9, <2>2, <2>3 DEF ShellRun, Pass, Answered, Unanswered, Raises
<1>10. CASE Close
  BY <1>10, NoEffect DEF Close, devices
<1>11. CASE Flag
  BY <1>11, NoEffect DEF Flag, devices
<1>12. CASE Sweep
  BY <1>12, NoEffect DEF Sweep, devices
<1>13. CASE CancelTask
  BY <1>13, NoEffect DEF CancelTask, devices
<1>14. CASE Drop
  BY <1>14, NoEffect DEF Drop, devices
<1>15. CASE UNCHANGED vars
  BY <1>15, NoEffect DEF vars
<1> QED
  BY <1>1, <1>2, <1>3, <1>4, <1>5, <1>6, <1>7, <1>8, <1>9, <1>10, <1>11, <1>12, <1>13,
     <1>14, <1>15 DEF Next, Step, Session

-----------------------------------------------------------------------------
(* The loop over the devices, and the session. *)

LEMMA LoopKept == ASSUME InputType, LoopType, SessionType, [Next]_vars PROVE LoopType'
<1>0. NDevices \in Nat
  BY Lists DEF InputType
<1> USE <1>0 DEF Devices
<1>1. CASE NextDevice
  <2>1. dev \in Devices /\ dev + 1 \in 1 .. NDevices + 1
    BY <1>1 DEF NextDevice, LoopType
  <2>2. bad' \in {bad, bad \cup {dev}} /\ dev' \in {dev, dev + 1} /\ handler' \in {handler,
     "await"} /\ cancelled' = cancelled
    BY <1>1 DEF NextDevice
  <2> QED
    BY <2>1, <2>2 DEF LoopType
<1>2. CASE Return
  BY <1>2 DEF LoopType, SessionType, Return, loop, session, input
<1>3. CASE Connect
  BY <1>3 DEF LoopType, SessionType, Connect, EndsAll, loop, session, input
<1>4. CASE NetmikoConfig
  BY <1>4 DEF LoopType, SessionType, NetmikoConfig, Report, loop, session, input
<1>5. CASE ScrapliConfig
  BY <1>5 DEF LoopType, SessionType, ScrapliConfig, EndsAll, loop, session, input
<1>6. CASE NetmikoRun
  BY <1>6 DEF LoopType, SessionType, NetmikoRun, Pass, Answered, Unanswered, Raises, Leaves,
     loop, session, input
<1>7. CASE ScrapliRun
  BY <1>7 DEF LoopType, SessionType, ScrapliRun, Pass, Cancelled, Answered, Unanswered,
     Raises, Leaves, EndsAll, loop, session, input
<1>8. CASE AsyncsshRun
  BY <1>8 DEF LoopType, SessionType, AsyncsshRun, Pass, Cancelled, Answered, Unanswered,
     Raises, Leaves, loop, session, input
<1>9. CASE ShellRun
  BY <1>9 DEF LoopType, SessionType, ShellRun, Pass, Answered, Raises, Leaves, loop, session, input
<1>10. CASE Close
  <2>1. dev \in Devices /\ dev + 1 \in 1 .. NDevices + 1
    BY <1>10 DEF Close, SessionType
  <2>2. bad' \in {bad, bad \cup {dev}} /\ dev' \in {dev, dev + 1} /\ handler' \in {handler,
     "next"} /\ cancelled' = cancelled
    BY <1>10 DEF Close
  <2> QED
    BY <2>1, <2>2 DEF LoopType
<1>11. CASE Flag
  BY <1>11 DEF LoopType, SessionType, Flag, loop, session, input
<1>12. CASE Sweep
  BY <1>12 DEF LoopType, SessionType, Sweep, loop, session, input
<1>13. CASE CancelTask
  BY <1>13 DEF LoopType, SessionType, CancelTask, loop, session, input
<1>14. CASE Drop
  BY <1>14 DEF LoopType, SessionType, Drop, loop, session, input
<1>15. CASE UNCHANGED vars
  BY <1>15 DEF LoopType, SessionType, vars, loop, session, input
<1> QED
  BY <1>1, <1>2, <1>3, <1>4, <1>5, <1>6, <1>7, <1>8, <1>9, <1>10, <1>11, <1>12, <1>13,
     <1>14, <1>15 DEF Next, Step, Session

LEMMA SessionKept == ASSUME InputType, LoopType, SessionType, Proper, [Next]_vars PROVE SessionType'
<1>0. UNCHANGED input
  BY Frozen
<1>00. Indices' = Indices
  BY <1>0, Same
<1> USE <1>00, Parts
<1>1. CASE NextDevice
  BY <1>1 DEF LoopType, SessionType, Proper, Devices, NextDevice, loop, session, input
<1>2. CASE Return
  BY <1>2 DEF LoopType, SessionType, Proper, Devices, Return, loop, session, input
<1>3. CASE Connect
  BY <1>3 DEF LoopType, SessionType, Proper, Devices, Connect, EndsAll, loop, session, input
<1>4. CASE NetmikoConfig
  BY <1>4 DEF LoopType, SessionType, Proper, Devices, NetmikoConfig, Report, loop, session, input
<1>5. CASE ScrapliConfig
  BY <1>5 DEF LoopType, SessionType, Proper, Devices, ScrapliConfig, EndsAll, loop, session, input
<1>6. CASE NetmikoRun
  BY <1>6 DEF LoopType, SessionType, Proper, Devices, NetmikoRun, Pass, Answered,
     Unanswered, Raises, Leaves, loop, session, input
<1>7. CASE ScrapliRun
  BY <1>7 DEF LoopType, SessionType, Proper, Devices, ScrapliRun, Pass, Cancelled, Answered,
     Unanswered, Raises, Leaves, EndsAll, loop, session, input
<1>8. CASE AsyncsshRun
  BY <1>8 DEF LoopType, SessionType, Proper, Devices, AsyncsshRun, Pass, Cancelled,
     Answered, Unanswered, Raises, Leaves, loop, session, input
<1>9. CASE ShellRun
  BY <1>9 DEF LoopType, SessionType, Proper, Devices, ShellRun, Pass, Answered, Raises,
     Leaves, loop, session, input
<1>10. CASE Close
  BY <1>10 DEF LoopType, SessionType, Proper, Devices, Close, loop, session, input
<1>11. CASE Flag
  BY <1>11 DEF LoopType, SessionType, Proper, Devices, Flag, loop, session, input
<1>12. CASE Sweep
  BY <1>12 DEF LoopType, SessionType, Proper, Devices, Sweep, loop, session, input
<1>13. CASE CancelTask
  BY <1>13 DEF LoopType, SessionType, Proper, Devices, CancelTask, loop, session, input
<1>14. CASE Drop
  BY <1>14 DEF LoopType, SessionType, Proper, Devices, Drop, loop, session, input
<1>15. CASE UNCHANGED vars
  BY <1>15 DEF LoopType, SessionType, Proper, Devices, vars, loop, session, input
<1> QED
  BY <1>1, <1>2, <1>3, <1>4, <1>5, <1>6, <1>7, <1>8, <1>9, <1>10, <1>11, <1>12, <1>13,
     <1>14, <1>15 DEF Next, Step, Session

LEMMA ProperKept == ASSUME LoopType, SessionType, Proper, [Next]_vars PROVE Proper'
<1>0. UNCHANGED input
  BY Frozen
<1>00. Config' = Config /\ Post' = Post /\ Exec' = Exec /\ ConfigSet' = ConfigSet
  BY <1>0, Same
<1> USE <1>00, Parts
<1>1. CASE NextDevice
  BY <1>1 DEF LoopType, SessionType, Proper, NextDevice, loop, session, input
<1>2. CASE Return
  BY <1>2 DEF LoopType, SessionType, Proper, Return, loop, session, input
<1>3. CASE Connect
  BY <1>3 DEF LoopType, SessionType, Proper, Connect, EndsAll, loop, session, input
<1>4. CASE NetmikoConfig
  BY <1>4 DEF LoopType, SessionType, Proper, NetmikoConfig, Report, loop, session, input
<1>5. CASE ScrapliConfig
  BY <1>5 DEF LoopType, SessionType, Proper, ScrapliConfig, EndsAll, loop, session, input
<1>6. CASE NetmikoRun
  BY <1>6 DEF LoopType, SessionType, Proper, NetmikoRun, Pass, Answered, Unanswered, Raises,
     Leaves, loop, session, input
<1>7. CASE ScrapliRun
  BY <1>7 DEF LoopType, SessionType, Proper, ScrapliRun, Pass, Cancelled, Answered,
     Unanswered, Raises, Leaves, EndsAll, loop, session, input
<1>8. CASE AsyncsshRun
  BY <1>8 DEF LoopType, SessionType, Proper, AsyncsshRun, Pass, Cancelled, Answered,
     Unanswered, Raises, Leaves, loop, session, input
<1>9. CASE ShellRun
  BY <1>9 DEF LoopType, SessionType, Proper, ShellRun, Pass, Answered, Raises, Leaves, loop,
     session, input
<1>10. CASE Close
  BY <1>10 DEF LoopType, SessionType, Proper, Close, loop, session, input
<1>11. CASE Flag
  BY <1>11 DEF LoopType, SessionType, Proper, Flag, loop, session, input
<1>12. CASE Sweep
  BY <1>12 DEF LoopType, SessionType, Proper, Sweep, loop, session, input
<1>13. CASE CancelTask
  BY <1>13 DEF LoopType, SessionType, Proper, CancelTask, loop, session, input
<1>14. CASE Drop
  BY <1>14 DEF LoopType, SessionType, Proper, Drop, loop, session, input
<1>15. CASE UNCHANGED vars
  BY <1>15 DEF LoopType, SessionType, Proper, vars, loop, session, input
<1> QED
  BY <1>1, <1>2, <1>3, <1>4, <1>5, <1>6, <1>7, <1>8, <1>9, <1>10, <1>11, <1>12, <1>13,
     <1>14, <1>15 DEF Next, Step, Session

-----------------------------------------------------------------------------
(* The results of the session. *)

Appended ==
  /\ results' = [i \in Indices |-> results'[i]]
  /\ \A i \in Indices : results'[i] = results[i] \/ \E c \in Codes : results'[i] =
     Append(results[i], c)

LEMMA AppendedType == ASSUME ResultsType, UNCHANGED input, Appended
                      PROVE  ResultsType' /\ (Failed => Failed')
<1>0. Indices' = Indices
  BY Same
<1>1. \A i \in Indices : results[i] \in Seq(Codes)
  BY DEF ResultsType
<1>2. \A i \in Indices : results'[i] \in Seq(Codes)
  <2> SUFFICES ASSUME NEW i \in Indices, NEW c \in Codes PROVE Append(results[i], c) \in Seq(Codes)
    BY <1>1 DEF Appended
  <2> QED
    BY <1>1
<1>3. ResultsType'
  BY <1>0, <1>2 DEF ResultsType, Appended
<1>4. ASSUME Failed PROVE Failed'
  <2>0. PICK i \in Indices : \E k \in DOMAIN results[i] : results[i][k] # 0
    BY <1>4 DEF Failed
  <2>1. PICK k \in DOMAIN results[i] : results[i][k] # 0
    BY <2>0
  <2>2. k \in DOMAIN results'[i] /\ results'[i][k] = results[i][k]
    <3>1. results[i] \in Seq(Codes)
      BY <1>1
    <3>2. ASSUME NEW c \in Codes
          PROVE  k \in DOMAIN Append(results[i], c) /\ Append(results[i], c)[k] = results[i][k]
      BY <2>1, <3>1
    <3> QED
      BY <2>1, <3>2 DEF Appended
  <2> QED
    BY <1>0, <2>1, <2>2 DEF Failed
<1> QED
  BY <1>3, <1>4

LEMMA Nonzero == ASSUME ResultsType, UNCHANGED input, NEW i \in Indices, NEW c \in Codes, c # 0,
                        results'[i] = Append(results[i], c)
                 PROVE  Failed'
<1>0. Indices' = Indices
  BY Same
<1>1. results[i] \in Seq(Codes)
  BY DEF ResultsType
<1>2. Len(results[i]) + 1 \in DOMAIN results'[i] /\ results'[i][Len(results[i]) + 1] = c
  BY <1>1
<1> QED
  BY <1>0, <1>2 DEF Failed

LEMMA Reports == ASSUME ResultsType, UNCHANGED input, NEW S, NEW c \in Codes, Report(S, c)
                 PROVE  Appended /\ (c # 0 /\ S \cap Indices # {} => Failed')
<1>1. Appended
  BY DEF Report, Appended
<1>2. ASSUME c # 0, NEW i \in S \cap Indices PROVE Failed'
  <2>1. results'[i] = Append(results[i], c)
    BY <1>2 DEF Report
  <2> QED
    BY <1>2, <2>1, Nonzero
<1> QED
  BY <1>1, <1>2

LEMMA OneFailed == ASSUME ResultsType, UNCHANGED input, NEW i \in Indices, Report({i}, -1)
   \/ Report({i}, 1)
                   PROVE  Failed'
<1>1. {i} \cap Indices # {} /\ -1 \in Codes /\ 1 \in Codes /\ -1 # 0 /\ 1 # 0
  BY DEF Codes
<1>2. CASE Report({i}, -1)
  BY <1>1, <1>2, Reports
<1>3. CASE Report({i}, 1)
  BY <1>1, <1>3, Reports
<1> QED
  BY <1>2, <1>3

LEMMA EndsFailed == ASSUME InputType, ResultsType, UNCHANGED input, EndsAll
                    PROVE  ResultsType' /\ Failed'
<1>0. Indices' = Indices
  BY Same
<1>1. 1 \in Indices
  BY Lists DEF InputType, Indices
<1>2. CASE transport = "netmiko"
  <2>1. Report(Indices, -1)
    BY <1>2 DEF EndsAll, Report
  <2> QED
    BY <1>1, <2>1, Reports, AppendedType DEF Codes
<1>3. CASE transport # "netmiko"
  <2>1. results' = [i \in Indices |-> <<-1>>]
    BY <1>3 DEF EndsAll
  <2>2. <<-1>> \in Seq(Codes)
    BY DEF Codes
  <2>3. ResultsType'
    BY <1>0, <2>1, <2>2 DEF ResultsType
  <2>4. 1 \in DOMAIN results'[1] /\ results'[1][1] # 0
    BY <1>1, <2>1
  <2> QED
    BY <1>0, <1>1, <2>3, <2>4 DEF Failed
<1> QED
  BY <1>2, <1>3

LEMMA KeepsResults == ASSUME ResultsType, UNCHANGED input, results' = results
                      PROVE  ResultsType' /\ (Failed => Failed')
<1>0. Indices' = Indices
  BY Same
<1> QED
  BY <1>0 DEF ResultsType, Failed

(* A failure is kept until the session is closed. *)
Told == ResultsType' /\ (Failed => Failed' \/ step' = "idle")

LEMMA ResultsKept == ASSUME InputType, ResultsType, [Next]_vars PROVE Told
<1>0. UNCHANGED input
  BY Frozen
<1> USE <1>0
<1>1. CASE NextDevice
  <2>1. results' = results
    BY <1>1 DEF NextDevice, session
  <2> QED
    BY <2>1, KeepsResults DEF Told
<1>2. CASE Return
  <2>1. results' = results
    BY <1>2 DEF Return, session
  <2> QED
    BY <2>1, KeepsResults DEF Told
<1>3. CASE Connect
  <2>1. CASE results' = results
    BY <2>1, KeepsResults DEF Told
  <2>2. CASE EndsAll
    BY <2>2, EndsFailed DEF Told
  <2> QED
    BY <1>3, <2>1, <2>2 DEF Connect
<1>4. CASE NetmikoConfig
  <2>1. Appended
    <3>1. CASE Report(Indices \ Post, -1)
      BY <3>1, Reports DEF Codes
    <3>2. CASE ~Report(Indices \ Post, -1)
      BY <1>4, <3>2 DEF NetmikoConfig, Appended, Codes
    <3> QED
      BY <3>1, <3>2
  <2> QED
    BY <2>1, AppendedType DEF Told
<1>5. CASE ScrapliConfig
  <2>1. CASE EndsAll
    BY <2>1, EndsFailed DEF Told
  <2>2. CASE ~EndsAll
    <3>1. Appended
      BY <1>5, <2>2 DEF ScrapliConfig, Appended, Codes
    <3> QED
      BY <3>1, AppendedType DEF Told
  <2> QED
    BY <2>1, <2>2
<1>6. CASE NetmikoRun
  <2>1. CASE EndsAll
    BY <2>1, EndsFailed DEF Told
  <2>2. CASE results' = results
    BY <2>2, KeepsResults DEF Told
  <2>3. CASE \E i \in Indices, c \in Codes : Report({i}, c)
    BY <2>3, Reports, AppendedType DEF Told
  <2> QED
    BY <1>6, <2>1, <2>2, <2>3 DEF NetmikoRun, Pass, Answered, Unanswered, Raises, Leaves, Codes
<1>7. CASE ScrapliRun
  <2>1. CASE EndsAll
    BY <2>1, EndsFailed DEF Told
  <2>2. CASE results' = results
    BY <2>2, KeepsResults DEF Told
  <2>3. CASE \E i \in Indices, c \in Codes : Report({i}, c)
    BY <2>3, Reports, AppendedType DEF Told
  <2> QED
    BY <1>7, <2>1, <2>2, <2>3 DEF ScrapliRun, Pass, Cancelled, Answered, Unanswered, Raises,
       Leaves, EndsAll, Codes
<1>8. CASE AsyncsshRun
  <2>1. CASE EndsAll
    BY <2>1, EndsFailed DEF Told
  <2>2. CASE results' = results
    BY <2>2, KeepsResults DEF Told
  <2>3. CASE \E i \in Indices, c \in Codes : Report({i}, c)
    BY <2>3, Reports, AppendedType DEF Told
  <2> QED
    BY <1>8, <2>1, <2>2, <2>3 DEF AsyncsshRun, Pass, Cancelled, Answered, Unanswered,
       Raises, Leaves, Codes
<1>9. CASE ShellRun
  <2>1. CASE EndsAll
    BY <2>1, EndsFailed DEF Told
  <2>2. CASE results' = results
    BY <2>2, KeepsResults DEF Told
  <2>3. CASE \E i \in Indices, c \in Codes : Report({i}, c)
    BY <2>3, Reports, AppendedType DEF Told
  <2> QED
    BY <1>9, <2>1, <2>2, <2>3 DEF ShellRun, Pass, Answered, Raises, Leaves, Codes
<1>10. CASE Close
  <2>1. Indices' = Indices /\ results' = [i \in Indices |-> <<>>] /\ step' = "idle"
    BY <1>10, Same DEF Close, None
  <2> QED
    BY <2>1 DEF Told, ResultsType
<1>11. CASE Flag
  <2>1. results' = results
    BY <1>11 DEF Flag, session
  <2> QED
    BY <2>1, KeepsResults DEF Told
<1>12. CASE Sweep
  <2>1. results' = results
    BY <1>12 DEF Sweep, session
  <2> QED
    BY <2>1, KeepsResults DEF Told
<1>13. CASE CancelTask
  <2>1. results' = results
    BY <1>13 DEF CancelTask, session
  <2> QED
    BY <2>1, KeepsResults DEF Told
<1>14. CASE Drop
  <2>1. results' = results
    BY <1>14 DEF Drop, session
  <2> QED
    BY <2>1, KeepsResults DEF Told
<1>15. CASE UNCHANGED vars
  <2>1. results' = results
    BY <1>15 DEF vars, session
  <2> QED
    BY <2>1, KeepsResults DEF Told
<1> QED
  BY <1>1, <1>2, <1>3, <1>4, <1>5, <1>6, <1>7, <1>8, <1>9, <1>10, <1>11, <1>12, <1>13,
     <1>14, <1>15 DEF Next, Step, Session

-----------------------------------------------------------------------------
(* What is behind the session, and what is ahead of it. *)

LEMMA CompleteGrows == ASSUME UNCHANGED input, Grown, NEW d \in Devices, Complete(d)
                       PROVE  Complete(d)'
BY Same DEF Grown, Complete

LEMMA BehindKept ==
  ASSUME InputType, LoopType, SessionType, Proper, Ahead, Behind, Grown, [Next]_vars PROVE Behind'
<1>0. UNCHANGED input /\ NDevices \in Nat
  BY Frozen, Lists DEF InputType
<1> SUFFICES /\ \A d \in Devices : d < dev' /\ d \notin bad' => Complete(d)
             /\ handler' = "done" => dev' > NDevices
  BY <1>0, CompleteGrows DEF Behind
<1> USE <1>0 DEF Behind
<1>1. CASE NextDevice
  <2>1. handler' # "done"
    BY <1>1 DEF NextDevice
  <2>2. CASE dev' = dev /\ bad' = bad
    BY <2>1, <2>2
  <2>3. CASE dev' = dev + 1 /\ bad' = bad \cup {dev}
    BY <2>1, <2>3 DEF LoopType, Devices
  <2> QED
    BY <1>1, <2>2, <2>3 DEF NextDevice
<1>2. CASE Return
  BY <1>2 DEF Return, loop
<1>3. CASE Connect
  BY <1>3 DEF Connect, loop
<1>4. CASE NetmikoConfig
  BY <1>4 DEF NetmikoConfig, loop
<1>5. CASE ScrapliConfig
  BY <1>5 DEF ScrapliConfig, loop
<1>6. CASE NetmikoRun
  BY <1>6 DEF NetmikoRun, loop
<1>7. CASE ScrapliRun
  BY <1>7 DEF ScrapliRun, loop
<1>8. CASE AsyncsshRun
  BY <1>8 DEF AsyncsshRun, loop
<1>9. CASE ShellRun
  BY <1>9 DEF ShellRun, loop
<1>10. CASE Close
  <2>1. CASE handler = "await" /\ ~Failed
    <3>1. Complete(dev) /\ dev' = dev + 1 /\ bad' = bad
      BY <1>10, <2>1, Parts DEF Close, Ahead, Proper, Complete
    <3> QED
      BY <1>10, <3>1 DEF Close, LoopType, Devices
  <2>2. CASE handler = "await" /\ Failed
    BY <1>10, <2>2 DEF Close, LoopType, Devices
  <2>3. CASE handler # "await"
    BY <1>10, <2>3 DEF Close
  <2> QED
    BY <2>1, <2>2, <2>3
<1>11. CASE Flag
  BY <1>11 DEF Flag, loop
<1>12. CASE Sweep
  BY <1>12 DEF Sweep, loop
<1>13. CASE CancelTask
  BY <1>13 DEF CancelTask, loop
<1>14. CASE Drop
  BY <1>14 DEF Drop, loop
<1>15. CASE UNCHANGED vars
  BY <1>15 DEF vars, loop
<1> QED
  BY <1>1, <1>2, <1>3, <1>4, <1>5, <1>6, <1>7, <1>8, <1>9, <1>10, <1>11, <1>12, <1>13,
     <1>14, <1>15 DEF Next, Step, Session

LEMMA BlockKept ==
  ASSUME DeviceType, SessionType, Proper, Block, Grown, [Next]_vars PROVE Block'
<1>0. UNCHANGED input
  BY Frozen
<1> SUFFICES ASSUME step' = "run", todo' # {} PROVE Config \subseteq accepted'[dev']
  BY <1>0, Same DEF Block
<1>1. CASE NextDevice
  BY <1>1 DEF NextDevice, session, Proper
<1>2. CASE Return
  BY <1>2 DEF Return, session, Proper
<1>3. CASE Connect
  BY <1>3, Parts DEF Connect, EndsAll
<1>4. CASE NetmikoConfig
  <2>1. dev' = dev /\ dev \in Devices
    BY <1>4 DEF NetmikoConfig, loop, SessionType
  <2>2. Config \cap rejected = {} /\ Does(Config \ rejected)
    BY <1>4 DEF NetmikoConfig
  <2>3. Config \ rejected \subseteq accepted'[dev]
    BY <2>1, <2>2, DoesGrows, Parts
  <2> QED
    BY <2>1, <2>2, <2>3
<1>5. CASE ScrapliConfig
  <2> DEFINE sent == {i \in Config : \A j \in Config \cap rejected : i <= j}
  <2>1. dev' = dev /\ dev \in Devices
    BY <1>5 DEF ScrapliConfig, loop, SessionType
  <2>2. Config \cap rejected = {} /\ Does(sent \ rejected)
    BY <1>5 DEF ScrapliConfig, EndsAll
  <2>3. sent \ rejected = Config
    BY <2>2
  <2>4. Config \subseteq accepted'[dev]
    BY <2>1, <2>2, <2>3, DoesGrows, Parts
  <2> QED
    BY <2>1, <2>4
<1>6. CASE NetmikoRun
  <2>1. dev' = dev /\ dev \in Devices /\ step = "run" /\ todo # {}
    BY <1>6 DEF NetmikoRun, Pass, Answered, Unanswered, Raises, Leaves, IsNext, loop, SessionType
  <2> QED
    BY <2>1 DEF Block, Grown
<1>7. CASE ScrapliRun
  <2>1. dev' = dev /\ dev \in Devices /\ step = "run" /\ todo # {}
    BY <1>7 DEF ScrapliRun, Pass, Cancelled, Answered, Unanswered, Raises, Leaves, EndsAll,
       IsNext, loop, SessionType
  <2> QED
    BY <2>1 DEF Block, Grown
<1>8. CASE AsyncsshRun
  <2>1. dev' = dev /\ dev \in Devices /\ step = "run" /\ todo # {}
    BY <1>8 DEF AsyncsshRun, Pass, Cancelled, Answered, Unanswered, Raises, Leaves, IsNext,
       loop, SessionType
  <2> QED
    BY <2>1 DEF Block, Grown
<1>9. CASE ShellRun
  <2>1. dev' = dev /\ dev \in Devices /\ step = "run" /\ todo # {}
    BY <1>9 DEF ShellRun, Pass, Answered, Raises, Leaves, IsNext, loop, SessionType
  <2> QED
    BY <2>1 DEF Block, Grown
<1>10. CASE Close
  BY <1>10 DEF Close
<1>11. CASE Flag
  <2>1. dev' = dev /\ step = "run" /\ todo # {}
    BY <1>11 DEF Flag, loop, session
  <2> QED
    BY <2>1 DEF Block, Grown, SessionType
<1>12. CASE Sweep
  <2>1. dev' = dev /\ step = "run" /\ todo # {}
    BY <1>12 DEF Sweep, loop, session
  <2> QED
    BY <2>1 DEF Block, Grown, SessionType
<1>13. CASE CancelTask
  <2>1. dev' = dev /\ step = "run" /\ todo # {}
    BY <1>13 DEF CancelTask, loop, session
  <2> QED
    BY <2>1 DEF Block, Grown, SessionType
<1>14. CASE Drop
  <2>1. dev' = dev /\ step = "run" /\ todo # {}
    BY <1>14 DEF Drop, loop, session
  <2> QED
    BY <2>1 DEF Block, Grown, SessionType
<1>15. CASE UNCHANGED vars
  <2>1. dev' = dev /\ step = "run" /\ todo # {}
    BY <1>15 DEF vars, loop, session
  <2> QED
    BY <2>1 DEF Block, Grown, SessionType
<1> QED
  BY <1>1, <1>2, <1>3, <1>4, <1>5, <1>6, <1>7, <1>8, <1>9, <1>10, <1>11, <1>12, <1>13,
     <1>14, <1>15 DEF Next, Step, Session

LEMMA AheadKept ==
  ASSUME InputType, DeviceType, LoopType, SessionType, ResultsType, Proper, Ahead, Grown,
     Told, [Next]_vars
  PROVE  Ahead'
<1>0. UNCHANGED input
  BY Frozen
<1> SUFFICES ASSUME handler' = "await", step' \in {"config", "run", "close"}, ~Failed'
             PROVE  \A i \in Indices :
                      \/ i \in accepted'[dev'] \cup Exempt
                      \/ i \in todo' /\ step' # "close"
                      \/ i \in Config /\ step' = "config"
  BY <1>0, Same DEF Ahead
<1> USE <1>0
<1>1. CASE NextDevice
  BY <1>1 DEF NextDevice, session, Proper
<1>2. CASE Return
  BY <1>2 DEF Return, session, Proper
<1>3. CASE Connect
  <2>1. todo' = (IF ConfigSet THEN Post ELSE Exec) /\ step' = (IF ConfigSet /\ Config # {}
     THEN "config" ELSE "run")
    BY <1>3, EndsFailed DEF Connect
  <2> QED
    BY <2>1, Placed, Parts
<1>4. CASE NetmikoConfig
  <2>1. dev' = dev /\ dev \in Devices /\ handler' = handler /\ step = "config" /\ step' =
     "run" /\ ~Failed
    BY <1>4 DEF NetmikoConfig, loop, SessionType, Told
  <2>2. PICK c \in Config : TRUE
    BY <2>1 DEF Proper
  <2>3. ~Report(Indices \ Post, -1)
    <3>1. c \in Indices \ Post
      BY <2>2 DEF Config, Post
    <3> QED
      BY <3>1, Reports DEF Codes
  <2>4. Config \cap rejected = {}
    <3> SUFFICES ASSUME NEW i \in Config \cap rejected PROVE FALSE
      OBVIOUS
    <3>1. results'[i] = Append(results[i], 1)
      BY <1>4, <2>3, Parts DEF NetmikoConfig
    <3> QED
      BY <3>1, Parts, Nonzero DEF Codes
  <2>5. Does(Config \ rejected) /\ todo' = todo
    BY <1>4, <2>3, <2>4 DEF NetmikoConfig
  <2>6. Config \subseteq accepted'[dev]
    BY <2>1, <2>4, <2>5, DoesGrows, Parts
  <2> QED
    BY <2>1, <2>5, <2>6 DEF Ahead, Grown
<1>5. CASE ScrapliConfig
  <2> DEFINE sent == {i \in Config : \A j \in Config \cap rejected : i <= j}
  <2>1. dev' = dev /\ dev \in Devices /\ handler' = handler /\ step = "config" /\ ~Failed
    BY <1>5 DEF ScrapliConfig, loop, SessionType, Told
  <2>2. ~EndsAll
    BY EndsFailed
  <2>4. Config \cap rejected = {}
    <3> SUFFICES ASSUME NEW i \in Config \cap rejected PROVE FALSE
      OBVIOUS
    <3>1. \E c \in {1, -1} : results'[i] = Append(results[i], c)
      BY <1>5, <2>2, Parts DEF ScrapliConfig
    <3> QED
      BY <3>1, Parts, Nonzero DEF Codes
  <2>5. Does(sent \ rejected) /\ todo' = todo /\ step' = "run" /\ sent \ rejected = Config
    BY <1>5, <2>2, <2>4 DEF ScrapliConfig
  <2>6. Config \subseteq accepted'[dev]
    BY <2>1, <2>5, DoesGrows, Parts
  <2> QED
    BY <2>1, <2>5, <2>6 DEF Ahead, Grown
<1>6. CASE NetmikoRun
  <2>1. dev' = dev /\ dev \in Devices /\ handler' = handler /\ step = "run" /\ ~Failed /\
     transport = "netmiko"
    BY <1>6 DEF NetmikoRun, loop, SessionType, Told
  <2>2. CASE Pass
    BY <2>1, <2>2 DEF Pass, Ahead, Grown
  <2>3. CASE \E i \in Indices : Answered(i, IF Runs(i) \/ i \in Post THEN 0 ELSE 1)
    <3>1. PICK i \in Indices : Answered(i, IF Runs(i) \/ i \in Post THEN 0 ELSE 1)
      BY <2>3
    <3>2. Report({i}, IF Runs(i) \/ i \in Post THEN 0 ELSE 1) /\ Carries(i) /\ todo' = todo
       \ {i} /\ step' = "run"
      BY <3>1 DEF Answered
    <3>3. Runs(i) \/ i \in Post
      BY <3>2, Reports DEF Codes
    <3>4. i \in accepted'[dev] \cup Exempt
      BY <2>1, <3>2, <3>3, CarriesGrows DEF Exempt
    <3> QED
      BY <2>1, <3>2, <3>4 DEF Ahead, Grown
  <2>4. CASE EndsAll \/ \E i \in Indices : Report({i}, -1) \/ Report({i}, 1)
    BY <2>4, EndsFailed, OneFailed
  <2> QED
    BY <1>6, <2>2, <2>3, <2>4 DEF NetmikoRun, Unanswered
<1>7. CASE ScrapliRun
  <2>1. dev' = dev /\ dev \in Devices /\ handler' = handler /\ step = "run" /\ ~Failed
    BY <1>7 DEF ScrapliRun, loop, SessionType, Told
  <2>2. CASE Pass
    BY <2>1, <2>2 DEF Pass, Ahead, Grown
  <2>3. CASE \E i \in Indices : Answered(i, IF Runs(i) THEN 0 ELSE 1)
    <3>1. PICK i \in Indices : Answered(i, IF Runs(i) THEN 0 ELSE 1)
      BY <2>3
    <3>2. Report({i}, IF Runs(i) THEN 0 ELSE 1) /\ Carries(i) /\ todo' = todo \ {i} /\ step' = "run"
      BY <3>1 DEF Answered
    <3>3. Runs(i)
      BY <3>2, Reports DEF Codes
    <3>4. i \in accepted'[dev] \cup Exempt
      BY <2>1, <3>2, <3>3, CarriesGrows DEF Exempt
    <3> QED
      BY <2>1, <3>2, <3>4 DEF Ahead, Grown
  <2>4. CASE EndsAll \/ \E i \in Indices : Report({i}, -1) \/ Report({i}, 1)
    BY <2>4, EndsFailed, OneFailed
  <2> QED
    BY <1>7, <2>2, <2>3, <2>4 DEF ScrapliRun, Cancelled, Unanswered
<1>8. CASE AsyncsshRun
  <2>1. dev' = dev /\ dev \in Devices /\ handler' = handler /\ step = "run" /\ ~Failed
    BY <1>8 DEF AsyncsshRun, loop, SessionType, Told
  <2>2. CASE Pass
    BY <2>1, <2>2 DEF Pass, Ahead, Grown
  <2>3. CASE \E i \in Indices : Answered(i, IF Runs(i) THEN 0 ELSE 1)
    <3>1. PICK i \in Indices : Answered(i, IF Runs(i) THEN 0 ELSE 1)
      BY <2>3
    <3>2. Report({i}, IF Runs(i) THEN 0 ELSE 1) /\ Carries(i) /\ todo' = todo \ {i} /\ step' = "run"
      BY <3>1 DEF Answered
    <3>3. Runs(i)
      BY <3>2, Reports DEF Codes
    <3>4. i \in accepted'[dev] \cup Exempt
      BY <2>1, <3>2, <3>3, CarriesGrows DEF Exempt
    <3> QED
      BY <2>1, <3>2, <3>4 DEF Ahead, Grown
  <2>4. CASE EndsAll \/ \E i \in Indices : Report({i}, -1) \/ Report({i}, 1)
    BY <2>4, EndsFailed, OneFailed
  <2> QED
    BY <1>8, <2>2, <2>3, <2>4 DEF AsyncsshRun, Cancelled, Unanswered
<1>9. CASE ShellRun
  <2>1. dev' = dev /\ dev \in Devices /\ handler' = handler /\ step = "run" /\ ~Failed
    BY <1>9 DEF ShellRun, loop, SessionType, Told
  <2>2. CASE Pass
    BY <2>1, <2>2 DEF Pass, Ahead, Grown
  <2>3. CASE \E i \in Indices : Answered(i, IF Runs(i) THEN 0 ELSE 1)
    <3>1. PICK i \in Indices : Answered(i, IF Runs(i) THEN 0 ELSE 1)
      BY <2>3
    <3>2. Report({i}, IF Runs(i) THEN 0 ELSE 1) /\ Carries(i) /\ todo' = todo \ {i} /\ step' = "run"
      BY <3>1 DEF Answered
    <3>3. Runs(i)
      BY <3>2, Reports DEF Codes
    <3>4. i \in accepted'[dev] \cup Exempt
      BY <2>1, <3>2, <3>3, CarriesGrows DEF Exempt
    <3> QED
      BY <2>1, <3>2, <3>4 DEF Ahead, Grown
  <2>4. CASE EndsAll \/ \E i \in Indices : Report({i}, -1) \/ Report({i}, 1)
    BY <2>4, EndsFailed, OneFailed
  <2> QED
    BY <1>9, <2>2, <2>3, <2>4 DEF ShellRun
<1>10. CASE Close
  BY <1>10 DEF Close, session, Proper
<1>11. CASE Flag
  <2>1. handler' = handler /\ step' = step /\ todo' = todo /\ dev' = dev /\ ~Failed
    BY <1>11 DEF Flag, loop, session, Told
  <2> QED
    BY <2>1 DEF Ahead, Grown, SessionType
<1>12. CASE Sweep
  <2>1. handler' = handler /\ step' = step /\ todo' = todo /\ dev' = dev /\ ~Failed
    BY <1>12 DEF Sweep, loop, session, Told
  <2> QED
    BY <2>1 DEF Ahead, Grown, SessionType
<1>13. CASE CancelTask
  BY <1>13 DEF CancelTask, session, Proper
<1>14. CASE Drop
  <2>1. handler' = handler /\ step' = step /\ todo' = todo /\ dev' = dev /\ ~Failed
    BY <1>14 DEF Drop, loop, session, Told
  <2> QED
    BY <2>1 DEF Ahead, Grown, SessionType
<1>15. CASE UNCHANGED vars
  <2>1. handler' = handler /\ step' = step /\ todo' = todo /\ dev' = dev /\ ~Failed
    BY <1>15 DEF vars, loop, session, Told
  <2> QED
    BY <2>1 DEF Ahead, Grown, SessionType
<1> QED
  BY <1>1, <1>2, <1>3, <1>4, <1>5, <1>6, <1>7, <1>8, <1>9, <1>10, <1>11, <1>12, <1>13,
     <1>14, <1>15 DEF Next, Step, Session

-----------------------------------------------------------------------------
(* What is started after the cancellation. *)

(* The rest of the devices are as they were. *)
Elsewhere ==
  \A d \in Devices \ {dev} :
    accepted'[d] = accepted[d] /\ saved'[d] = saved[d] /\ late'[d] = late[d]

(* Where nothing happens to a device, what was late stays what it was. *)
LEMMA LateQuiet ==
  ASSUME InputType, LoopType, Asking, Lateness, LateBlockUnsaved, UNCHANGED input,
         UNCHANGED <<accepted, saved, late>>,
         cancelled' = "no" => cancelled = "no",
         step' = "config" => todo' = Post,
         dev' \in {dev, dev + 1}, dev' = dev + 1 => handler' = "next",
         \A d \in Devices : Coming(d)' => Coming(d),
         dev' # dev => bad' = bad \cup {dev} \/ late[dev] = {} \/ Post = {},
         bad \subseteq bad',
         handler' = "await" /\ step' \in {"run", "close"} /\ late[dev'] # {} /\ Post # {} =>
           Failed' \/ (step' = "run" /\ todo' # {})
  PROVE  Lateness' /\ LateBlockUnsaved'
<1>1. NDevices \in Nat
  BY Lists DEF InputType
<1>2. Asking' /\ Post' = Post /\ Config' = Config
  BY Same DEF Asking
<1>3. \A d \in Devices : Coming(d)' => Untouched(d)'
  BY DEF Lateness, Untouched
<1>4. Lateness'
  BY <1>2, <1>3 DEF Lateness
<1>5. \A d \in Devices : d < dev' => d < dev \/ (d = dev /\ dev' # dev)
  BY <1>1 DEF Devices, LoopType
<1>6. LateBlockUnsaved'
  BY <1>2, <1>5 DEF LateBlockUnsaved, Asking
<1> QED
  BY <1>4, <1>6

(* A command that is run one by one is run before the cancellation. *)
LEMMA LateCommand ==
  ASSUME InputType, DeviceType, LoopType, SessionType, ResultsType, Proper, Asking, Lateness,
         LateBlockUnsaved, UNCHANGED input, UNCHANGED <<loop, cancelled>>, step = "run",
         cancelled = "no", step' \in {"run", "close"},
         NEW i \in Indices, Carries(i) \/ Idle, NEW S \in SUBSET Indices, Starts(S)
  PROVE  Lateness' /\ LateBlockUnsaved'
<1>0. dev \in Devices /\ handler # "next" /\ UNCHANGED <<dev, handler, bad>>
  BY DEF SessionType, Proper, loop
<1>1. late' = late /\ \A d \in Devices : late[d] = {}
  BY <1>0, StartsLate DEF Lateness
<1>2. Elsewhere
  BY <1>1 DEF Elsewhere, Carries, Does, Idle, devices, DeviceType
<1>3. \A d \in Devices : Coming(d)' => Coming(d) /\ d # dev
  BY <1>0 DEF Coming, Devices, LoopType
<1>4. \A d \in Devices : Coming(d)' => Untouched(d)'
  BY <1>2, <1>3 DEF Lateness, Untouched, Elsewhere
<1>5. Asking' /\ Post' = Post /\ Config' = Config
  BY Same DEF Asking
<1> QED
  BY <1>0, <1>1, <1>4, <1>5 DEF Lateness, LateBlockUnsaved

(* The block is the first thing that happens to its device. *)
LEMMA LateBlock ==
  ASSUME InputType, DeviceType, LoopType, SessionType, ResultsType, Proper, Lateness,
         LateBlockUnsaved, UNCHANGED input, ScrapliConfig
  PROVE  Lateness' /\ LateBlockUnsaved'
<1> DEFINE sent == {i \in Config : \A j \in Config \cap rejected : i <= j}
<1>0. /\ dev \in Devices /\ handler # "next" /\ UNCHANGED <<dev, handler, bad, cancelled>>
      /\ Asking /\ step = "config" /\ Untouched(dev) /\ sent \subseteq Config
  BY DEF ScrapliConfig, SessionType, Proper, loop, Asking, Lateness, Coming
<1>1. /\ saved' = saved /\ step' \in {"run", "close"}
      /\ \E S, T \in SUBSET sent : Does(S) /\ Starts(T) /\ S \subseteq T
  <2>1. CASE conn = "open"
    <3>1. Starts(sent)
      BY <2>1 DEF ScrapliConfig
    <3>2. \E S \in SUBSET sent : Does(S)
      BY <2>1 DEF ScrapliConfig
    <3>3. saved' = saved /\ step' \in {"run", "close"}
      BY DEF ScrapliConfig, EndsAll
    <3> QED
      BY <3>1, <3>2, <3>3
  <2>2. CASE conn # "open"
    <3>1. Does({}) /\ Starts({})
      BY <2>2 DEF ScrapliConfig
    <3> QED
      BY <2>2, <3>1 DEF ScrapliConfig, EndsAll
  <2> QED
    BY <2>1, <2>2
<1>2. Elsewhere
  BY <1>0, <1>1 DEF Elsewhere, Does, Starts, DeviceType
<1>3. /\ late'[dev] \subseteq Config
      /\ cancelled # "no" => accepted'[dev] \subseteq late'[dev]
      /\ cancelled = "no" => late' = late
  BY <1>0, <1>1 DEF Does, Starts, DeviceType, Untouched
<1>4. \A d \in Devices : Coming(d)' => Coming(d) /\ d # dev
  BY <1>0, <1>1 DEF Coming, Devices, LoopType
<1>5. Asking' /\ Post' = Post /\ Config' = Config
  BY <1>0, Same DEF Asking
<1>6. \A d \in Devices : Coming(d)' => Untouched(d)'
  BY <1>0, <1>2, <1>4 DEF Lateness, Untouched, Elsewhere
<1>7. Post # {} => Failed' \/ (step' = "run" /\ todo' # {})
  <2>1. CASE EndsAll
    BY <2>1, EndsFailed
  <2>2. CASE ~EndsAll /\ Config \cap rejected # {}
    <3>1. PICK i \in Config \cap rejected : TRUE
      BY <2>2
    <3>2. \E c \in {1, -1} : results'[i] = Append(results[i], c)
      BY <2>2, <3>1, Parts DEF ScrapliConfig
    <3> QED
      BY <3>1, <3>2, Parts, Nonzero DEF Codes
  <2>3. CASE ~EndsAll /\ Config \cap rejected = {}
    BY <1>0, <2>3 DEF ScrapliConfig, Lateness
  <2> QED
    BY <2>1, <2>2, <2>3
<1>8. Lateness'
  BY <1>0, <1>1, <1>3, <1>5, <1>6, <1>7 DEF Lateness
<1>9. LateBlockUnsaved'
  <2> SUFFICES ASSUME NEW d \in Devices, late'[d] # {}
               PROVE  /\ accepted'[d] \subseteq late'[d] /\ late'[d] \subseteq Config
                      /\ saved'[d] = NotSaved
                      /\ d < dev' /\ Post # {} => d \in bad'
    BY <1>5 DEF LateBlockUnsaved
  <2>1. CASE d = dev
    <3>1. cancelled # "no"
      BY <1>0, <1>3, <2>1 DEF Untouched
    <3>2. ~(d < dev')
      BY <1>0, <2>1 DEF LoopType, Devices
    <3> QED
      BY <1>0, <1>1, <1>3, <2>1, <3>1, <3>2 DEF Untouched
  <2>2. CASE d # dev
    BY <1>0, <1>2, <2>2 DEF Elsewhere, LateBlockUnsaved, Asking
  <2> QED
    BY <2>1, <2>2
<1> QED
  BY <1>8, <1>9

LEMMA LateKept ==
  ASSUME InputType, DeviceType, LoopType, SessionType, ResultsType, Proper, Lateness,
         LateBlockUnsaved, Told, [Next]_vars
  PROVE  Lateness' /\ LateBlockUnsaved'
<1>0. UNCHANGED input /\ NDevices \in Nat
  BY Frozen, Lists DEF InputType
<1>00. CASE ~Asking
  BY <1>0, <1>00, Same DEF Lateness, LateBlockUnsaved, Asking
<1> SUFFICES ASSUME Asking PROVE Lateness' /\ LateBlockUnsaved'
  BY <1>00
<1> USE <1>0
<1>1. CASE NextDevice
  <2>0. step = "idle" /\ dev \in Devices /\ late[dev] = {}
    BY <1>1 DEF NextDevice, Proper, Lateness, Coming, Untouched, LoopType, Devices
  <2>1. /\ UNCHANGED <<accepted, saved, late, todo, cancelled>>
        /\ \/ dev' = dev /\ bad' = bad /\ step' = "connect"
           \/ dev' = dev + 1 /\ bad' = bad \cup {dev} /\ step' = step /\ handler' = handler
    BY <1>1 DEF NextDevice, devices
  <2>2. \A d \in Devices : Coming(d)' => Coming(d)
    BY <1>1, <2>1 DEF NextDevice, Coming, LoopType, Devices
  <2> QED
    BY <1>1, <2>0, <2>1, <2>2, LateQuiet DEF NextDevice, LoopType, Devices
<1>2. CASE Return
  <2>1. \A d \in Devices : Coming(d)' => Coming(d)
    BY <1>2 DEF Return, Coming, session
  <2> QED
    BY <1>2, <2>1, LateQuiet DEF Return, session, devices, Proper, LoopType, Devices
<1>3. CASE Connect
  <2>1. \A d \in Devices : Coming(d)' => Coming(d)
    BY <1>3 DEF Connect, Coming, loop
  <2>2. handler # "next" /\ late[dev] = {}
    BY <1>3 DEF Connect, Proper, Lateness, Coming, Untouched, SessionType
  <2>3. step' = "config" => todo' = Post
    BY <1>3 DEF Connect, EndsAll
  <2> QED
    BY <1>3, <2>1, <2>2, <2>3, LateQuiet DEF Connect, loop, devices, LoopType
<1>4. CASE NetmikoConfig \/ NetmikoRun \/ ShellRun
  BY <1>4 DEF NetmikoConfig, NetmikoRun, ShellRun, Asking
<1>5. CASE ScrapliConfig
  BY <1>5, LateBlock
\* What the two run actions have in common: a command, a refusal, the end.
<1>6. ASSUME step = "run", UNCHANGED <<loop, cancelled>>, step' \in {"run", "close"},
             UNCHANGED <<devices, late>>, Pass \/ Failed'
      PROVE  Lateness' /\ LateBlockUnsaved'
  <2>1. dev' = dev /\ handler' = handler /\ bad' = bad /\ handler # "next"
    BY <1>6 DEF loop, Proper
  <2>2. \A d \in Devices : Coming(d)' => Coming(d)
    BY <1>6, <2>1 DEF Coming
  <2>3. handler' = "await" /\ late[dev'] # {} /\ Post # {} =>
          Failed' \/ (step' = "run" /\ todo' # {})
    <3>1. CASE Pass
      BY <1>6, <2>1, <3>1 DEF Pass, Lateness, Told
    <3> QED
      BY <1>6, <3>1
  <2> QED
    BY <1>6, <2>1, <2>2, <2>3, LateQuiet DEF devices, LoopType
<1>7. CASE ScrapliRun
  <2>1. step = "run" /\ UNCHANGED <<loop, cancelled>> /\ step' \in {"run", "close"}
    BY <1>7 DEF ScrapliRun, Pass, Cancelled, Answered, Unanswered, EndsAll
  <2>2. CASE Pass
    BY <1>6, <2>1, <2>2 DEF Pass
  <2>3. CASE \E i \in Indices : Cancelled(i)
    BY <1>6, <2>1, <2>3, OneFailed DEF Cancelled
  <2>4. CASE /\ cancelled = "no"
             /\ \E i \in Indices : Carries(i) \/ Idle
             /\ \E S \in SUBSET Indices : Starts(S)
    BY <2>1, <2>4, LateCommand
  <2> QED
    BY <1>7, <2>2, <2>3, <2>4 DEF ScrapliRun, Answered, Unanswered, Raises
<1>8. CASE AsyncsshRun
  <2>1. step = "run" /\ UNCHANGED <<loop, cancelled>> /\ step' \in {"run", "close"}
    BY <1>8 DEF AsyncsshRun, Pass, Cancelled, Answered, Unanswered
  <2>2. CASE Pass
    BY <1>6, <2>1, <2>2 DEF Pass
  <2>3. CASE \E i \in Indices : Cancelled(i)
    BY <1>6, <2>1, <2>3, OneFailed DEF Cancelled
  <2>4. CASE /\ cancelled = "no"
             /\ \E i \in Indices : Carries(i) \/ Idle
             /\ \E S \in SUBSET Indices : Starts(S)
    BY <2>1, <2>4, LateCommand
  <2> QED
    BY <1>8, <2>2, <2>3, <2>4 DEF AsyncsshRun, Answered, Unanswered, Raises
<1>9. CASE Close
  <2>1. CASE handler = "await"
    <3>1. /\ dev' = dev + 1 /\ handler' = "next" /\ step' = "idle" /\ step = "close"
          /\ bad' = IF Failed THEN bad \cup {dev} ELSE bad
      BY <1>9, <2>1 DEF Close
    <3>2. late[dev] = {} \/ Post = {} \/ Failed
      BY <2>1, <3>1 DEF Lateness
    <3>3. \A d \in Devices : Coming(d)' => Coming(d)
      BY <3>1 DEF Coming, LoopType, Devices
    <3> QED
      BY <1>9, <3>1, <3>2, <3>3, LateQuiet DEF Close, devices
  <2>2. CASE handler # "await"
    <3>1. UNCHANGED <<dev, handler, bad>> /\ step' = "idle" /\ step = "close"
      BY <1>9, <2>2 DEF Close
    <3>2. \A d \in Devices : Coming(d)' => Coming(d)
      BY <3>1 DEF Coming
    <3> QED
      BY <1>9, <3>1, <3>2, LateQuiet DEF Close, devices, LoopType
  <2> QED
    BY <2>1, <2>2
<1>10. CASE CancelTask
  <2>1. /\ UNCHANGED <<dev, bad, cancelled, accepted, saved, late>>
        /\ handler' = "cancelled" /\ step' = "close"
    BY <1>10 DEF CancelTask, devices, Asking
  <2>2. \A d \in Devices : Coming(d)' => Coming(d)
    BY <2>1 DEF Coming
  <2> QED
    BY <2>1, <2>2, LateQuiet DEF LoopType
\* Nothing of the handler and its session moves.
<1>11. CASE Flag \/ Sweep \/ Drop \/ UNCHANGED vars
  <2>1. /\ UNCHANGED <<dev, handler, bad, step, todo, accepted, saved, late, results>>
        /\ cancelled' = "no" => cancelled = "no"
    BY <1>11 DEF Flag, Sweep, Drop, vars, loop, session, devices
  <2>2. \A d \in Devices : Coming(d)' => Coming(d)
    BY <2>1 DEF Coming
  <2>3. Failed => Failed'
    BY <2>1, KeepsResults
  <2>4. step' = "config" => todo' = Post
    BY <2>1 DEF Lateness
  <2>5. handler' = "await" /\ step' \in {"run", "close"} /\ late[dev'] # {} /\ Post # {} =>
          Failed' \/ (step' = "run" /\ todo' # {})
    BY <2>1, <2>3 DEF Lateness
  <2> QED
    BY <2>1, <2>2, <2>4, <2>5, LateQuiet DEF LoopType
<1> QED
  BY <1>1, <1>2, <1>3, <1>4, <1>5, <1>7, <1>8, <1>9, <1>10, <1>11 DEF Next, Step, Session

-----------------------------------------------------------------------------

LEMMA InitInv == Init => Inv
<1> SUFFICES ASSUME Init PROVE Inv
  OBVIOUS
<1>1. InputType
  BY DEF Init, InputType
<1>2. NDevices \in Nat
  BY <1>1, Lists DEF InputType
<1>3. DeviceType
  BY DEF Init, DeviceType, NotSaved
<1>4. LoopType
  BY <1>2 DEF Init, LoopType
<1>5. SessionType
  BY DEF Init, SessionType
<1>6. ResultsType
  <2>1. <<>> \in Seq(Codes)
    OBVIOUS
  <2> QED
    BY <2>1 DEF Init, ResultsType, None
<1>7. TypeOK
  BY <1>1, <1>3, <1>4, <1>5, <1>6, Types
<1>8. Behind
  BY <1>2 DEF Init, Behind, Devices
<1>9. Ahead /\ Block /\ Proper
  BY DEF Init, Ahead, Block, Proper
<1>10. SavedIsWhole /\ LateBlockUnsaved
  BY DEF Init, SavedIsWhole, LateBlockUnsaved
<1>11. Lateness
  BY <1>2 DEF Init, Lateness, Untouched
<1> QED
  BY <1>7, <1>8, <1>9, <1>10, <1>11 DEF Inv

LEMMA InvKept == Inv /\ [Next]_vars => Inv'
<1> SUFFICES ASSUME Inv, [Next]_vars PROVE Inv'
  OBVIOUS
<1>0. UNCHANGED input
  BY Frozen
<1>1. InputType /\ DeviceType /\ LoopType /\ SessionType /\ ResultsType
  BY Types DEF Inv
<1>2. Proper /\ Behind /\ Ahead /\ Block /\ SavedIsWhole /\ Lateness /\ LateBlockUnsaved
  BY DEF Inv
<1>3. Effect
  BY <1>1, Effects
<1>4. DeviceType' /\ Grown
  BY <1>3 DEF Effect
<1>5. Told
  BY <1>1, ResultsKept
<1>6. InputType' /\ LoopType' /\ SessionType' /\ ResultsType'
  BY <1>0, <1>1, <1>2, <1>5, InputKept, LoopKept, SessionKept DEF Told
<1>7. TypeOK'
  BY <1>4, <1>6, TypesAgain
<1>8. Proper' /\ Behind' /\ Block' /\ Ahead'
  BY <1>1, <1>2, <1>4, <1>5, ProperKept, BehindKept, BlockKept, AheadKept
<1>9. SavedIsWhole'
  <2> SUFFICES ASSUME NEW d \in Devices, saved'[d] # NotSaved PROVE Config \subseteq saved'[d]
    BY <1>0, Same DEF SavedIsWhole
  <2>1. CASE saved'[d] = saved[d]
    BY <1>2, <2>1 DEF SavedIsWhole
  <2>2. CASE d = dev /\ step = "run" /\ todo # {} /\ saved'[d] = accepted[d]
    BY <1>2, <2>2 DEF Block
  <2> QED
    BY <1>3, <2>1, <2>2 DEF Effect
<1>10. Lateness' /\ LateBlockUnsaved'
  BY <1>1, <1>2, <1>5, LateKept
<1> QED
  BY <1>7, <1>8, <1>9, <1>10 DEF Inv

THEOREM Invariance == Spec => []Inv
BY InitInv, InvKept, PTL DEF Spec

-----------------------------------------------------------------------------

(* The type invariant holds for any devices and command lists. *)
THEOREM TypeCorrect == Spec => []TypeOK
<1>1. Inv => TypeOK
  BY DEF Inv
<1> QED
  BY <1>1, Invariance, PTL

(* A step that succeeds has had every command of its list carried out on every *)
(* device, those netmiko runs behind a configuration block apart.              *)
THEOREM Success == Spec => []SuccessIsComplete
<1>1. Inv => SuccessIsComplete
  <2> SUFFICES ASSUME Inv, handler = "done", bad = {}, NEW d \in Devices, NEW i \in Indices
               PROVE  i \in accepted[d] \cup Exempt
    BY DEF SuccessIsComplete, Exempt
  <2>1. NDevices \in Nat /\ dev \in Nat
    BY Lists DEF Inv, TypeOK
  <2>2. d < dev
    BY <2>1 DEF Inv, Behind, Devices
  <2> QED
    BY <2>2 DEF Inv, Behind, Complete
<1> QED
  BY <1>1, Invariance, PTL

(* A device saves its configuration only with the whole block in force. *)
THEOREM Saves == Spec => []SavedIsWhole
<1>1. Inv => SavedIsWhole
  BY DEF Inv
<1> QED
  BY <1>1, Invariance, PTL

(* What scrapli and asyncssh start after the cancellation is a configuration   *)
(* block: alone on its device and unsaved, and the device is not taken for     *)
(* done while something stands behind the block.                               *)
THEOREM Cancellation == Spec => []LateBlockUnsaved
<1>1. Inv => LateBlockUnsaved
  BY DEF Inv
<1> QED
  BY <1>1, Invariance, PTL

=============================================================================
