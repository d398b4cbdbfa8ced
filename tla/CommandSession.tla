---------------------------- MODULE CommandSession ----------------------------
(***************************************************************************)
(* netcli.execute and netcli.collect_evidence over the execute_commands of *)
(* the three transports, and shell.execute over the host's shell: one      *)
(* session per device runs the commands of the step, a configuration block *)
(* as a whole and the rest one by one, while the host may cancel the step  *)
(* and connections break.                                                  *)
(*                                                                         *)
(* A command is what the code tells apart: what opens and closes the       *)
(* configuration mode, a line of configuration, a save, a show command.    *)
(***************************************************************************)
EXTENDS Integers, Sequences, FiniteSets

CONSTANTS
  NDevices,     \* target devices, in order
  CommandLists  \* the lists a step may carry

Kinds == {"conf", "end", "exit", "set", "write", "show", "blank"}

\* Only a list that begins with it speaks of the configuration mode; a step
\* without target devices fails before any of this.
ASSUME ConstantsAssumption ==
  /\ NDevices \in Nat \ {0}
  /\ \A cs \in CommandLists :
       /\ cs \in Seq(Kinds) /\ cs # <<>>
       /\ cs[1] # "conf" => \A i \in DOMAIN cs : cs[i] \notin {"conf", "end", "exit"}

VARIABLES
  transport,  \* "shell" is the host's, of shell.execute
  commands,
  failFast,   \* fail_fast of shell.execute
  homeless,   \* devices without mgmt_host
  rejected,   \* commands the devices refuse
  \* devices
  accepted,   \* commands each device has carried out
  saved,      \* what each device had carried out when it last saved, if it did
  \* handler
  handler,
  dev,        \* current device
  bad,        \* devices with an entry in device_errors
  \* session of the current device
  step,
  conn,
  todo,       \* commands still to be run one by one
  results,    \* exit codes reported of each command
  \* host
  cancelled,  \* the registry: not cancelled, flagged, connections closed
  late        \* commands started after the cancellation, for each device

input == <<transport, commands, failFast, homeless, rejected>>
devices == <<accepted, saved>>
loop == <<handler, dev, bad>>
session == <<step, conn, todo, results>>
vars == <<transport, commands, failFast, homeless, rejected, accepted, saved, handler, dev, bad,
          step, conn, todo, results, cancelled, late>>

Devices == 1 .. NDevices
Indices == DOMAIN commands
Transports == {"netmiko", "scrapli", "asyncssh", "shell"}
Servers == {"asyncssh", "shell"}
Codes == {0, 1, -1}
None == [i \in Indices |-> <<>>]
NotSaved == {0}

-----------------------------------------------------------------------------
(* The split of a configuration set. *)

ConfigSet == transport \notin Servers /\ commands[1] = "conf"
\* Any end or exit closes the block for the code, also the exit of a submode.
InConfig(i) ==
  \E j \in 1 .. i - 1 : commands[j] = "conf" /\ \A k \in j + 1 .. i - 1 : commands[k] \notin {"end", "exit"}
Framing(i) == commands[i] = "conf" \/ (commands[i] \in {"end", "exit"} /\ InConfig(i))
Blank(i) == commands[i] = "blank"
Dropped(i) == Blank(i) /\ transport \in {"scrapli", "asyncssh"}
Config == {i \in Indices : ConfigSet /\ ~Framing(i) /\ ~Dropped(i) /\ InConfig(i) /\ commands[i] # "write"}
Post == {i \in Indices : ConfigSet /\ ~Framing(i) /\ ~Dropped(i) /\ (InConfig(i) => commands[i] = "write")}
Exec == {i \in Indices : ~ConfigSet /\ ~Dropped(i)}

-----------------------------------------------------------------------------
(* The devices. *)

\* A command the device carries out outside the configuration mode.
Runs(i) ==
  i \notin rejected /\ (transport \in Servers \/ commands[i] \in {"show", "write", "blank"})
Does(S) == accepted' = [accepted EXCEPT ![dev] = @ \cup S]
Carries(i) ==
  /\ Does(IF Runs(i) THEN {i} ELSE {})
  /\ saved' = IF Runs(i) /\ commands[i] = "write" THEN [saved EXCEPT ![dev] = accepted[dev]] ELSE saved
Idle == UNCHANGED devices
Starts(S) == late' = IF cancelled = "no" THEN late ELSE [late EXCEPT ![dev] = @ \cup S]

-----------------------------------------------------------------------------
(* The session. *)

Report(S, code) == results' = [i \in Indices |-> IF i \in S THEN Append(results[i], code) ELSE results[i]]

\* An exception no inner handler takes: one failed result per command, in
\* place of the earlier ones with scrapli and asyncssh.
EndsAll ==
  /\ results' = [i \in Indices |-> IF transport = "netmiko" THEN Append(results[i], -1) ELSE <<-1>>]
  /\ todo' = {} /\ step' = "close"

\* An open connection is registered at once; netmiko may then fail to enable.
Connect ==
  /\ step = "connect"
  /\ \/ /\ conn' = "open"
        /\ todo' = IF ConfigSet THEN Post ELSE Exec
        /\ step' = IF ConfigSet /\ Config # {} THEN "config" ELSE "run"
        /\ results' = results
     \/ conn' \in (IF transport = "netmiko" THEN {"none", "open"} ELSE {"none"}) /\ EndsAll
  /\ UNCHANGED <<input, devices, loop, cancelled, late>>

\* Slip: lines that could not be sent count as no failure.
NetmikoConfigUnfailed ==
  /\ transport = "netmiko" /\ step = "config"
  /\ \/ /\ conn = "open"
        /\ Does(Config \ rejected) /\ saved' = saved /\ Starts(Config)
        /\ todo' = IF Config \cap rejected = {} THEN todo ELSE {}
        /\ results' = [i \in Indices |->
             IF i \in Config THEN Append(results[i], IF Config \cap rejected = {} THEN 0 ELSE 1)
             ELSE IF commands[i] \in {"conf", "end", "exit"} THEN Append(results[i], 0)
             ELSE results[i]]
     \/ /\ \E S \in SUBSET (IF conn = "open" THEN Config \ rejected ELSE {}) : Does(S)
        /\ saved' = saved
        /\ Starts(IF conn = "open" THEN Config ELSE {})
        /\ todo' = todo
        /\ Report(Indices \ Post, -1)
  /\ step' = "run"
  /\ UNCHANGED <<input, loop, conn, cancelled>>

\* send_config_set sends every line, also behind one that is rejected; an error
\* text anywhere fails all of them.  If it raises, any of them may be in force.
\* Every end and exit is reported here, those of the post commands too.
NetmikoConfig ==
  /\ transport = "netmiko" /\ step = "config"
  /\ \/ /\ conn = "open"
        /\ Does(Config \ rejected) /\ saved' = saved /\ Starts(Config)
        /\ todo' = IF Config \cap rejected = {} THEN todo ELSE {}
        /\ results' = [i \in Indices |->
             IF i \in Config THEN Append(results[i], IF Config \cap rejected = {} THEN 0 ELSE 1)
             ELSE IF commands[i] \in {"conf", "end", "exit"} THEN Append(results[i], 0)
             ELSE results[i]]
     \/ /\ \E S \in SUBSET (IF conn = "open" THEN Config \ rejected ELSE {}) : Does(S)
        /\ saved' = saved
        /\ Starts(IF conn = "open" THEN Config ELSE {})
        /\ todo' = {}
        /\ Report(Indices \ Post, -1)
  /\ step' = "run"
  /\ UNCHANGED <<input, loop, conn, cancelled>>

\* send_configs stops at the first line that is rejected, and the lines behind
\* it are reported as skipped.
ScrapliConfig ==
  /\ transport = "scrapli" /\ step = "config"
  /\ LET sent == {i \in Config : \A j \in Config \cap rejected : i <= j} IN
     \/ /\ conn = "open"
        /\ Does(sent \ rejected) /\ saved' = saved /\ Starts(sent)
        /\ results' = [i \in Indices |->
             IF i \notin Config THEN results[i]
             ELSE Append(results[i], IF i \notin sent THEN -1 ELSE IF i \in rejected THEN 1 ELSE 0)]
        /\ todo' = IF Config \cap rejected = {} THEN todo ELSE {}
        /\ step' = "run"
     \/ /\ \E n \in 0 .. Cardinality(sent) :
             Does({i \in sent \ rejected : conn = "open" /\ Cardinality({j \in sent : j <= i}) <= n})
        /\ saved' = saved
        /\ Starts(IF conn = "open" THEN sent ELSE {})
        /\ EndsAll
  /\ UNCHANGED <<input, loop, conn, cancelled>>

IsNext(i) == i \in todo /\ \A j \in todo : i <= j
Pass == todo = {} /\ step' = "close" /\ UNCHANGED <<devices, conn, todo, results, late>>

\* The exit of the exec mode ends the session.
Leaves(i) == conn' = IF commands[i] = "exit" /\ transport \notin Servers THEN "closed" ELSE conn
Answered(i, code) ==
  /\ conn = "open"
  /\ Carries(i) /\ Leaves(i) /\ Starts({i})
  /\ Report({i}, code) /\ todo' = todo \ {i} /\ step' = "run"
\* No answer, or the connection is gone: the device may have carried it out.
Raises(i) ==
  /\ Idle \/ (conn = "open" /\ Carries(i))
  /\ Leaves(i) /\ Starts(IF conn = "open" THEN {i} ELSE {})
Unanswered(i) == Raises(i) /\ Report({i}, -1) /\ todo' = todo \ {i} /\ step' = "run"

\* netmiko never asks whether the step was cancelled, and looks for error
\* texts only outside a configuration set.
NetmikoRun ==
  /\ transport = "netmiko" /\ step = "run"
  /\ \/ Pass
     \/ \E i \in Indices : IsNext(i) /\ (Answered(i, IF Runs(i) \/ i \in Post THEN 0 ELSE 1) \/ Unanswered(i))
  /\ UNCHANGED <<input, loop, cancelled>>

Cancelled(i) == cancelled # "no" /\ Report({i}, -1) /\ todo' = {} /\ step' = "run" /\ UNCHANGED <<devices, conn, late>>

\* Slip: a cancelled step runs on.
ScrapliRunOn ==
  /\ transport = "scrapli" /\ step = "run"
  /\ \/ Pass
     \/ \E i \in Indices : IsNext(i) /\
          \/ Answered(i, IF Runs(i) THEN 0 ELSE 1)
          \/ Unanswered(i)
  /\ UNCHANGED <<input, loop, cancelled>>

\* A post command that raises discards the results of the whole block.
ScrapliRun ==
  /\ transport = "scrapli" /\ step = "run"
  /\ \/ Pass
     \/ \E i \in Indices : IsNext(i) /\
          \/ Cancelled(i)
          \/ /\ cancelled = "no"
             /\ \/ Answered(i, IF Runs(i) THEN 0 ELSE 1)
                \/ i \in Exec /\ Unanswered(i)
                \/ i \in Post /\ Raises(i) /\ EndsAll
  /\ UNCHANGED <<input, loop, cancelled>>

\* Slip: a cancelled command has no result.
AsyncsshRunSilent ==
  /\ transport = "asyncssh" /\ step = "run"
  /\ \/ Pass
     \/ cancelled # "no" /\ todo' = {} /\ step' = "run" /\ UNCHANGED <<devices, conn, results, late>>
     \/ \E i \in Indices : IsNext(i) /\ cancelled = "no" /\
          (Answered(i, IF Runs(i) THEN 0 ELSE 1) \/ Unanswered(i))
  /\ UNCHANGED <<input, loop, cancelled>>

\* Slip: no time limit for a command.
AsyncsshRunUnlimited ==
  /\ transport = "asyncssh" /\ step = "run"
  /\ \/ Pass
     \/ \E i \in Indices : IsNext(i) /\
          (Cancelled(i) \/ (cancelled = "no" /\ Answered(i, IF Runs(i) THEN 0 ELSE 1)))
  /\ UNCHANGED <<input, loop, cancelled>>

AsyncsshRun ==
  /\ transport = "asyncssh" /\ step = "run"
  /\ \/ Pass
     \/ \E i \in Indices : IsNext(i) /\
          \/ Cancelled(i)
          \/ cancelled = "no" /\ (Answered(i, IF Runs(i) THEN 0 ELSE 1) \/ Unanswered(i))
  /\ UNCHANGED <<input, loop, cancelled>>

\* The first exception ends the session, and with fail_fast the first failure.
ShellRun ==
  /\ transport = "shell" /\ step = "run"
  /\ \/ Pass
     \/ \E i \in Indices : IsNext(i) /\
          \/ /\ Answered(i, IF Runs(i) THEN 0 ELSE 1)
             /\ Runs(i) \/ ~failFast
          \/ /\ conn = "open" /\ ~Runs(i) /\ failFast
             /\ Idle /\ conn' = conn /\ Starts({i})
             /\ Report({i}, 1) /\ todo' = {} /\ step' = "run"
          \/ Raises(i) /\ Report({i}, -1) /\ todo' = {} /\ step' = "run"
  /\ UNCHANGED <<input, loop, cancelled>>

Failed == \E i \in Indices : \E k \in DOMAIN results[i] : results[i][k] # 0

\* The connection is closed and the handler judges the results, unless it has
\* been cancelled and netmiko's thread has gone on alone.
Close ==
  /\ step = "close"
  /\ step' = "idle" /\ conn' = "none" /\ results' = None
  /\ IF handler = "await"
     THEN /\ bad' = IF Failed THEN bad \cup {dev} ELSE bad
          /\ dev' = dev + 1 /\ handler' = "next"
     ELSE UNCHANGED <<bad, dev, handler>>
  /\ UNCHANGED <<input, devices, todo, cancelled, late>>

-----------------------------------------------------------------------------
(* The handler and the host. *)

\* services.connect raises if the host cannot make a transport.
NextDevice ==
  /\ handler = "next" /\ dev <= NDevices
  /\ \/ /\ dev \in homeless
        /\ bad' = bad \cup {dev} /\ dev' = dev + 1
        /\ UNCHANGED <<step, handler>>
     \/ /\ dev \notin homeless
        /\ \/ handler' = "await" /\ step' = "connect" /\ UNCHANGED <<bad, dev>>
           \/ bad' = bad \cup {dev} /\ dev' = dev + 1 /\ UNCHANGED <<handler, step>>
  /\ UNCHANGED <<input, devices, conn, todo, results, cancelled, late>>

Return ==
  /\ handler = "next" /\ dev > NDevices
  /\ handler' = "done"
  /\ UNCHANGED <<input, devices, dev, bad, session, cancelled, late>>

Flag ==
  /\ cancelled = "no" /\ (handler \in {"next", "await"})
  /\ cancelled' = "flagged"
  /\ UNCHANGED <<input, devices, loop, session, late>>

\* The connections that are registered are closed; the shell's is not.
Sweep ==
  /\ cancelled = "flagged"
  /\ cancelled' = "swept"
  /\ conn' = IF conn = "open" /\ transport # "shell" THEN "closed" ELSE conn
  /\ UNCHANGED <<input, devices, loop, step, todo, results, late>>

\* The handler's coroutine is cancelled; all but netmiko's session end with it.
CancelTask ==
  /\ cancelled # "no" /\ handler = "await"
  /\ handler' = "cancelled"
  /\ IF transport = "netmiko" THEN UNCHANGED <<step, todo>> ELSE step' = "close" /\ todo' = {}
  /\ UNCHANGED <<input, devices, dev, bad, conn, results, cancelled, late>>

Drop ==
  /\ conn = "open"
  /\ conn' = "closed"
  /\ UNCHANGED <<input, devices, loop, step, todo, results, cancelled, late>>

Init ==
  /\ transport \in Transports /\ commands \in CommandLists
  /\ failFast \in BOOLEAN /\ (failFast => transport = "shell")
  /\ homeless \in SUBSET Devices
  /\ rejected \in SUBSET {i \in Indices : commands[i] \in {"set", "write", "show"}}
  /\ accepted = [d \in Devices |-> {}] /\ saved = [d \in Devices |-> NotSaved]
  /\ handler = "next" /\ dev = 1 /\ bad = {}
  /\ step = "idle" /\ conn = "none" /\ todo = {} /\ results = None
  /\ cancelled = "no" /\ late = [d \in Devices |-> {}]

Session == Connect \/ NetmikoConfig \/ ScrapliConfig \/ NetmikoRun \/ ScrapliRun \/ AsyncsshRun \/ ShellRun \/ Close
Step == NextDevice \/ Return \/ Session
Next == Step \/ Flag \/ Sweep \/ CancelTask \/ Drop

\* Every call has a time limit.
Spec == Init /\ [][Next]_vars /\ WF_vars(Step)

-----------------------------------------------------------------------------
(* Properties. *)

\* Type invariant.
TypeOK ==
  /\ transport \in Transports /\ commands \in CommandLists /\ failFast \in BOOLEAN
  /\ homeless \subseteq Devices /\ rejected \subseteq Indices
  /\ accepted \in [Devices -> SUBSET Indices] /\ saved \in [Devices -> SUBSET (Indices \cup {0})]
  /\ handler \in {"next", "await", "done", "cancelled"}
  /\ dev \in 1 .. NDevices + 1 /\ bad \subseteq Devices
  /\ step \in {"idle", "connect", "config", "run", "close"} /\ conn \in {"none", "open", "closed"}
  /\ step # "idle" => dev \in Devices
  /\ todo \subseteq Indices /\ results \in [Indices -> Seq(Codes)]
  /\ cancelled \in {"no", "flagged", "swept"} /\ late \in [Devices -> SUBSET Indices]

\* A step that succeeds has had every command of its list carried out on every
\* device, the lines that open and close the block and blank ones apart.  Of
\* netmiko this is not true for what follows or leaves the configuration block.
SuccessIsComplete ==
  (handler = "done" /\ bad = {}) =>
    \A d \in Devices, i \in Indices :
      \/ i \in accepted[d]
      \/ Blank(i) \/ (ConfigSet /\ Framing(i))
      \/ transport = "netmiko" /\ i \in Post

\* A device saves its configuration only when every line of the block is in force.
SavedIsWhole == \A d \in Devices : saved[d] # NotSaved => Config \subseteq saved[d]

\* scrapli and asyncssh ask before every command whether the step is cancelled,
\* but not before a configuration block, and no handler asks before the next
\* device.  So a cancelled step may still start a block, on this device and on
\* later ones: then nothing else has run there, the block is not saved, and the
\* device does not pass for done while something stands behind the block.
LateBlockUnsaved ==
  transport \in {"scrapli", "asyncssh"} =>
    \A d \in Devices : late[d] # {} =>
      /\ accepted[d] \subseteq late[d] /\ late[d] \subseteq Config
      /\ saved[d] = NotSaved
      /\ d < dev /\ Post # {} => d \in bad

\* The step ends, and the thread that a cancelled step leaves behind.
SessionEnds == <>[](handler \in {"done", "cancelled"} /\ step = "idle")

=============================================================================
