---------------------------- MODULE WaitReachable -----------------------------
(***************************************************************************)
(* probe.wait_reachable: rounds of checks, one device after the other,     *)
(* until each has been reachable for a stability window, or the deadline   *)
(* has passed at the beginning of a round.  Time goes by in the checks and *)
(* in the pauses; the devices come up and go down at any moment.           *)
(***************************************************************************)
EXTENDS DeviceLoop

CONSTANTS
  MaxWait,         \* max_wait_seconds
  StableSeconds,   \* stable_seconds
  PollInterval,    \* poll_interval
  ConnectTimeout   \* connect_timeout

ASSUME WaitConstants ==
  /\ NDevices \in Nat \ {0}
  /\ MaxWait \in Nat \ {0} /\ StableSeconds \in Nat \ {0} /\ PollInterval \in Nat \ {0}
  /\ ConnectTimeout \in Nat

VARIABLES
  key,        \* the id each device is remembered under; two may share one
  up,         \* devices that answer
  now,        \* seconds since the start
  allStable,  \* all_stable
  window,     \* device_stable_start, by key
  named,      \* devices in the message of a timeout
  \* observers
  since,      \* first of the checks of each device that have succeeded in a row
  lastCheck   \* end of the last check of each device

waitVars == <<key, up, pc, now, dev, allStable, window, verdict, named, since, lastCheck>>

\* No time at all; every other value is a time.
None == MaxWait + PollInterval + (NDevices + 1) * ConnectTimeout + 1
Times == 0 .. None
Alone(d) == \A e \in Devices : key[e] = key[d] => e = d

-----------------------------------------------------------------------------

\* Slip: the devices that are not yet stable are named, up or down.
RoundNamesAll ==
  /\ pc = "round"
  /\ IF now > MaxWait
     THEN /\ pc' = "done" /\ verdict' = "timeout"
          /\ named' = {d \in Devices : window[key[d]] = None \/ now - window[key[d]] < StableSeconds}
          /\ UNCHANGED <<dev, allStable>>
     ELSE pc' = "check" /\ dev' = 1 /\ allStable' = TRUE /\ UNCHANGED <<verdict, named>>
  /\ UNCHANGED <<key, up, now, window, since, lastCheck>>

\* The deadline is looked at here and nowhere else.
Round ==
  /\ pc = "round"
  /\ IF now > MaxWait
     THEN /\ pc' = "done" /\ verdict' = "timeout"
          /\ named' = {d \in Devices : window[key[d]] = None}
          /\ UNCHANGED <<dev, allStable>>
     ELSE pc' = "check" /\ dev' = 1 /\ allStable' = TRUE /\ UNCHANGED <<verdict, named>>
  /\ UNCHANGED <<key, up, now, window, since, lastCheck>>

Observe(reachable) ==
  /\ lastCheck' = [lastCheck EXCEPT ![dev] = now']
  /\ since' = [since EXCEPT ![dev] = IF ~reachable THEN None ELSE IF @ = None THEN now' ELSE @]

\* Slip: a device that goes down keeps its window.
TrackSteadily(reachable) ==
  LET k == key[dev] IN
  /\ window' = IF reachable /\ window[k] = None THEN [window EXCEPT ![k] = now'] ELSE window
  /\ allStable' = (allStable /\ window[k] # None /\ now' - window[k] >= StableSeconds)

Track(reachable) ==
  LET k == key[dev] IN
  IF reachable
  THEN /\ window' = IF window[k] = None THEN [window EXCEPT ![k] = now'] ELSE window
       /\ allStable' = (allStable /\ window[k] # None /\ now' - window[k] >= StableSeconds)
  ELSE /\ window' = [window EXCEPT ![k] = None]
       /\ allStable' = FALSE

\* A device that is up may still answer too late.
Check ==
  /\ pc = "check" /\ dev <= NDevices
  /\ \E t \in 0 .. ConnectTimeout : now' = now + t
  /\ \E reachable \in {FALSE, up[dev]} : Track(reachable) /\ Observe(reachable)
  /\ dev' = dev + 1
  /\ UNCHANGED <<key, up, pc, verdict, named>>

EndRound ==
  /\ pc = "check" /\ dev > NDevices
  /\ IF allStable /\ \A d \in Devices : window[key[d]] # None
     THEN pc' = "done" /\ verdict' = "stable" /\ now' = now
     ELSE pc' = "round" /\ now' = now + PollInterval /\ verdict' = verdict
  /\ UNCHANGED <<key, up, dev, allStable, window, named, since, lastCheck>>

UpOrDown ==
  /\ pc # "done"
  /\ \E d \in Devices : up' = [up EXCEPT ![d] = ~@]
  /\ UNCHANGED <<key, pc, now, dev, allStable, window, verdict, named, since, lastCheck>>

WaitInit ==
  /\ key \in [Devices -> Devices]
  /\ up \in [Devices -> BOOLEAN]
  /\ pc = "round" /\ now = 0 /\ dev = 1 /\ allStable = TRUE
  /\ window = [k \in Devices |-> None]
  /\ verdict = "none" /\ named = {}
  /\ since = [d \in Devices |-> None] /\ lastCheck = [d \in Devices |-> 0]

WaitStep == Round \/ Check \/ EndRound
WaitNext == WaitStep \/ UpOrDown

WaitSpec == WaitInit /\ [][WaitNext]_waitVars

-----------------------------------------------------------------------------
(* Properties. *)

\* Type invariant; among others, no time is beyond the deadline by more than a
\* round and a pause.
WaitTypeOK ==
  /\ key \in [Devices -> Devices] /\ up \in [Devices -> BOOLEAN]
  /\ pc \in {"round", "check", "done"}
  /\ now \in Times \ {None} /\ dev \in 1 .. NDevices + 1 /\ allStable \in BOOLEAN
  /\ window \in [Devices -> Times] /\ since \in [Devices -> Times]
  /\ verdict \in {"none", "stable", "timeout"} /\ (pc = "done") <=> (verdict # "none")
  /\ named \subseteq Devices
  /\ lastCheck \in [Devices -> Times \ {None}]

\* A device is reported stable when its checks have all succeeded over the
\* stability window, ended by its last check.  (Devices that share an id share
\* a window, which begins with the first of them.)
StableIsSeen ==
  verdict = "stable" =>
    \A d \in Devices :
      /\ since[d] # None
      /\ Alone(d) => lastCheck[d] - since[d] >= StableSeconds

\* A timeout names the devices whose last check failed, and no others.
NamedAreDown ==
  verdict = "timeout" => \A d \in Devices : Alone(d) => (d \in named <=> since[d] = None)

\* The deadline is overrun by at most one round of checks and one pause.
Overrun == verdict # "none" => now <= MaxWait + NDevices * ConnectTimeout + PollInterval

=============================================================================
