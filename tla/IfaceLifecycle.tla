---------------------------- MODULE IfaceLifecycle ----------------------------
(***************************************************************************)
(* Which manager processes run.  InterfaceInitializer.sh starts and stops, *)
(* for each SIM of the modem, one dispatcher per manager: a process that   *)
(* runs the manager's script once per message.  It keeps no pid files and  *)
(* takes no lock: it looks for "<dispatcher> <interface>" in the output of *)
(* ps, and kills the first line that matches.  SimSwitch.sh, the web page, *)
(* SystemRestart.sh and SystemBoot.sh call it.                             *)
(*                                                                         *)
(* The interfaces are CWAN1_0 (SIM 1) and CWAN1_1 (SIM 2); CWAN1, which is *)
(* disabled on a router of two SIMs, matches both as a prefix.  Left out   *)
(* are the scripts the dispatchers run: a stop ends the dispatcher with    *)
(* its children and then a script that is still running, and a script      *)
(* comes to an end by itself as well.                                      *)
(***************************************************************************)
EXTENDS Naturals, Sequences

CONSTANTS
  Managers,   \* sequence of the enabled managers, in the order of the script
  Pids,       \* process identifiers that dispatchers may get
  Callers     \* scripts that may be calling the initializer at a time

Sims == {1, 2}
ManagerSet == {Managers[i] : i \in 1..Len(Managers)}

ASSUME ManagersAssumption == Managers \in Seq(STRING)
ASSUME PidsAssumption     == Pids \subseteq Nat

VARIABLES
  enabled,      \* the SIM whose section has modemenable = 1
  dispatchers,  \* the dispatchers that run
  kind,         \* kind[c]: what caller c is doing
  todo,         \* todo[c]: the steps it has left
  toStart       \* toStart[c]: dispatchers its last ps did not show

vars == <<enabled, dispatchers, kind, todo, toStart>>

Dispatcher == [pid : Pids, mgr : ManagerSet, sim : Sims]
Kinds == {"idle", "boot", "switch", "update", "restart"}

(* The steps of the callers.  A start is one ps, on whose output the forks  *)
(* rely; a stop has a ps and a kill for every manager.                      *)
Steps == [op : {"select", "ps"}, sims : SUBSET Sims]
         \union [op : {"fork"}, mgr : ManagerSet]
         \union [op : {"kill"}, mgr : ManagerSet, sims : SUBSET Sims]

Select(s)   == <<[op |-> "select", sims |-> {s}]>>
Start(sims) == <<[op |-> "ps", sims |-> sims]>>
               \o [i \in 1..Len(Managers) |-> [op |-> "fork", mgr |-> Managers[i]]]
Boot        == Start(Sims)
Stop(sims)  == [i \in 1..Len(Managers) |->
                  [op |-> "kill", mgr |-> Managers[i], sims |-> sims]]

(* Mutant: the managers are not started again at the end.                   *)
SwitchStepsNoBoot(s) == Select(s) \o Start({s}) \o Stop(Sims)

(* SimSwitch.sh enables the section of the SIM, starts its managers, stops  *)
(* "CWAN1" and starts what is enabled.                                      *)
SwitchSteps(s) == Select(s) \o Start({s}) \o Stop(Sims) \o Boot

(* interfacemanager update, for one section.                                *)
UpdateSteps(s) == Stop({s}) \o Start({s})

(* Mutant: the two SIMs are stopped by their common prefix only.            *)
RestartStepsPrefix == Select(1) \o UpdateSteps(1) \o Stop(Sims) \o Boot

(* SystemStart.sh enables SIM 1 and runs SystemRestart.sh, which updates    *)
(* it, stops each SIM and then "CWAN1", and starts what is enabled.         *)
RestartSteps == Select(1) \o UpdateSteps(1)
                \o Stop({1}) \o Stop({2}) \o Stop(Sims) \o Boot
-----------------------------------------------------------------------------
Call(c, k, steps) ==
  /\ kind[c] = "idle"
  /\ kind' = [kind EXCEPT ![c] = k]
  /\ todo' = [todo EXCEPT ![c] = steps]
  /\ UNCHANGED <<enabled, dispatchers, toStart>>

SimSwitch(c, s)  == Call(c, "switch", SwitchSteps(s))
Update(c, s)     == Call(c, "update", UpdateSteps(s))
SystemRestart(c) == Call(c, "restart", RestartSteps)

(* What is common to all steps: the caller goes on, and ends after the last.*)
Advance(c) ==
  /\ todo' = [todo EXCEPT ![c] = Tail(@)]
  /\ kind' = [kind EXCEPT ![c] = IF Len(todo[c]) = 1 THEN "idle" ELSE @]

Does(c, op) == todo[c] # <<>> /\ Head(todo[c]).op = op

SelectStep(c) ==
  /\ Does(c, "select")
  /\ enabled' \in Head(todo[c]).sims
  /\ Advance(c)
  /\ UNCHANGED <<dispatchers, toStart>>

Runs(m, s) == \E d \in dispatchers : d.mgr = m /\ d.sim = s

(* Mutant: what runs already is started again.                              *)
MissingAll(s) == [mgr : ManagerSet, sim : {s}]

(* The dispatchers of SIM s that ps does not show.                          *)
Missing(s) == {f \in [mgr : ManagerSet, sim : {s}] : ~Runs(f.mgr, f.sim)}

(* The section of the enabled SIM is loaded, if it is among those asked     *)
(* for, and one ps tells which of its dispatchers run.                      *)
PsStep(c) ==
  /\ Does(c, "ps")
  /\ toStart' = [toStart EXCEPT ![c] =
                   IF enabled \in Head(todo[c]).sims THEN Missing(enabled) ELSE {}]
  /\ Advance(c)
  /\ UNCHANGED <<enabled, dispatchers>>

(* Mutant: the pid of a running dispatcher.                                 *)
FreePidsAny == Pids

(* Pids wrap around, and other processes take and return them all the time: *)
(* a new dispatcher may get any that no dispatcher has.                     *)
FreePids == Pids \ {d.pid : d \in dispatchers}

ForkStep(c) ==
  /\ Does(c, "fork")
  /\ LET new == {f \in toStart[c] : f.mgr = Head(todo[c]).mgr} IN
     /\ IF new = {} THEN UNCHANGED dispatchers
        ELSE \E f \in new, p \in FreePids :
               dispatchers' = dispatchers \union
                                {[pid |-> p, mgr |-> f.mgr, sim |-> f.sim]}
     /\ toStart' = [toStart EXCEPT ![c] = @ \ new]
  /\ Advance(c)
  /\ UNCHANGED enabled

(* The lines of ps, which are in the order of the pids, that match.         *)
Matches(m, sims) == {d \in dispatchers : d.mgr = m /\ d.sim \in sims}

IsFirst(d, ds) == d \in ds /\ \A e \in ds : d.pid <= e.pid

KillStep(c) ==
  /\ Does(c, "kill")
  /\ LET found == Matches(Head(todo[c]).mgr, Head(todo[c]).sims) IN
     dispatchers' = dispatchers \ {d \in found : IsFirst(d, found)}
  /\ Advance(c)
  /\ UNCHANGED <<enabled, toStart>>

(* All processes are gone.  The tty hotplug script, which finds no          *)
(* /tmp/simnumfile, enables SIM 1 while SystemBoot.sh sleeps for more than  *)
(* half a minute; then SystemBoot.sh calls the initializer.                 *)
Reboot(c) ==
  /\ dispatchers' = {} /\ enabled' = 1
  /\ kind' = [b \in Callers |-> IF b = c THEN "boot" ELSE "idle"]
  /\ todo' = [b \in Callers |-> IF b = c THEN Boot ELSE <<>>]
  /\ toStart' = [b \in Callers |-> {}]
-----------------------------------------------------------------------------
Init ==
  /\ enabled = 1 /\ dispatchers = {}
  /\ \E c \in Callers :
       /\ kind = [b \in Callers |-> IF b = c THEN "boot" ELSE "idle"]
       /\ todo = [b \in Callers |-> IF b = c THEN Boot ELSE <<>>]
  /\ toStart = [b \in Callers |-> {}]

Next == \E c \in Callers :
          \/ \E s \in Sims : SimSwitch(c, s) \/ Update(c, s)
          \/ SystemRestart(c)
          \/ SelectStep(c) \/ PsStep(c) \/ ForkStep(c) \/ KillStep(c)
          \/ Reboot(c)

Spec == Init /\ [][Next]_vars
-----------------------------------------------------------------------------
(* Types; no two dispatchers have the same pid, and only a caller that is   *)
(* at work has anything to do or to start.                                  *)
TypeOK ==
  /\ enabled \in Sims
  /\ dispatchers \subseteq Dispatcher
  /\ \A d, e \in dispatchers : d.pid = e.pid => d = e
  /\ kind \in [Callers -> Kinds]
  /\ todo \in [Callers -> Seq(Steps)]
  /\ toStart \in [Callers -> SUBSET [mgr : ManagerSet, sim : Sims]]
  /\ \A c \in Callers : (kind[c] = "idle") = (todo[c] = <<>>)

Quiet == \A c \in Callers : kind[c] = "idle"

(* Each message is handled once: no manager of a SIM has two dispatchers.   *)
(* The start looks at ps before it forks, over and over, in programs that   *)
(* start the same thing twice.                                              *)
OneDispatcher ==
  \A d, e \in dispatchers : d.mgr = e.mgr /\ d.sim = e.sim => d = e

(* The stop of "CWAN1" in SimSwitch.sh may hit the managers it has just     *)
(* started, and an update those in use: once nobody is at work, the enabled *)
(* SIM has a dispatcher for each of its managers.                           *)
SelectedServed == Quiet => \A m \in ManagerSet : Runs(m, enabled)

(* Before SystemRestart.sh starts the managers of the new configuration it  *)
(* has stopped all those of the old, whatever switches were made before.    *)
RestartClean ==
  \A c \in Callers : kind[c] = "restart" /\ todo[c] = Boot => dispatchers = {}

(* Once nobody is at work, only the enabled SIM is managed.                 *)
OnlySelected == Quiet => \A d \in dispatchers : d.sim = enabled
=============================================================================
