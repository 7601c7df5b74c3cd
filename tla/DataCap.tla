------------------------------- MODULE DataCap -------------------------------
(***************************************************************************)
(* The data limits of a router with one modem and two SIMs.  Data_Cap.sh,  *)
(* every two minutes, adds what the modem counted since the last flush to  *)
(* the account of the selected SIM in flash, and leaves a SIM whose limit  *)
(* is reached.  Four more scripts select a SIM: mwan3.user when the        *)
(* interface is lost, PrimarySwitch.sh when its timer ends, the operator's *)
(* forcesimswitch, and the resets of the accounts.  All of them call       *)
(* SimSwitch.sh, which power-cycles the modem and with it the counter.     *)
(*                                                                         *)
(* The setting "SIM Switch Based on" is Data Limit, so that the signal     *)
(* script does not switch; the speed test is off, as shipped; SIM switches *)
(* of the action manager's ladder need numsim, which nothing sets.         *)
(***************************************************************************)
EXTENDS Integers, FiniteSets

CONSTANTS
  Limit,        \* Limit[s]: sim<s>datausagelimit, in units of traffic
  Threshold,    \* Data_Storage_Threshold
  SwitchBack,   \* primarysimswitchbackenable
  LimitEnable,  \* cellulardataswitchlimitenable
  Resets,       \* are the accounts reset, by cron or on request
  AtOnce,       \* bound on the scripts that run at the same time
  MaxUse,       \* bound on the traffic of one SIM and on the counter
  MaxReboots    \* bound on reboots

Sims == {1, 2}

ASSUME LimitAssumption == Limit \in [Sims -> Nat]
ASSUME FlagAssumption  == {SwitchBack, LimitEnable, Resets} \subseteq BOOLEAN
ASSUME BoundAssumption == {Threshold, AtOnce, MaxUse, MaxReboots} \subseteq Nat

VARIABLES
  simnum,    \* /tmp/simnumfile
  gpio,      \* SIM selected by the SIM-select GPIO
  modemSim,  \* SIM the modem was last powered up with
  counter,   \* tx + rx of the modem's netdev, zero at power-up
  tmp,       \* tmp[s]: /tmp/sim<s>data, the counter at the last flush
  flash,     \* flash[s]: /etc/sim<s>data, the traffic on account
  flag,      \* flag[s]: /etc/sim<s>dataflag, is the SIM's data finished
  timer,     \* does a PrimarySwitch.sh sleep
  job,       \* job[p]: what script p does next, the SIM it is to select, and
             \* whether it sees to the timer of PrimarySwitch.sh afterwards
  cap,       \* variables of the running Data_Cap.sh
  scope,     \* SIMs whose accounts the running reset wipes
  real,      \* history: traffic of each SIM since its account was reset
  reboots

modem    == <<gpio, modemSim, counter>>
accounts == <<tmp, flash, flag>>
vars     == <<simnum, gpio, modemSim, counter, tmp, flash, flag, timer, job,
              cap, scope, real, reboots>>

Scripts  == {"cap", "mwan", "timer", "oper", "reset"}
Other(s) == 3 - s
Zeros    == [s \in Sims |-> 0]
Pcs      == {"idle", "select", "zero", "power", "arm", "flush", "check", "wipe1", "wipe2"}
Jobs     == [pc: Pcs, to: Sims, arm: BOOLEAN]
Idle     == [pc |-> "idle", to |-> 1, arm |-> FALSE]
NoCap    == [sim |-> 1, used |-> 0, diff |-> 0]

(* A script does not start again before its last run is over.               *)
Running     == {p \in Scripts : job[p] # Idle}
MayStart(p) == p \notin Running /\ Cardinality(Running) < AtOnce

Goto(p, pc) == job' = [job EXCEPT ![p].pc = pc]
Ends(p)     == job' = [job EXCEPT ![p] = Idle]
Switch(p, s, arm) == job' = [job EXCEPT ![p] = [pc |-> "select", to |-> s, arm |-> arm]]

-----------------------------------------------------------------------------
(* One unit of traffic through the modem.                                   *)
Traffic ==
  /\ counter < MaxUse /\ real[modemSim] < MaxUse
  /\ counter' = counter + 1
  /\ real' = [real EXCEPT ![modemSim] = @ + 1]
  /\ UNCHANGED <<simnum, gpio, modemSim, accounts, timer, job, cap, scope, reboots>>

(* Everything under /tmp is lost and SystemBoot.sh selects SIM 1.           *)
Reboot ==
  /\ reboots < MaxReboots
  /\ reboots' = reboots + 1
  /\ simnum' = 1 /\ gpio' = 1 /\ modemSim' = 1 /\ counter' = 0 /\ tmp' = Zeros
  /\ timer' = FALSE
  /\ job' = [p \in Scripts |-> Idle] /\ cap' = NoCap /\ scope' = {}
  /\ UNCHANGED <<flash, flag, real>>

-----------------------------------------------------------------------------
(* SimSwitch.sh: the SIM number; the GPIO and the zeroed files; the power.  *)

SwitchSelect(p) ==
  /\ job[p].pc = "select"
  /\ simnum' = job[p].to
  /\ Goto(p, "zero")
  /\ UNCHANGED <<modem, accounts, timer, cap, scope, real, reboots>>

SwitchZero(p) ==
  /\ job[p].pc = "zero"
  /\ gpio' = job[p].to
  /\ tmp' = Zeros
  /\ Goto(p, "power")
  /\ UNCHANGED <<simnum, modemSim, counter, flash, flag, timer, cap, scope, real,
                 reboots>>

SwitchPower(p) ==
  /\ job[p].pc = "power"
  /\ modemSim' = gpio
  /\ counter' = 0
  /\ IF job[p].arm THEN Goto(p, "arm") ELSE Ends(p)
  /\ UNCHANGED <<simnum, gpio, accounts, timer, cap, scope, real, reboots>>

-----------------------------------------------------------------------------
(* Data_Cap.sh.                                                             *)

CapStart ==
  /\ MayStart("cap")
  /\ cap' = [sim |-> simnum, used |-> counter, diff |-> 0]
  /\ Goto("cap", "flush")
  /\ UNCHANGED <<simnum, modem, accounts, timer, scope, real, reboots>>

(* Mutant: the difference is remembered instead of the reading.             *)
MarkDiff == [tmp EXCEPT ![cap.sim] = cap.used - @]

(* What is flushed is marked in /tmp.                                       *)
Mark == [tmp EXCEPT ![cap.sim] = cap.used]

CapFlush ==
  LET diff == cap.used - tmp[cap.sim] IN
  /\ job["cap"].pc = "flush"
  /\ cap' = [cap EXCEPT !.diff = diff]
  /\ IF diff >= Threshold
       THEN /\ tmp' = Mark
            /\ flash' = [flash EXCEPT ![cap.sim] = @ + diff]
       ELSE UNCHANGED <<tmp, flash>>
  /\ Goto("cap", "check")
  /\ UNCHANGED <<simnum, modem, flag, timer, scope, real, reboots>>

(* Mutant: the limit is met exactly or not at all.                          *)
ReachedExactly(s, n) == s = 1 /\ n = Limit[s]

(* The limit of SIM 2 is read into Sim2DataLImit and compared as            *)
(* Sim2DataLimit, an empty word: the test of [ is an error and is false.    *)
Reached(s, n) == s = 1 /\ n >= Limit[s]

(* Mutant: the flag counts.                                                 *)
FinishedCount(s) == [flag EXCEPT ![s] = @ + 1]

Finished(s) == [flag EXCEPT ![s] = 1]

(* The difference is added once more, flushed or not.                       *)
CapCheck ==
  /\ job["cap"].pc = "check"
  /\ IF Reached(cap.sim, flash[cap.sim] + cap.diff)
       THEN flag' = Finished(cap.sim) /\ Switch("cap", Other(cap.sim), FALSE)
       ELSE UNCHANGED flag /\ Ends("cap")
  /\ cap' = NoCap
  /\ UNCHANGED <<simnum, modem, tmp, flash, timer, scope, real, reboots>>

-----------------------------------------------------------------------------
(* The other scripts.                                                       *)

(* mwan3.user, the interface of the selected SIM is disconnected: to the    *)
(* other SIM, unless its data is finished.  Coming from SIM 1 the timer is  *)
(* seen to after the switch, from SIM 2 it is killed before.                *)
MwanDisconnected ==
  /\ MayStart("mwan")
  /\ Switch("mwan", IF flag[Other(simnum)] = 0 THEN Other(simnum) ELSE simnum,
            simnum = 1)
  /\ timer' = (timer /\ simnum = 1)
  /\ UNCHANGED <<simnum, modem, accounts, cap, scope, real, reboots>>

(* forcesimswitch and the simswitch it calls.                               *)
Operator(s) ==
  /\ MayStart("oper")
  /\ LimitEnable => flag[s] = 0
  /\ Switch("oper", s, s = 2 /\ SwitchBack)
  /\ UNCHANGED <<simnum, modem, accounts, timer, cap, scope, real, reboots>>

(* After the switch: a timer is started in place of the old one, or, by     *)
(* mwan3.user when the data of SIM 1 is finished, the old one is killed.    *)
Arm(p) ==
  /\ job[p].pc = "arm"
  /\ timer' = (SwitchBack /\ (p = "mwan" => flag[1] = 0))
  /\ Ends(p)
  /\ UNCHANGED <<simnum, modem, accounts, cap, scope, real, reboots>>

(* PrimarySwitch.sh wakes up and selects SIM 1.                             *)
TimerEnds ==
  /\ timer /\ MayStart("timer")
  /\ timer' = FALSE
  /\ Switch("timer", 1, FALSE)
  /\ UNCHANGED <<simnum, modem, accounts, cap, scope, real, reboots>>

(* Reset_data_usage.sh, once a period: flags, then accounts, then SIM 1.    *)
(* Reset_sim<s>_data_usage.sh, on request: account, then flag, then SIM s.  *)
ResetStart(ss, s) ==
  /\ Resets /\ MayStart("reset")
  /\ scope' = ss
  /\ job' = [job EXCEPT !["reset"] = [pc |-> "wipe1", to |-> s, arm |-> FALSE]]
  /\ tmp' = [t \in Sims |-> IF t \in ss THEN 0 ELSE tmp[t]]
  /\ UNCHANGED <<simnum, modem, flash, flag, timer, cap, real, reboots>>

(* Mutant: the flag of a single SIM is forgotten.                           *)
WipeFlagsAll ==
  /\ flag' = IF scope = Sims THEN Zeros ELSE flag
  /\ UNCHANGED <<flash, real>>

WipeFlags ==
  /\ flag' = [t \in Sims |-> IF t \in scope THEN 0 ELSE flag[t]]
  /\ UNCHANGED <<flash, real>>

(* Mutant: the account of a single SIM is forgotten.                        *)
WipeFlashAll ==
  /\ flash' = IF scope = Sims THEN Zeros ELSE flash
  /\ real' = [t \in Sims |-> IF t \in scope THEN 0 ELSE real[t]]
  /\ UNCHANGED flag

WipeFlash ==
  /\ flash' = [t \in Sims |-> IF t \in scope THEN 0 ELSE flash[t]]
  /\ real' = [t \in Sims |-> IF t \in scope THEN 0 ELSE real[t]]
  /\ UNCHANGED flag

ResetWipe ==
  /\ \/ /\ job["reset"].pc = "wipe1"
        /\ IF scope = Sims THEN WipeFlags ELSE WipeFlash
        /\ Goto("reset", "wipe2")
     \/ /\ job["reset"].pc = "wipe2"
        /\ IF scope = Sims THEN WipeFlash ELSE WipeFlags
        /\ Switch("reset", job["reset"].to, FALSE)
  /\ UNCHANGED <<simnum, modem, tmp, timer, cap, scope, reboots>>

-----------------------------------------------------------------------------
Init ==
  /\ simnum = 1 /\ gpio = 1 /\ modemSim = 1 /\ counter = 0
  /\ tmp = Zeros /\ flash = Zeros /\ flag = Zeros /\ real = Zeros
  /\ timer = FALSE /\ job = [p \in Scripts |-> Idle]
  /\ cap = NoCap /\ scope = {} /\ reboots = 0

SimSwitchStep(p) == SwitchSelect(p) \/ SwitchZero(p) \/ SwitchPower(p) \/ Arm(p)

CapStep == CapFlush \/ CapCheck

Reset == ResetStart(Sims, 1) \/ \E s \in Sims : ResetStart({s}, s)

Next == \/ Traffic \/ Reboot \/ CapStart \/ CapStep
        \/ MwanDisconnected \/ TimerEnds \/ Reset \/ ResetWipe
        \/ \E s \in Sims : Operator(s)
        \/ \E p \in Scripts : SimSwitchStep(p)

Spec == Init /\ [][Next]_vars

(* A started script runs to its end, and cron starts Data_Cap.sh again and  *)
(* again whatever the other scripts do.                                     *)
Fairness == /\ \A p \in Scripts : WF_vars(SimSwitchStep(p))
            /\ WF_vars(CapStep) /\ WF_vars(ResetWipe)
            /\ SF_vars(CapStart)

FairSpec == Spec /\ Fairness

-----------------------------------------------------------------------------
(* Properties.                                                              *)

TypeOK ==
  /\ simnum \in Sims /\ gpio \in Sims /\ modemSim \in Sims /\ counter \in Nat
  /\ tmp \in [Sims -> Nat] /\ flash \in [Sims -> Int] /\ real \in [Sims -> Nat]
  /\ flag \in [Sims -> {0, 1}] /\ timer \in BOOLEAN
  /\ job \in [Scripts -> Jobs]
  /\ cap \in [sim: Sims, used: Nat, diff: Int]
  /\ scope \in SUBSET Sims /\ reboots \in Nat

(* What Data_Cap.sh would charge to SIM s now: its account and what the     *)
(* modem has counted since the last flush.                                  *)
Charged(s) == flash[s] + (IF s = modemSim THEN counter - tmp[s] ELSE 0)

(* No SIM is ever charged for more than its own traffic, whatever switches, *)
(* resets and reboots happen, as long as the scripts do not overlap: while  *)
(* none of them is at work, the charge is at most the real traffic.  It     *)
(* needs every place that zeroes the counter to zero the files with it.     *)
NeverOvercharged ==
  Running = {} => \A s \in Sims : Charged(s) <= real[s]

(* A SIM 1 charged up to its limit is left: Data_Cap.sh gets round to it    *)
(* even if resets, reboots and the other scripts keep interfering.          *)
LimitLeaves1 ==
  simnum = 1 /\ Charged(1) >= Limit[1] ~> simnum = 2 \/ Charged(1) < Limit[1]

(* "SIM 2 Data Usage Limit (In MB)", the caption of the setting: a SIM 2    *)
(* charged up to its limit is left as well.                                 *)
LimitLeaves2 ==
  simnum = 2 /\ Charged(2) >= Limit[2] ~> simnum = 1 \/ Charged(2) < Limit[2]

(* "SIM 1 Data Usage Limit (In MB)", the caption of the setting: the data   *)
(* of SIM 1 is not declared finished before that much went through it.      *)
LimitNotEarly == [][flag'[1] > flag[1] => real[1] >= Limit[1]]_vars

(* What is added once more is no more than the traffic itself: the data of  *)
(* SIM 1 is not declared finished before half of the limit went through it, *)
(* whatever flushes, resets, switches and reboots came before.              *)
LimitNotHalf == [][flag'[1] > flag[1] => 2 * real[1] >= Limit[1]]_vars

(* "SIM 1 Data Usage Limit (In MB)": a SIM that carried nothing is not      *)
(* declared finished.                                                       *)
FinishedNeedsUse == [][flag'[1] > flag[1] => real[1] > 0]_vars

(* With the limits enabled only the switch-back timer, which does not look  *)
(* at the flags, ever selects a SIM whose data is finished: forcesimswitch, *)
(* mwan3.user, Data_Cap.sh and the resets, one at a time, keep their checks,*)
(* their choices and the wiping of the flags consistent with each other.    *)
NoSwitchToFinished ==
  [][\A p \in Scripts \ {"timer"} :
       job[p].pc = "select" /\ job'[p].pc = "zero" /\ simnum' # simnum
         => flag[simnum'] = 0]_vars
=============================================================================
