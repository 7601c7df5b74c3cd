---------------------------- MODULE IfaceRecovery ----------------------------
(***************************************************************************)
(* Supervision of one cellular interface by its three managers:            *)
(*   - InterfaceAnalyticsManager.sh tests the link and reports UP or DN;   *)
(*   - InterfaceStatusManager.sh (ISM) records the report in the status    *)
(*     file, notifies the operator and wakes the action manager on DN;     *)
(*   - InterfaceActionManager.sh (AM) waits for the link to come back by   *)
(*     itself and then climbs a ladder of three configured actions.        *)
(* The managers are shell scripts, run once per MQTT message by a          *)
(* dispatcher process of their own, one message at a time.  They share     *)
(* nothing but files under /tmp, which each step reads and writes alone.   *)
(***************************************************************************)
EXTENDS Naturals, Sequences

CONSTANTS
  IPs,             \* addresses the network may assign
  None,            \* no address, no file, no value
  Cmd,             \* Cmd[r]: ActionrCmd of the modem section
  Enabled,         \* rungs whose ActionrEnable is 1
  Retry,           \* Retry[r]: ActionrRetry
  Polls,           \* Polls[r]: ActionrWaitInterval / IfaceQueryInterval
  NumSim,          \* numsim of the modem section
  PingTestEnable,  \* pingtestenable
  DataTestEnable,  \* datatestenable
  WaitRounds,      \* rounds of WaitForAutoRecover (5 in the code)
  QCap,            \* messages the broker holds for one subscriber
  MaxDrops         \* bound on the link losses the environment causes

Rungs    == 1..3
Commands == {"ModemRecycle", "SimSwitch", "BoardRecycle"}

ASSUME IPsAssumption   == None \notin IPs
ASSUME CmdAssumption   == /\ Cmd \in [Rungs -> Commands]
                          /\ None \notin Commands \union {"auto", "connected", "partial"}
                          /\ None \notin Nat
ASSUME LadderAssumption == /\ Enabled \subseteq Rungs
                           /\ Retry \in [Rungs -> Nat]
                           /\ Polls \in [Rungs -> Nat]
                           /\ NumSim \in Nat
ASSUME FlagAssumption  == PingTestEnable \in BOOLEAN /\ DataTestEnable \in BOOLEAN
ASSUME BoundAssumption == /\ WaitRounds \in Nat \ {0}
                          /\ QCap \in Nat \ {0}
                          /\ MaxDrops \in Nat

VARIABLES
  link,        \* [ip, reach]: address of the netdev; do pings get through
  drops,       \* link losses so far (bounded by MaxDrops)
  ismQ,        \* messages published to the ISM, not yet handled
  amQ,         \* DN notices published to the AM, not yet handled
  statusFile,  \* InterfaceStatus in IF.StatusManagerstatus
  argsFile,    \* ActionCmd in IF.NotifyIPChangeArgsFile
  infoFile,    \* IPAddress in IF.NotifyIPChangeInfo
  ipDown,      \* does IF.IPDown exist
  simnum,      \* contents of /tmp/simnumfile
  gpio,        \* SIM selected by the SIM-select GPIO
  notice,      \* last notification handed to NotifyIPChange.sh
  ismPc, ismMsg, ismCmd,                        \* the running ISM
  amPc, amMsg, round, rung, attempt, polled,    \* the running AM
  tries, quiet                                  \* history, see below

(* tries[r]: attempts of rung r in the current AM run; quiet: status reads  *)
(* other than UP since the last attempt.                                    *)
history  == <<tries, quiet>>
linkVars == <<link, drops>>
files    == <<argsFile, infoFile, ipDown>>
sim      == <<simnum, gpio>>
ismVars  == <<ismPc, ismMsg, ismCmd>>
amVars   == <<amPc, amMsg, round, rung, attempt, polled>>
vars     == <<link, drops, ismQ, amQ, statusFile, argsFile, infoFile, ipDown,
              simnum, gpio, notice, ismPc, ismMsg, ismCmd,
              amPc, amMsg, round, rung, attempt, polled, tries, quiet>>

IsmMsgs == [st: {"UP", "DN", "ifdown", "actionsfailure"},
            ip: IPs \union {None}, ping: {0, 2, None}]
AmMsgs  == [ip: IPs \union {None}, ping: {0, 2, None}]
Notices == [cmd: Commands \union {"auto", "connected", "partial"},
            ip: IPs \union {None}]

(* Does the data test of the link succeed: an address, and the ping test    *)
(* passes when it is enabled.                                               *)
Pings      == link.ip # None /\ link.reach
TestPasses == link.ip # None /\ (PingTestEnable => link.reach)

(* mosquitto_pub at QoS 1: the broker drops what its queue has no room for. *)
Publish(q, m) == IF Len(q) < QCap THEN Append(q, m) ELSE q

(* What one run of the ladder may do on rung r.                             *)
Attempts(r) == IF r \notin Enabled \/ (r = 2 /\ NumSim # 2) THEN 0
               ELSE IF r = 2 THEN 1 ELSE Retry[r]

-----------------------------------------------------------------------------
(* The link and netifd.                                                     *)

LinkUp(ip) ==
  /\ link.ip = None
  /\ amPc # "down"
  /\ link' = [ip |-> ip, reach |-> TRUE]
  /\ UNCHANGED <<drops, ismQ, amQ, statusFile, files, sim, notice,
                 ismVars, amVars, history>>

(* The carrier goes: netifd runs the ifdown hotplug script, which publishes *)
LinkLost ==
  /\ link.ip # None /\ drops < MaxDrops
  /\ drops' = drops + 1
  /\ link' = [ip |-> None, reach |-> FALSE]
  /\ ismQ' = Publish(ismQ, [st |-> "ifdown", ip |-> None, ping |-> None])
  /\ UNCHANGED <<amQ, statusFile, files, sim, notice,
                 ismVars, amVars, history>>

(* The address stays and pings stop, or start again.                        *)
ReachLost ==
  /\ Pings /\ drops < MaxDrops
  /\ drops' = drops + 1
  /\ link' = [link EXCEPT !.reach = FALSE]
  /\ UNCHANGED <<ismQ, amQ, statusFile, files, sim, notice,
                 ismVars, amVars, history>>

ReachBack ==
  /\ link.ip # None /\ ~link.reach
  /\ link' = [link EXCEPT !.reach = TRUE]
  /\ UNCHANGED <<drops, ismQ, amQ, statusFile, files, sim, notice,
                 ismVars, amVars, history>>

-----------------------------------------------------------------------------
(* InterfaceAnalyticsManager.sh, on a cron, ifup or numeric request.        *)

TestReport ==
  IF link.ip = None THEN [st |-> "DN", ip |-> None, ping |-> None]
  ELSE [st   |-> IF TestPasses THEN "UP" ELSE "DN",
        ip   |-> link.ip,
        ping |-> IF ~PingTestEnable THEN None ELSE IF link.reach THEN 0 ELSE 2]

AnalyticsTest ==
  /\ DataTestEnable
  /\ Len(ismQ) < QCap
  /\ ismQ' = Append(ismQ, TestReport)
  /\ UNCHANGED <<linkVars, amQ, statusFile, files, sim, notice,
                 ismVars, amVars, history>>
-----------------------------------------------------------------------------
(* InterfaceStatusManager.sh: one run per message.                          *)

NoMsg == [st |-> "ifdown", ip |-> None, ping |-> None]

(* GetActionCommand: what is to be named as the cause of an UP.             *)
ActionCommand(ip) ==
  IF argsFile # None THEN argsFile
  ELSE IF infoFile = ip THEN "connected" ELSE "auto"

(* Read the payload.  A DN, an ifdown and an actionsfailure go straight to  *)
(* the status file, whose truncation is this step's last effect: for an     *)
(* actionsfailure the script calls NotifyIPChange with the literal word     *)
(* PayLoadInterfaceStatus, which selects neither of its branches.           *)
IsmTake ==
  /\ ismPc = "idle" /\ ismQ # <<>>
  /\ ismQ' = Tail(ismQ)
  /\ ismMsg' = Head(ismQ)
  /\ \/ /\ Head(ismQ).st = "UP"
        /\ ismPc' = "notify"
        /\ ismCmd' = ActionCommand(Head(ismQ).ip)
        /\ UNCHANGED statusFile
     \/ /\ Head(ismQ).st # "UP"
        /\ ismPc' = "write"
        /\ statusFile' = "blank"
        /\ UNCHANGED ismCmd
  /\ UNCHANGED <<linkVars, amQ, files, sim, notice, amVars, history>>

(* Mutant: an UP that no command caused is not announced either.            *)
AnnouncedCmd == ismCmd \notin {"connected", "auto"}

(* Is this UP news: "connected" stands for an address already announced.    *)
Announced == ismCmd # "connected"

(* The rest of GetActionCommand and NotifyIPChange "up".                    *)
IsmNotifyUp ==
  /\ ismPc = "notify"
  /\ argsFile' = IF ismCmd \in {"auto", "connected"} THEN argsFile ELSE None
  /\ ipDown' = FALSE
  /\ IF Announced
       THEN infoFile' = ismMsg.ip /\ notice' = [cmd |-> ismCmd, ip |-> ismMsg.ip]
       ELSE UNCHANGED <<infoFile, notice>>
  /\ statusFile' = "blank"
  /\ ismPc' = "write"
  /\ UNCHANGED <<linkVars, ismQ, amQ, sim, ismMsg, ismCmd, amVars, history>>

(* The new status.  On actionsfailure the variable InterfaceStatus was      *)
(* never assigned and the line written is "InterfaceStatus=".               *)
StatusOf(m) == IF m.st = "UP" THEN "UP"
               ELSE IF m.st = "actionsfailure" THEN "blank" ELSE "DN"

(* Mutant: an outage without an address does not wake the AM.               *)
WakesWithIP(m) == StatusOf(m) = "DN" /\ m.ip # None

(* Does the new status go to the action manager as well.                    *)
Wakes(m) == StatusOf(m) = "DN"

IsmWrite ==
  /\ ismPc = "write"
  /\ statusFile' = StatusOf(ismMsg)
  /\ amQ' = IF Wakes(ismMsg)
              THEN Publish(amQ, [ip |-> ismMsg.ip, ping |-> ismMsg.ping])
              ELSE amQ
  /\ ismPc' = "idle" /\ ismMsg' = NoMsg /\ ismCmd' = "auto"
  /\ UNCHANGED <<linkVars, ismQ, files, sim, notice, amVars, tries, quiet>>

-----------------------------------------------------------------------------
(* InterfaceActionManager.sh: one run per DN notice.                        *)

NoNotice == [ip |-> None, ping |-> None]

(* The script's variables, as a new run finds them.                         *)
Fresh == /\ round' = 1 /\ rung' = 1 /\ attempt' = 1 /\ polled' = 0
         /\ tries' = [r \in Rungs |-> 0] /\ quiet' = 0

AmExit == amPc' = "idle" /\ amMsg' = NoNotice /\ Fresh

AmTake ==
  /\ amPc = "idle" /\ amQ # <<>>
  /\ amQ' = Tail(amQ)
  /\ amMsg' = Head(amQ)
  /\ amPc' = "wait"
  /\ Fresh
  /\ UNCHANGED <<linkVars, ismQ, statusFile, files, sim, notice, ismVars>>

(* Mutant: an UP does not end the wait.                                     *)
AmReadStatusDown ==
  /\ amPc = "wait" /\ statusFile = "DN"
  /\ amPc' = "sleep"
  /\ UNCHANGED <<linkVars, ismQ, amQ, statusFile, files, sim, notice, ismVars,
                 amMsg, round, rung, attempt, polled, tries, quiet>>

(* WaitForAutoRecover reads the status file.  A blank status is neither DN  *)
(* nor UP: the loop spins on it without sleeping and without counting, and  *)
(* no step is taken.                                                        *)
AmReadStatus ==
  /\ amPc = "wait"
  /\ \/ /\ statusFile = "DN"
        /\ amPc' = "sleep"
        /\ UNCHANGED <<amMsg, round, rung, attempt, polled, tries, quiet>>
     \/ statusFile = "UP" /\ AmExit
  /\ UNCHANGED <<linkVars, ismQ, amQ, statusFile, files, sim, notice, ismVars>>

(* A minute passes.  If the DN notice was about failing pings, ping again:  *)
(* an answer is reported as UP with the address of that notice.  The last   *)
(* round leaves the loop without another look at the status file.           *)
PingDue == PingTestEnable /\ amMsg.ping = 2 /\ amMsg.ip # None

AmSleep ==
  /\ amPc = "sleep"
  /\ \/ /\ PingDue /\ Pings
        /\ ismQ' = Publish(ismQ, [st |-> "UP", ip |-> amMsg.ip, ping |-> 0])
        /\ AmExit
     \/ /\ ~(PingDue /\ Pings)
        /\ round' = round + 1
        /\ amPc' = IF round < WaitRounds THEN "wait" ELSE "act"
        /\ UNCHANGED <<ismQ, amMsg, rung, attempt, polled, tries, quiet>>
  /\ UNCHANGED <<linkVars, amQ, statusFile, files, sim, notice, ismVars>>

(* PerformAction and ExecuteCommand.                                        *)

(* Mutant: the last attempt of a rung is not made.                          *)
ExhaustedEarly == attempt >= Attempts(rung)

(* ActionRetryCount has passed ActionrRetry, or the rung is not to be tried.*)
Exhausted == attempt > Attempts(rung)

(* Mutant: the retry counter is not reset for the next rung.                *)
AmNextRungKeeps ==
  /\ amPc = "act" /\ Exhausted /\ rung < 3
  /\ rung' = rung + 1 /\ polled' = 0
  /\ UNCHANGED <<linkVars, ismQ, amQ, statusFile, files, sim, notice, ismVars,
                 amPc, amMsg, round, attempt, history>>

AmNextRung ==
  /\ amPc = "act" /\ Exhausted /\ rung < 3
  /\ rung' = rung + 1 /\ attempt' = 1 /\ polled' = 0
  /\ UNCHANGED <<linkVars, ismQ, amQ, statusFile, files, sim, notice, ismVars,
                 amPc, amMsg, round, history>>

(* All rungs are exhausted: report it, unless there was none to try.        *)
AmGiveUp ==
  /\ amPc = "act" /\ Exhausted /\ rung = 3
  /\ ismQ' = IF Enabled = {} THEN ismQ
             ELSE Publish(ismQ, [st |-> "actionsfailure", ip |-> None, ping |-> None])
  /\ AmExit
  /\ UNCHANGED <<linkVars, amQ, statusFile, files, sim, notice, ismVars>>

(* ModemRecycle and SimSwitch first take the interface down ...             *)
AmIfdown ==
  /\ amPc = "act" /\ ~Exhausted /\ Cmd[rung] # "BoardRecycle"
  /\ link' = [ip |-> None, reach |-> FALSE]
  /\ ismQ' = IF link.ip = None THEN ismQ
             ELSE Publish(ismQ, [st |-> "ifdown", ip |-> None, ping |-> None])
  /\ amPc' = "down"
  /\ tries' = [tries EXCEPT ![rung] = @ + 1] /\ quiet' = 0
  /\ UNCHANGED <<drops, amQ, statusFile, files, sim, notice, ismVars,
                 amMsg, round, rung, attempt, polled>>

(* Mutant: the next SIM is not wrapped around.                              *)
OtherSimUnwrapped == IF simnum = None THEN 2 ELSE simnum + 1

(* ... then power-cycle the modem, SimSwitch on the other SIM, and open the *)
(* arguments file for the ISM.                                              *)
OtherSim == IF simnum = None \/ simnum = 1 THEN 2 ELSE 1

AmRecycle ==
  /\ amPc = "down"
  /\ IF Cmd[rung] = "SimSwitch" THEN simnum' = OtherSim /\ gpio' = OtherSim
                                ELSE UNCHANGED sim
  /\ argsFile' = "partial"
  /\ amPc' = "record"
  /\ UNCHANGED <<linkVars, ismQ, amQ, statusFile, infoFile, ipDown, notice,
                 ismVars, amMsg, round, rung, attempt, polled, tries, quiet>>

(* The body of BoardRecycle is commented out: nothing is executed.          *)
AmBoardRecycle ==
  /\ amPc = "act" /\ ~Exhausted /\ Cmd[rung] = "BoardRecycle"
  /\ argsFile' = "partial"
  /\ amPc' = "record"
  /\ tries' = [tries EXCEPT ![rung] = @ + 1] /\ quiet' = 0
  /\ UNCHANGED <<linkVars, ismQ, amQ, statusFile, infoFile, ipDown, sim, notice,
                 ismVars, amMsg, round, rung, attempt, polled>>

(* The second line, ActionCmd.  If the ISM removed the file in between, the *)
(* line goes to the removed file.                                           *)
AmRecord ==
  /\ amPc = "record"
  /\ argsFile' = IF argsFile = "partial" THEN Cmd[rung] ELSE argsFile
  /\ amPc' = "poll"
  /\ UNCHANGED <<linkVars, ismQ, amQ, statusFile, infoFile, ipDown, sim, notice,
                 ismVars, amMsg, round, rung, attempt, polled, history>>

(* Mutant: the last look at the status is not taken.                        *)
PollsDoneEarly == polled + 1 >= Polls[rung]

(* The wait of an attempt is over.                                          *)
PollsDone == polled >= Polls[rung]

(* Sleep one query interval and look at the status.                         *)
AmPoll ==
  /\ amPc = "poll" /\ ~PollsDone
  /\ IF statusFile = "UP"
       THEN AmExit
       ELSE /\ polled' = polled + 1 /\ quiet' = quiet + 1
            /\ UNCHANGED <<amPc, amMsg, round, rung, attempt, tries>>
  /\ UNCHANGED <<linkVars, ismQ, amQ, statusFile, files, sim, notice, ismVars>>

AmAttemptOver ==
  /\ amPc = "poll" /\ PollsDone
  /\ amPc' = "act"
  /\ attempt' = attempt + 1 /\ polled' = 0
  /\ UNCHANGED <<linkVars, ismQ, amQ, statusFile, files, sim, notice, ismVars,
                 amMsg, round, rung, history>>

-----------------------------------------------------------------------------
Init ==
  /\ link = [ip |-> None, reach |-> FALSE] /\ drops = 0
  /\ ismQ = <<>> /\ amQ = <<>>
  /\ statusFile = "blank"
  /\ argsFile = None /\ infoFile = None /\ ipDown = FALSE
  /\ simnum \in {None, 1} /\ gpio = 1
  /\ notice = [cmd |-> "connected", ip |-> None]
  /\ ismPc = "idle" /\ ismCmd = "auto"
  /\ ismMsg = NoMsg
  /\ amPc = "idle" /\ amMsg = NoNotice
  /\ round = 1 /\ rung = 1 /\ attempt = 1 /\ polled = 0
  /\ tries = [r \in Rungs |-> 0] /\ quiet = 0

IsmStep == IsmTake \/ IsmNotifyUp \/ IsmWrite

Action == AmNextRung \/ AmGiveUp \/ AmIfdown \/ AmRecycle \/ AmBoardRecycle
            \/ AmRecord \/ AmPoll \/ AmAttemptOver

AmStep  == AmTake \/ AmReadStatus \/ AmSleep \/ Action

LinkStep == (\E ip \in IPs : LinkUp(ip)) \/ LinkLost \/ ReachLost \/ ReachBack

Next == LinkStep \/ AnalyticsTest \/ IsmStep \/ AmStep

Spec == Init /\ [][Next]_vars

(* Scheduling: cron repeats the data test for ever; a dispatcher hands over *)
(* the next message when the previous script has ended, and a script that   *)
(* can continue does.  The wait loop reads the status file for ever while   *)
(* it spins, so it sees a value that keeps coming back.                     *)
Fairness == /\ WF_vars(AnalyticsTest) /\ WF_vars(IsmStep)
            /\ WF_vars(AmTake) /\ SF_vars(AmReadStatus)
            /\ WF_vars(AmSleep) /\ WF_vars(Action)

FairSpec == Spec /\ Fairness
-----------------------------------------------------------------------------
(* Properties.                                                              *)

(* Every variable keeps to the values the scripts can put there.            *)
TypeOK ==
  /\ link \in [ip: IPs \union {None}, reach: BOOLEAN] /\ drops \in Nat
  /\ ismQ \in Seq(IsmMsgs) /\ amQ \in Seq(AmMsgs)
  /\ statusFile \in {"blank", "UP", "DN"}
  /\ argsFile \in Commands \union {"partial", None}
  /\ infoFile \in IPs \union {None} /\ ipDown \in BOOLEAN
  /\ simnum \in {None, 1, 2} /\ gpio \in {1, 2}
  /\ notice \in Notices
  /\ ismPc \in {"idle", "notify", "write"} /\ ismMsg \in IsmMsgs
  /\ ismCmd \in Commands \union {"partial", "auto", "connected"}
  /\ amPc \in {"idle", "wait", "sleep", "act", "down", "record", "poll"}
  /\ amMsg \in AmMsgs /\ round \in Nat /\ rung \in Rungs
  /\ attempt \in Nat /\ polled \in Nat
  /\ tries \in [Rungs -> Nat] /\ quiet \in Nat

(* An outage on record is always somebody's to deal with: while the status  *)
(* file says DN and the ISM is between messages, a DN notice waits for the  *)
(* AM, the AM is running, or another report is on its way to the ISM.  It   *)
(* breaks if any of the three scripts ends without telling the next one.    *)
OutageOwned ==
  statusFile = "DN" /\ ismPc = "idle" /\ Enabled # {}
    => amQ # <<>> \/ amPc # "idle" \/ ismQ # <<>>

(* No UP goes on record before the operator has been told the address it    *)
(* came with: what GetActionCommand took for an address already announced   *)
(* still is when the status is written, and an UP on record has an address, *)
(* whether it came from the data test or, late, from the AM's ping.         *)
UpAnnounced ==
  /\ ismPc = "write" /\ ismMsg.st = "UP" => infoFile = ismMsg.ip /\ ~ipDown
  /\ statusFile = "UP" => infoFile # None /\ notice.ip = infoFile

(* The ladder is climbed in order: while it is at a rung, the rungs below   *)
(* have had all their attempts and those above none, and the loop counter   *)
(* of PerformAction agrees with the attempts really made.                   *)
OnLadder == amPc \in {"act", "down", "record", "poll"}

LadderInOrder ==
  OnLadder =>
    /\ \A r \in Rungs : r < rung => tries[r] = Attempts(r)
    /\ \A r \in Rungs : r > rung => tries[r] = 0
    /\ tries[rung] = IF amPc = "act" THEN attempt - 1 ELSE attempt
    /\ tries[rung] <= Attempts(rung)

(* Every attempt is given its whole wait: when the AM is about to make the  *)
(* next attempt or to give up, it has looked at the status file exactly     *)
(* Polls times since the last one, and never saw UP.                        *)
AttemptsWaited ==
  amPc = "act" =>
    \A r \in Rungs : (tries[r] > 0 /\ \A s \in Rungs : s > r => tries[s] = 0)
                       => quiet = Polls[r]

(* What the poll loop has counted so far: with it the two properties above  *)
(* are inductive.                                                           *)
PollCount ==
  /\ amPc \in {"down", "record", "poll"} => quiet = polled /\ attempt <= Attempts(rung)
  /\ amPc = "poll" => polled <= Polls[rung]
  /\ amPc \in {"act", "down", "record"} => polled = 0
  /\ ~OnLadder => /\ rung = 1 /\ attempt = 1 /\ polled = 0
                  /\ tries = [r \in Rungs |-> 0]
  /\ OnLadder => attempt >= 1

LadderInv == LadderInOrder /\ AttemptsWaited /\ PollCount

(* PerformAction ends without an UP only when every enabled rung has had    *)
(* the attempts configured for it; only then is actionsfailure reported.    *)
GiveUpOnlyExhausted ==
  [][amPc = "act" /\ amPc' = "idle" => \A r \in Rungs : tries[r] = Attempts(r)]_vars

(* The three loops of PerformAction, with their counters, their queues and  *)
(* files, implement the ladder of RecoveryLadder: each step of a manager is *)
(* a step of it or leaves it alone.                                         *)
Phase == CASE amPc = "idle" -> "idle"
           [] amPc \in {"wait", "sleep"} -> "waiting"
           [] OTHER -> "acting"

Ladder == INSTANCE RecoveryLadder
            WITH Levels <- Rungs, Given <- [r \in Rungs |-> Attempts(r)],
                 phase <- Phase, made <- tries, up <- (statusFile = "UP")

ImplementsLadder == Ladder!Spec

(* A run of the AM always ends, whatever the link does.                     *)
EveryRunEnds == amPc # "idle" ~> amPc = "idle"

(* If the link comes up for good with address a, the status file says UP    *)
(* again and again, and a is and stays the address the operator was told.   *)
SettlesUp ==
  \A a \in IPs : <>[](link = [ip |-> a, reach |-> TRUE])
                   => []<>(statusFile = "UP") /\ <>[](infoFile = a)

(* If the link is down for good, the AM never stops trying to recover it.   *)
OutageRetried ==
  <>[](link.ip = None) => []<>(amPc = "record")

(* The comment of NotifyIPChange, "else calls notifyipchange script based   *)
(* ip available status": once the actions have failed the operator is told  *)
(* that the address is gone, which IF.IPDown records.                       *)
FailureNotified == ismPc = "write" /\ ismMsg.st = "actionsfailure" => ipDown

(* The comment of WaitForAutoRecover, "wait for 5 minutes by sleeping for   *)
(* every minute": the wait comes to an end.                                 *)
WaitEnds == amPc = "wait" ~> amPc # "wait"
=============================================================================
