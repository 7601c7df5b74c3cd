------------------------- MODULE IfaceRecovery_proofs -------------------------
(* Theorems about IfaceRecovery, for every value of its constants.          *)
EXTENDS IfaceRecovery, SequenceTheorems, TLAPS

(* A publication keeps a queue a queue of the same messages, and leaves it  *)
(* non-empty: a full queue drops the message but was not empty.             *)
LEMMA PublishType ==
  ASSUME NEW S, NEW q \in Seq(S), NEW m \in S
  PROVE  Publish(q, m) \in Seq(S) /\ Publish(q, m) # <<>>
<1>1. Append(q, m) \in Seq(S) /\ Append(q, m) # <<>>
  BY AppendProperties
<1>2. CASE Len(q) < QCap
  BY <1>1, <1>2 DEF Publish
<1>3. CASE ~(Len(q) < QCap)
  <2>1. QCap \in Nat \ {0} /\ Len(q) \in Nat
    BY BoundAssumption
  <2>2. q # <<>>
    BY <1>3, <2>1
  <2>3. QED
    BY <1>3, <2>2 DEF Publish
<1>4. QED
  BY <1>2, <1>3

(* Every ladder rung has a finite number of attempts.                       *)
LEMMA AttemptsType == \A r \in Rungs : Attempts(r) \in Nat
BY LadderAssumption DEF Attempts, Rungs

LEMMA TypeInit == Init => TypeOK
<1> SUFFICES ASSUME Init PROVE TypeOK
  OBVIOUS
<1> USE DEF Init
<1>1. link \in [ip: IPs \union {None}, reach: BOOLEAN] /\ drops \in Nat
  OBVIOUS
<1>2. ismQ \in Seq(IsmMsgs) /\ amQ \in Seq(AmMsgs)
  OBVIOUS
<1>3. notice \in Notices /\ ismMsg \in IsmMsgs /\ amMsg \in AmMsgs
  BY DEF Notices, IsmMsgs, AmMsgs, NoMsg, NoNotice
<1>4. tries \in [Rungs -> Nat] /\ rung \in Rungs
  BY DEF Rungs
<1>5. QED
  BY <1>1, <1>2, <1>3, <1>4 DEF TypeOK

LEMMA TypeStep == TypeOK /\ [Next]_vars => TypeOK'
<1> SUFFICES ASSUME TypeOK, [Next]_vars PROVE TypeOK'
  OBVIOUS
<1> USE DEF TypeOK, linkVars, files, sim, ismVars, amVars, history
<1>1. ASSUME NEW ip \in IPs, LinkUp(ip) PROVE TypeOK'
  BY <1>1 DEF LinkUp
<1>2. CASE LinkLost
  <2>1. [st |-> "ifdown", ip |-> None, ping |-> None] \in IsmMsgs
    BY DEF IsmMsgs
  <2>2. ismQ' \in Seq(IsmMsgs)
    BY <1>2, <2>1, PublishType DEF LinkLost
  <2>3. QED
    BY <1>2, <2>2 DEF LinkLost
<1>3. CASE ReachLost
  <2>1. link' \in [ip: IPs \union {None}, reach: BOOLEAN]
    BY <1>3 DEF ReachLost
  <2>2. QED
    BY <1>3, <2>1 DEF ReachLost
<1>4. CASE ReachBack
  <2>1. link' \in [ip: IPs \union {None}, reach: BOOLEAN]
    BY <1>4 DEF ReachBack
  <2>2. QED
    BY <1>4, <2>1 DEF ReachBack
<1>5. CASE AnalyticsTest
  <2>1. TestReport \in IsmMsgs
    BY DEF TestReport, IsmMsgs
  <2>2. ismQ' \in Seq(IsmMsgs)
    BY <1>5, <2>1, AppendProperties DEF AnalyticsTest
  <2>3. QED
    BY <1>5, <2>2 DEF AnalyticsTest
<1>6. CASE IsmTake
  <2>1. Head(ismQ) \in IsmMsgs /\ Tail(ismQ) \in Seq(IsmMsgs)
    BY <1>6 DEF IsmTake
  <2>2. ActionCommand(Head(ismQ).ip) \in Commands \union {"partial", "auto", "connected"}
    BY DEF ActionCommand
  <2>3. QED
    BY <1>6, <2>1, <2>2 DEF IsmTake
<1>7. CASE IsmNotifyUp
  <2>1. ismMsg.ip \in IPs \union {None}
    BY DEF IsmMsgs
  <2>2. [cmd |-> ismCmd, ip |-> ismMsg.ip] \in Notices
    BY <2>1 DEF Notices
  <2>3. QED
    BY <1>7, <2>1, <2>2 DEF IsmNotifyUp
<1>8. CASE IsmWrite
  <2>1. [ip |-> ismMsg.ip, ping |-> ismMsg.ping] \in AmMsgs
    BY DEF IsmMsgs, AmMsgs
  <2>2. amQ' \in Seq(AmMsgs)
    BY <1>8, <2>1, PublishType DEF IsmWrite
  <2>3. NoMsg \in IsmMsgs /\ StatusOf(ismMsg) \in {"blank", "UP", "DN"}
    BY DEF NoMsg, IsmMsgs, StatusOf
  <2>4. QED
    BY <1>8, <2>2, <2>3 DEF IsmWrite
<1> NoNotice \in AmMsgs /\ 1 \in Rungs
  BY DEF NoNotice, AmMsgs, Rungs
<1>9. CASE AmTake
  <2>1. Head(amQ) \in AmMsgs /\ Tail(amQ) \in Seq(AmMsgs)
    BY <1>9 DEF AmTake
  <2>2. QED
    BY <1>9, <2>1 DEF AmTake, Fresh
<1>10. CASE AmReadStatus
  BY <1>10 DEF AmReadStatus, AmExit, Fresh
<1>11. CASE AmSleep
  <2>1. [st |-> "UP", ip |-> amMsg.ip, ping |-> 0] \in IsmMsgs
    BY DEF IsmMsgs, AmMsgs
  <2>2. ismQ' \in Seq(IsmMsgs)
    <3>1. Publish(ismQ, [st |-> "UP", ip |-> amMsg.ip, ping |-> 0]) \in Seq(IsmMsgs)
      BY <2>1, PublishType
    <3>2. QED
      BY <1>11, <3>1 DEF AmSleep
  <2>3. QED
    BY <1>11, <2>2 DEF AmSleep, AmExit, Fresh
<1>12. CASE AmNextRung
  BY <1>12 DEF AmNextRung, Rungs
<1>13. CASE AmGiveUp
  <2>1. [st |-> "actionsfailure", ip |-> None, ping |-> None] \in IsmMsgs
    BY DEF IsmMsgs
  <2>2. ismQ' \in Seq(IsmMsgs)
    BY <1>13, <2>1, PublishType DEF AmGiveUp
  <2>3. QED
    BY <1>13, <2>2 DEF AmGiveUp, AmExit, Fresh
<1>14. CASE AmIfdown
  <2>1. [st |-> "ifdown", ip |-> None, ping |-> None] \in IsmMsgs
    BY DEF IsmMsgs
  <2>2. ismQ' \in Seq(IsmMsgs)
    BY <1>14, <2>1, PublishType DEF AmIfdown
  <2>3. QED
    BY <1>14, <2>2 DEF AmIfdown
<1> Cmd[rung] \in Commands
  BY CmdAssumption
<1>15. CASE AmRecycle
  BY <1>15 DEF AmRecycle, OtherSim
<1>16. CASE AmBoardRecycle
  BY <1>16 DEF AmBoardRecycle
<1>17. CASE AmRecord
  BY <1>17 DEF AmRecord
<1>18. CASE AmPoll
  BY <1>18 DEF AmPoll, AmExit, Fresh
<1>19. CASE AmAttemptOver
  BY <1>19 DEF AmAttemptOver
<1>20. CASE UNCHANGED vars
  BY <1>20 DEF vars
<1>21. QED
  BY <1>1, <1>2, <1>3, <1>4, <1>5, <1>6, <1>7, <1>8, <1>9, <1>10, <1>11, <1>12,
     <1>13, <1>14, <1>15, <1>16, <1>17, <1>18, <1>19, <1>20
     DEF Next, LinkStep, IsmStep, AmStep, Action

(* Type correctness: the managers only ever put into the shared files and   *)
(* queues the values the other managers can read.                           *)
THEOREM TypeCorrect == Spec => []TypeOK
BY TypeInit, TypeStep, PTL DEF Spec

-----------------------------------------------------------------------------
LEMMA OwnedInit == Init => OutageOwned
BY DEF Init, OutageOwned

LEMMA OwnedStep == TypeOK /\ OutageOwned /\ [Next]_vars => OutageOwned'
<1> SUFFICES ASSUME TypeOK, OutageOwned, [Next]_vars, Enabled # {},
                    statusFile' = "DN", ismPc' = "idle"
             PROVE  amQ' # <<>> \/ amPc' # "idle" \/ ismQ' # <<>>
  BY DEF OutageOwned
<1> USE DEF OutageOwned, linkVars, files, sim, ismVars, amVars, history
<1>1. ASSUME NEW ip \in IPs, LinkUp(ip) PROVE amQ' # <<>> \/ amPc' # "idle" \/ ismQ' # <<>>
  BY <1>1 DEF LinkUp
<1>2. CASE LinkLost
  <2>1. [st |-> "ifdown", ip |-> None, ping |-> None] \in IsmMsgs
    BY DEF IsmMsgs
  <2>2. ismQ' # <<>>
    BY <1>2, <2>1, PublishType DEF LinkLost, TypeOK
  <2>3. QED
    BY <2>2
<1>3. CASE ReachLost
  BY <1>3 DEF ReachLost
<1>4. CASE ReachBack
  BY <1>4 DEF ReachBack
<1>5. CASE AnalyticsTest
  <2>1. TestReport \in IsmMsgs
    BY DEF TestReport, IsmMsgs, TypeOK
  <2>2. ismQ' # <<>>
    BY <1>5, <2>1, AppendProperties DEF AnalyticsTest, TypeOK
  <2>3. QED
    BY <2>2
<1>6. CASE IsmTake
  BY <1>6 DEF IsmTake
<1>7. CASE IsmNotifyUp
  BY <1>7 DEF IsmNotifyUp
<1>8. CASE IsmWrite
  <2>1. [ip |-> ismMsg.ip, ping |-> ismMsg.ping] \in AmMsgs
    BY DEF IsmMsgs, AmMsgs, TypeOK
  <2>2. Wakes(ismMsg)
    BY <1>8 DEF IsmWrite, Wakes
  <2>3. amQ' # <<>>
    BY <1>8, <2>1, <2>2, PublishType DEF IsmWrite, TypeOK
  <2>4. QED
    BY <2>3
<1>9. CASE AmTake
  BY <1>9 DEF AmTake
<1>10. CASE AmReadStatus
  BY <1>10 DEF AmReadStatus
<1>11. CASE AmSleep
  <2>1. [st |-> "UP", ip |-> amMsg.ip, ping |-> 0] \in IsmMsgs
    BY DEF IsmMsgs, AmMsgs, TypeOK
  <2>2. CASE PingDue /\ Pings
    BY <1>11, <2>1, <2>2, PublishType DEF AmSleep, TypeOK
  <2>3. CASE ~(PingDue /\ Pings)
    BY <1>11, <2>3 DEF AmSleep
  <2>4. QED
    BY <2>2, <2>3
<1>12. CASE AmGiveUp
  <2>1. [st |-> "actionsfailure", ip |-> None, ping |-> None] \in IsmMsgs
    BY DEF IsmMsgs
  <2>2. ismQ' # <<>>
    BY <1>12, <2>1, PublishType DEF AmGiveUp, TypeOK
  <2>3. QED
    BY <2>2
<1>13. CASE AmNextRung \/ AmIfdown \/ AmRecycle \/ AmBoardRecycle \/ AmRecord \/ AmAttemptOver
  BY <1>13 DEF AmNextRung, AmIfdown, AmRecycle, AmBoardRecycle, AmRecord, AmAttemptOver
<1>14. CASE AmPoll
  BY <1>14 DEF AmPoll
<1>15. CASE UNCHANGED vars
  BY <1>15 DEF vars
<1>16. QED
  BY <1>1, <1>2, <1>3, <1>4, <1>5, <1>6, <1>7, <1>8, <1>9, <1>10, <1>11, <1>12,
     <1>13, <1>14, <1>15 DEF Next, LinkStep, IsmStep, AmStep, Action

(* An outage the status file records is never forgotten: as long as some    *)
(* rung is enabled, a notice, a running AM or a report is there to deal     *)
(* with it, for every ladder, queue capacity and number of link losses.     *)
THEOREM OutageNeverForgotten == Spec => []OutageOwned
BY OwnedInit, OwnedStep, TypeCorrect, PTL DEF Spec

-----------------------------------------------------------------------------
(* What the operator is told of an UP.  Every report of an UP carries an    *)
(* address, and nobody but the ISM touches what it decides with.            *)
UpsHaveIP(q) == \A i \in 1..Len(q) : q[i].st = "UP" => q[i].ip # None

AnnounceInv ==
  /\ UpsHaveIP(ismQ)
  /\ ismMsg.st = "UP" => ismMsg.ip # None
  /\ ismPc = "notify" => ismMsg.st = "UP"
  /\ ismPc = "notify" /\ ismCmd = "connected" => infoFile = ismMsg.ip
  /\ notice.ip = infoFile
  /\ UpAnnounced

LEMMA PublishUps ==
  ASSUME NEW q \in Seq(IsmMsgs), UpsHaveIP(q), NEW m \in IsmMsgs,
         m.st = "UP" => m.ip # None
  PROVE  UpsHaveIP(Publish(q, m)) /\ UpsHaveIP(Append(q, m))
<1>1. /\ Len(q) \in Nat /\ Len(Append(q, m)) = Len(q) + 1
      /\ \A i \in 1..Len(q) : Append(q, m)[i] = q[i]
      /\ Append(q, m)[Len(q) + 1] = m
  BY AppendProperties
<1>2. UpsHaveIP(Append(q, m))
  BY <1>1 DEF UpsHaveIP
<1>3. QED
  BY <1>2 DEF Publish

(* A report that is no UP, or no report, from anyone but the ISM.           *)
LEMMA AnnounceKept ==
  ASSUME AnnounceInv, UNCHANGED <<statusFile, infoFile, ipDown, notice, ismVars>>,
         UpsHaveIP(ismQ')
  PROVE  AnnounceInv'
BY DEF AnnounceInv, UpAnnounced, ismVars

LEMMA AnnounceStep == TypeOK /\ AnnounceInv /\ [Next]_vars => AnnounceInv'
<1> SUFFICES ASSUME TypeOK, AnnounceInv, [Next]_vars PROVE AnnounceInv'
  OBVIOUS
<1> USE DEF linkVars, files, sim, amVars, history
<1>1. UpsHaveIP(ismQ) /\ ismQ \in Seq(IsmMsgs)
  BY DEF AnnounceInv, TypeOK
<1>2. ASSUME NEW st \in {"ifdown", "actionsfailure"},
             ismQ' = Publish(ismQ, [st |-> st, ip |-> None, ping |-> None])
      PROVE  UpsHaveIP(ismQ')
  <2>1. [st |-> st, ip |-> None, ping |-> None] \in IsmMsgs
    BY DEF IsmMsgs
  <2>2. QED
    BY <1>1, <1>2, <2>1, PublishUps
<1>3. CASE LinkLost
  BY <1>2, <1>3, AnnounceKept DEF LinkLost
<1>4. CASE AnalyticsTest
  <2>1. TestReport \in IsmMsgs
    BY DEF TestReport, IsmMsgs, TypeOK
  <2>2. TestReport.st = "UP" => TestReport.ip # None
    BY DEF TestReport
  <2>3. QED
    BY <1>1, <1>4, <2>1, <2>2, PublishUps, AnnounceKept DEF AnalyticsTest
<1>5. CASE AmSleep
  <2>1. CASE PingDue /\ Pings
    <3>1. [st |-> "UP", ip |-> amMsg.ip, ping |-> 0] \in IsmMsgs /\ amMsg.ip # None
      BY <2>1 DEF IsmMsgs, AmMsgs, TypeOK, PingDue
    <3>2. UpsHaveIP(ismQ')
      BY <1>1, <1>5, <2>1, <3>1, PublishUps DEF AmSleep
    <3>3. QED
      BY <1>5, <3>2, AnnounceKept DEF AmSleep
  <2>2. CASE ~(PingDue /\ Pings)
    BY <1>1, <1>5, <2>2, AnnounceKept DEF AmSleep
  <2>3. QED
    BY <2>1, <2>2
<1>6. CASE AmGiveUp
  BY <1>1, <1>2, <1>6, AnnounceKept DEF AmGiveUp
<1>7. CASE AmIfdown
  BY <1>1, <1>2, <1>7, AnnounceKept DEF AmIfdown
<1>8. CASE ReachLost \/ ReachBack \/ \E ip \in IPs : LinkUp(ip)
  BY <1>1, <1>8, AnnounceKept DEF ReachLost, ReachBack, LinkUp
<1>9. CASE \/ AmTake \/ AmReadStatus \/ AmNextRung \/ AmRecycle \/ AmBoardRecycle
           \/ AmRecord \/ AmPoll \/ AmAttemptOver
  BY <1>1, <1>9, AnnounceKept DEF AmTake, AmReadStatus, AmNextRung, AmRecycle,
     AmBoardRecycle, AmRecord, AmPoll, AmAttemptOver
<1>10. CASE IsmTake
  <2>1. /\ ismQ # <<>> /\ ismQ' = Tail(ismQ) /\ ismMsg' = Head(ismQ)
        /\ UNCHANGED <<infoFile, ipDown, notice>>
    BY <1>10 DEF IsmTake
  <2>2. /\ Len(ismQ) \in Nat /\ 1 \in 1..Len(ismQ) /\ Head(ismQ) = ismQ[1]
        /\ Len(Tail(ismQ)) = Len(ismQ) - 1
        /\ \A i \in 1..Len(Tail(ismQ)) : Tail(ismQ)[i] = ismQ[i+1]
    BY <1>1, <2>1, HeadTailProperties, EmptySeq
  <2>3. UpsHaveIP(Tail(ismQ))
    BY <1>1, <2>2 DEF UpsHaveIP
  <2>4. Head(ismQ).st = "UP" => Head(ismQ).ip # None
    BY <1>1, <2>2 DEF UpsHaveIP
  <2>5. CASE Head(ismQ).st = "UP"
    <3>1. /\ ismPc' = "notify" /\ ismCmd' = ActionCommand(Head(ismQ).ip)
          /\ statusFile' = statusFile
      BY <1>10, <2>5 DEF IsmTake
    <3>2. ismCmd' = "connected" => infoFile = Head(ismQ).ip
      BY <3>1 DEF ActionCommand, TypeOK, Commands
    <3>3. QED
      BY <2>1, <2>3, <2>4, <2>5, <3>1, <3>2 DEF AnnounceInv, UpAnnounced
  <2>6. CASE Head(ismQ).st # "UP"
    <3>1. ismPc' = "write" /\ statusFile' = "blank"
      BY <1>10, <2>6 DEF IsmTake
    <3>2. QED
      BY <2>1, <2>3, <2>6, <3>1 DEF AnnounceInv, UpAnnounced
  <2>7. QED
    BY <2>5, <2>6
<1>11. CASE IsmNotifyUp
  BY <1>11 DEF IsmNotifyUp, Announced, AnnounceInv, UpAnnounced
<1>12. CASE IsmWrite
  BY <1>12 DEF IsmWrite, StatusOf, NoMsg, AnnounceInv, UpAnnounced
<1>13. CASE UNCHANGED vars
  BY <1>1, <1>13, AnnounceKept DEF vars, ismVars
<1>14. QED
  BY <1>3, <1>4, <1>5, <1>6, <1>7, <1>8, <1>9, <1>10, <1>11, <1>12, <1>13
     DEF Next, LinkStep, IsmStep, AmStep, Action

(* The status file never says UP of an address the operator was not told,   *)
(* for any addresses, queue capacity, ladder and number of link losses.     *)
THEOREM UpAlwaysAnnounced == Spec => []UpAnnounced
<1>1. Init => AnnounceInv
  BY DEF Init, AnnounceInv, UpAnnounced, UpsHaveIP, NoMsg
<1>2. AnnounceInv => UpAnnounced
  BY DEF AnnounceInv
<1>3. QED
  BY <1>1, <1>2, AnnounceStep, TypeCorrect, PTL DEF Spec

-----------------------------------------------------------------------------
(* The ladder: LadderInOrder and AttemptsWaited are inductive together with *)
(* PollCount, what the poll loop has counted so far.                        *)
LEMMA LadderInit == Init => LadderInv
BY DEF Init, LadderInv, LadderInOrder, AttemptsWaited, PollCount, OnLadder

LEMMA LadderStep == TypeOK /\ LadderInv /\ [Next]_vars => LadderInv'
<1> SUFFICES ASSUME TypeOK, LadderInv, [Next]_vars PROVE LadderInv'
  OBVIOUS
<1> DEFINE Scripts == <<amPc, rung, attempt, polled, tries, quiet>>
<1> USE DEF LadderInv, LadderInOrder, AttemptsWaited, PollCount, OnLadder, Exhausted,
           PollsDone
<1>a. rung \in 1..3 /\ attempt \in Nat /\ polled \in Nat /\ quiet \in Nat
      /\ tries \in [1..3 -> Nat] /\ Polls \in [1..3 -> Nat]
      /\ \A r \in 1..3 : Attempts(r) \in Nat
  BY AttemptsType, LadderAssumption DEF TypeOK, Rungs
<1>b. ASSUME AmExit PROVE LadderInv'
  BY <1>b DEF AmExit, Fresh
(* The steps of the link, of the analytics and of the ISM, and stuttering. *)
<1>1. CASE LinkStep \/ AnalyticsTest \/ IsmStep \/ UNCHANGED vars
  <2>1. UNCHANGED Scripts
    BY <1>1 DEF LinkStep, LinkUp, LinkLost, ReachLost, ReachBack, AnalyticsTest,
         IsmStep, IsmTake, IsmNotifyUp, IsmWrite, amVars, history, vars
  <2>2. QED
    BY <2>1
<1>2. CASE AmTake
  BY <1>2 DEF AmTake, Fresh
<1>3. CASE AmReadStatus
  BY <1>3, <1>b DEF AmReadStatus
<1>4. CASE AmSleep
  <2>1. CASE PingDue /\ Pings
    BY <1>4, <2>1, <1>b DEF AmSleep
  <2>2. CASE ~(PingDue /\ Pings)
    BY <1>4, <2>2, <1>a DEF AmSleep, Rungs
  <2>3. QED
    BY <2>1, <2>2
<1>5. CASE AmNextRung
  <2>1. tries[rung] = Attempts(rung)
    BY <1>5, <1>a DEF AmNextRung
  <2>2. LadderInOrder'
    BY <1>5, <1>a, <2>1 DEF AmNextRung, history, Rungs
  <2>3. (AttemptsWaited /\ PollCount)'
    BY <1>5, <1>a DEF AmNextRung, history, Rungs
  <2>4. QED
    BY <2>2, <2>3
<1>6. CASE AmGiveUp
  BY <1>6, <1>b DEF AmGiveUp
<1>7. CASE AmIfdown \/ AmBoardRecycle
  BY <1>7, <1>a DEF AmIfdown, AmBoardRecycle, Rungs
<1>8. CASE AmRecycle \/ AmRecord
  BY <1>8, <1>a DEF AmRecycle, AmRecord, history, Rungs
<1>9. CASE AmPoll
  <2>1. CASE statusFile = "UP"
    BY <1>9, <2>1, <1>b DEF AmPoll
  <2>2. CASE statusFile # "UP"
    BY <1>9, <2>2, <1>a DEF AmPoll, Rungs
  <2>3. QED
    BY <2>1, <2>2
<1>10. CASE AmAttemptOver
  <2>1. quiet = Polls[rung]
    BY <1>10, <1>a DEF AmAttemptOver
  <2>2. \A r \in Rungs : r # rung => ~(tries[r] > 0 /\ \A s \in Rungs : s > r => tries[s] = 0)
    BY <1>10, <1>a DEF AmAttemptOver, Rungs
  <2>3. AttemptsWaited'
    BY <1>10, <2>1, <2>2, <1>a DEF AmAttemptOver, history
  <2>4. (LadderInOrder /\ PollCount)'
    BY <1>10, <1>a DEF AmAttemptOver, history, Rungs
  <2>5. QED
    BY <2>3, <2>4
<1>11. QED
  BY <1>1, <1>2, <1>3, <1>4, <1>5, <1>6, <1>7, <1>8, <1>9, <1>10
     DEF Next, AmStep, Action

(* For every ladder configuration: the rungs are climbed in order, each as  *)
(* often as configured, and every attempt is given its whole wait.          *)
THEOREM LadderSound == Spec => [](LadderInOrder /\ AttemptsWaited)
<1>1. LadderInv => LadderInOrder /\ AttemptsWaited
  BY DEF LadderInv
<1>2. QED
  BY LadderInit, LadderStep, TypeCorrect, <1>1, PTL DEF Spec

(* Each attempt of the action manager, the last of a rung included, is      *)
(* followed by its whole wait before the next one cuts a recovery off.      *)
THEOREM AttemptsGetTheirWait == Spec => []AttemptsWaited
<1>1. LadderInOrder /\ AttemptsWaited => AttemptsWaited
  OBVIOUS
<1>2. QED
  BY LadderSound, <1>1, PTL

(* The action manager gives up, and reports actionsfailure, only after all  *)
(* the configured attempts.                                                 *)
THEOREM GiveUpSound == Spec => GiveUpOnlyExhausted
<1> DEFINE GaveUp == amPc = "act" /\ amPc' = "idle"
                         => \A r \in Rungs : tries[r] = Attempts(r)
<1>1. TypeOK /\ LadderInv /\ [Next]_vars => [GaveUp]_vars
  <2> SUFFICES ASSUME TypeOK, LadderInv, Next, amPc = "act", amPc' = "idle"
               PROVE  \A r \in Rungs : tries[r] = Attempts(r)
    OBVIOUS
  <2>1. AmGiveUp
    BY DEF Next, LinkStep, LinkUp, LinkLost, ReachLost, ReachBack, AnalyticsTest,
       IsmStep, IsmTake, IsmNotifyUp, IsmWrite, AmStep, AmTake, AmReadStatus,
       AmSleep, Action, AmNextRung, AmIfdown, AmRecycle, AmBoardRecycle,
       AmRecord, AmPoll, AmAttemptOver, amVars
  <2>2. tries[3] = Attempts(3) /\ rung = 3
    BY <2>1, AttemptsType DEF AmGiveUp, Exhausted, LadderInv, LadderInOrder, OnLadder, TypeOK, Rungs
  <2>3. QED
    BY <2>2 DEF LadderInv, LadderInOrder, OnLadder, Rungs
<1>2. QED
  BY <1>1, LadderInit, LadderStep, TypeCorrect, PTL DEF Spec, GiveUpOnlyExhausted

-----------------------------------------------------------------------------
(* The refinement of RecoveryLadder.                                        *)

LEMMA RefineInit == Init => Ladder!Init
BY DEF Init, Ladder!Init, Ladder!NoneMade, Phase

(* The end of a run is a recovery unless it gives up.                       *)
LEMMA RefineExit ==
  ASSUME AmExit, UNCHANGED statusFile,
         amPc \in {"wait", "sleep"} \/ (OnLadder /\ statusFile = "UP")
  PROVE  Ladder!Recovered
<1>1. Phase' = "idle" /\ tries' = Ladder!NoneMade
  BY DEF AmExit, Fresh, Phase, Ladder!NoneMade
<1>2. Phase = "waiting" \/ (Phase = "acting" /\ statusFile = "UP")
  BY DEF Phase, OnLadder
<1>3. QED
  BY <1>1, <1>2 DEF Ladder!Recovered

(* The first step of an attempt.                                            *)
LEMMA RefineAttempt ==
  ASSUME TypeOK, LadderInv, AmIfdown \/ AmBoardRecycle
  PROVE  Ladder!Attempt(rung)
<1>1. rung \in Rungs /\ attempt \in Nat /\ Attempts(rung) \in Nat /\ amPc = "act"
  BY AttemptsType DEF TypeOK, AmIfdown, AmBoardRecycle
<1>2. Phase = "acting" /\ Phase' = "acting"
  BY DEF AmIfdown, AmBoardRecycle, Phase
<1>3. tries[rung] < Attempts(rung)
  <2>1. tries[rung] = attempt - 1 /\ attempt >= 1
    BY <1>1 DEF LadderInv, LadderInOrder, PollCount, OnLadder
  <2>2. attempt <= Attempts(rung)
    BY <1>1 DEF AmIfdown, AmBoardRecycle, Exhausted
  <2>3. QED
    BY <1>1, <2>1, <2>2
<1>4. \A k \in Rungs : k < rung => tries[k] = Attempts(k)
  BY <1>1 DEF LadderInv, LadderInOrder, OnLadder
<1>5. tries' = [tries EXCEPT ![rung] = @ + 1] /\ UNCHANGED statusFile
  BY DEF AmIfdown, AmBoardRecycle
<1>6. QED
  BY <1>1, <1>2, <1>3, <1>4, <1>5 DEF Ladder!Attempt

LEMMA RefineStep == TypeOK /\ LadderInv /\ [Next]_vars => [Ladder!Next]_(Ladder!vars)
<1> SUFFICES ASSUME TypeOK, LadderInv, [Next]_vars
             PROVE  Ladder!Next \/ UNCHANGED <<Phase, tries, statusFile = "UP">>
  BY DEF Ladder!vars
<1> USE DEF Ladder!Next
(* Steps the ladder does not see.                                           *)
<1>1. CASE LinkStep \/ AnalyticsTest \/ AmNextRung \/ AmRecycle \/ AmRecord
             \/ AmAttemptOver \/ UNCHANGED vars
  BY <1>1 DEF LinkStep, LinkUp, LinkLost, ReachLost, ReachBack, AnalyticsTest,
     AmNextRung, AmRecycle, AmRecord, AmAttemptOver, amVars, history, vars, Phase
<1>2. CASE IsmStep
  <2>1. UNCHANGED <<Phase, tries>>
    BY <1>2 DEF IsmStep, IsmTake, IsmNotifyUp, IsmWrite, amVars, history, Phase
  <2>2. Ladder!Report
    BY <2>1 DEF Ladder!Report
  <2>3. QED
    BY <2>2
<1>3. CASE AmTake
  <2>1. tries' = tries /\ UNCHANGED statusFile
    BY <1>3 DEF AmTake, Fresh, LadderInv, PollCount, OnLadder
  <2>2. Phase = "idle" /\ Phase' = "waiting"
    BY <1>3 DEF AmTake, Phase
  <2>3. QED
    BY <2>1, <2>2 DEF Ladder!Wake
<1>4. CASE AmReadStatus
  <2>1. CASE statusFile = "DN"
    BY <1>4, <2>1 DEF AmReadStatus, Phase
  <2>2. CASE statusFile = "UP"
    BY <1>4, <2>2, RefineExit DEF AmReadStatus
  <2>3. QED
    BY <1>4, <2>1, <2>2 DEF AmReadStatus
<1>5. CASE AmSleep
  <2>1. CASE PingDue /\ Pings
    BY <1>5, <2>1, RefineExit DEF AmSleep
  <2>2. CASE ~(PingDue /\ Pings)
    <3>1. Phase = "waiting" /\ Phase' \in {"waiting", "acting"}
      BY <1>5, <2>2 DEF AmSleep, Phase
    <3>2. UNCHANGED <<tries, statusFile>>
      BY <1>5, <2>2 DEF AmSleep
    <3>3. QED
      BY <3>1, <3>2 DEF Ladder!Act
  <2>3. QED
    BY <2>1, <2>2
<1>6. CASE AmGiveUp
  <2>1. rung = 3 /\ tries[3] = Attempts(3)
    BY <1>6, AttemptsType DEF AmGiveUp, Exhausted, LadderInv, LadderInOrder, OnLadder,
       TypeOK, Rungs
  <2>2. \A r \in Rungs : tries[r] = Attempts(r)
    BY <1>6, <2>1 DEF AmGiveUp, LadderInv, LadderInOrder, OnLadder, Rungs
  <2>3. tries = [r \in Rungs |-> Attempts(r)]
    BY <2>2 DEF TypeOK
  <2>4. Phase = "acting" /\ Phase' = "idle" /\ UNCHANGED statusFile
    BY <1>6 DEF AmGiveUp, AmExit, Phase
  <2>5. tries' = Ladder!NoneMade
    BY <1>6 DEF AmGiveUp, AmExit, Fresh, Ladder!NoneMade
  <2>6. QED
    BY <2>3, <2>4, <2>5 DEF Ladder!GiveUp
<1>7. CASE AmIfdown \/ AmBoardRecycle
  BY <1>7, RefineAttempt DEF TypeOK
<1>8. CASE AmPoll
  <2>1. CASE statusFile = "UP"
    BY <1>8, <2>1, RefineExit DEF AmPoll, OnLadder
  <2>2. CASE statusFile # "UP"
    BY <1>8, <2>2 DEF AmPoll, Phase
  <2>3. QED
    BY <2>1, <2>2
<1>9. QED
  BY <1>1, <1>2, <1>3, <1>4, <1>5, <1>6, <1>7, <1>8 DEF Next, AmStep, Action

(* The managers, with their queues, files, polls and loop counters,         *)
(* implement the ladder of RecoveryLadder, for every configuration.         *)
THEOREM LadderImplemented == Spec => ImplementsLadder
<1>1. TypeOK /\ LadderInv /\ [Next]_vars => [Ladder!Next]_(Ladder!vars)
  BY RefineStep
<1>2. QED
  BY <1>1, RefineInit, LadderInit, LadderStep, TypeCorrect, PTL
     DEF Spec, ImplementsLadder, Ladder!Spec
=============================================================================
