---------------------------- MODULE DataCap_proofs ----------------------------
(* Theorems about DataCap, for every value of its constants; those about    *)
(* the charge for one script at a time.                                     *)
EXTENDS DataCap, FiniteSetTheorems, TLAPS

LEMMA OtherType == \A s \in Sims : Other(s) \in Sims
BY DEF Other, Sims

(* The values the variables start from are of their types.                  *)
LEMMA Values ==
  /\ Zeros \in [Sims -> {0, 1}] /\ Zeros \in [Sims -> Nat] /\ Zeros \in [Sims -> Int]
  /\ Idle \in Jobs /\ NoCap \in [sim: Sims, used: Nat, diff: Int]
  /\ 1 \in Sims /\ [p \in Scripts |-> Idle] \in [Scripts -> Jobs]
BY DEF Zeros, Idle, Jobs, Pcs, NoCap, Sims

LEMMA TypeInit == Init => TypeOK
<1> SUFFICES ASSUME Init PROVE TypeOK
  OBVIOUS
<1>1. job \in [Scripts -> Jobs]
  BY Values DEF Init
<1>2. /\ tmp \in [Sims -> Nat] /\ flash \in [Sims -> Int] /\ real \in [Sims -> Nat]
      /\ flag \in [Sims -> {0, 1}]
  BY Values DEF Init
<1>3. /\ cap \in [sim: Sims, used: Nat, diff: Int]
      /\ simnum \in Sims /\ gpio \in Sims /\ modemSim \in Sims
  BY Values DEF Init
<1>4. QED
  BY <1>1, <1>2, <1>3 DEF Init, TypeOK

(* Handing a job on keeps the jobs well-typed.                              *)
LEMMA JobSteps ==
  ASSUME job \in [Scripts -> Jobs], NEW p \in Scripts
  PROVE  /\ \A pc \in Pcs : Goto(p, pc) => job' \in [Scripts -> Jobs]
         /\ Ends(p) => job' \in [Scripts -> Jobs]
         /\ \A s \in Sims, a \in BOOLEAN : Switch(p, s, a) => job' \in [Scripts -> Jobs]
<1>1. Idle \in Jobs
  BY DEF Idle, Jobs, Pcs, Sims
<1>2. ASSUME NEW pc \in Pcs, Goto(p, pc) PROVE job' \in [Scripts -> Jobs]
  BY <1>2 DEF Goto, Jobs
<1>3. ASSUME Ends(p) PROVE job' \in [Scripts -> Jobs]
  BY <1>1, <1>3 DEF Ends
<1>4. ASSUME NEW s \in Sims, NEW a \in BOOLEAN, Switch(p, s, a)
      PROVE  job' \in [Scripts -> Jobs]
  BY <1>4 DEF Switch, Jobs, Pcs
<1>5. QED
  BY <1>2, <1>3, <1>4

LEMMA TypeStep == TypeOK /\ [Next]_vars => TypeOK'
<1> SUFFICES ASSUME TypeOK, [Next]_vars PROVE TypeOK'
  OBVIOUS
<1> USE DEF TypeOK, modem, accounts
<1>0. {"zero", "power", "arm", "flush", "check", "wipe2"} \subseteq Pcs
  BY DEF Pcs
<1>1. CASE Traffic
  BY <1>1 DEF Traffic, Sims
<1>2. CASE Reboot
  <2>1. job' \in [Scripts -> Jobs]
    BY <1>2, Values DEF Reboot
  <2>2. tmp' \in [Sims -> Nat] /\ cap' \in [sim: Sims, used: Nat, diff: Int]
    BY <1>2, Values DEF Reboot
  <2>3. simnum' \in Sims /\ gpio' \in Sims /\ modemSim' \in Sims
    BY <1>2, Values DEF Reboot
  <2>4. counter' \in Nat /\ reboots' \in Nat /\ scope' \in SUBSET Sims
    BY <1>2 DEF Reboot
  <2>5. timer' \in BOOLEAN
    BY <1>2 DEF Reboot
  <2>6. UNCHANGED <<flash, flag, real>>
    BY <1>2 DEF Reboot
  <2>7. QED
    BY <2>1, <2>2, <2>3, <2>4, <2>5, <2>6
<1>3. CASE CapStart
  <2>1. job' \in [Scripts -> Jobs]
    BY <1>3, <1>0, JobSteps DEF CapStart, Scripts
  <2>2. QED
    BY <1>3, <2>1 DEF CapStart
<1>4. CASE CapFlush
  <2>1. job' \in [Scripts -> Jobs]
    BY <1>4, <1>0, JobSteps DEF CapFlush, Scripts
  <2>2. cap.used - tmp[cap.sim] \in Int /\ Mark \in [Sims -> Nat]
    BY DEF Mark
  <2>3. QED
    BY <1>4, <2>1, <2>2 DEF CapFlush
<1>5. CASE CapCheck
  <2>1. job' \in [Scripts -> Jobs]
    BY <1>5, JobSteps, OtherType DEF CapCheck, Scripts
  <2>2. Finished(cap.sim) \in [Sims -> {0, 1}]
    BY DEF Finished
  <2>3. flag' \in [Sims -> {0, 1}]
    BY <1>5, <2>2 DEF CapCheck
  <2>4. QED
    BY <1>5, <2>1, <2>3, Values DEF CapCheck
<1>6. CASE MwanDisconnected
  <2>1. job' \in [Scripts -> Jobs]
    BY <1>6, JobSteps, OtherType DEF MwanDisconnected, Scripts
  <2>2. QED
    BY <1>6, <2>1 DEF MwanDisconnected
<1>7. CASE TimerEnds
  <2>1. 1 \in Sims
    BY DEF Sims
  <2>2. job' \in [Scripts -> Jobs]
    BY <1>7, <2>1, JobSteps DEF TimerEnds, Scripts
  <2>3. QED
    BY <1>7, <2>2 DEF TimerEnds
<1>8. ASSUME NEW ss \in SUBSET Sims, NEW s \in Sims, ResetStart(ss, s) PROVE TypeOK'
  <2>1. [pc |-> "wipe1", to |-> s, arm |-> FALSE] \in Jobs
    BY DEF Jobs, Pcs
  <2>2. job' \in [Scripts -> Jobs]
    BY <1>8, <2>1 DEF ResetStart
  <2>3. tmp' \in [Sims -> Nat]
    BY <1>8 DEF ResetStart
  <2>4. QED
    BY <1>8, <2>2, <2>3 DEF ResetStart
<1>9. CASE ResetWipe
  <2>1. job["reset"].to \in Sims
    BY DEF Jobs, Scripts
  <2>2. job' \in [Scripts -> Jobs]
    BY <1>9, <1>0, <2>1, JobSteps DEF ResetWipe, Scripts
  <2>3. ASSUME WipeFlags
        PROVE  flag' \in [Sims -> {0, 1}] /\ flash' \in [Sims -> Int] /\ real' \in [Sims -> Nat]
    BY <2>3 DEF WipeFlags
  <2>4. ASSUME WipeFlash
        PROVE  flag' \in [Sims -> {0, 1}] /\ flash' \in [Sims -> Int] /\ real' \in [Sims -> Nat]
    BY <2>4 DEF WipeFlash
  <2>5. flag' \in [Sims -> {0, 1}] /\ flash' \in [Sims -> Int] /\ real' \in [Sims -> Nat]
    BY <1>9, <2>3, <2>4 DEF ResetWipe
  <2>6. QED
    BY <1>9, <2>2, <2>5 DEF ResetWipe
<1>10. ASSUME NEW s \in Sims, Operator(s) PROVE TypeOK'
  <2>1. job' \in [Scripts -> Jobs]
    BY <1>10, JobSteps, FlagAssumption DEF Operator, Scripts
  <2>2. QED
    BY <1>10, <2>1 DEF Operator
<1>11. ASSUME NEW p \in Scripts, SwitchSelect(p) PROVE TypeOK'
  <2>1. job' \in [Scripts -> Jobs]
    BY <1>11, <1>0, JobSteps DEF SwitchSelect
  <2>2. job[p].to \in Sims
    BY DEF Jobs
  <2>3. QED
    BY <1>11, <2>1, <2>2 DEF SwitchSelect
<1>12. ASSUME NEW p \in Scripts, SwitchZero(p) PROVE TypeOK'
  <2>1. job' \in [Scripts -> Jobs]
    BY <1>12, <1>0, JobSteps DEF SwitchZero
  <2>2. job[p].to \in Sims
    BY DEF Jobs
  <2>3. QED
    BY <1>12, <2>1, <2>2, Values DEF SwitchZero
<1>13. ASSUME NEW p \in Scripts, SwitchPower(p) PROVE TypeOK'
  <2>1. job' \in [Scripts -> Jobs]
    BY <1>13, <1>0, JobSteps DEF SwitchPower
  <2>2. QED
    BY <1>13, <2>1 DEF SwitchPower
<1>14. ASSUME NEW p \in Scripts, Arm(p) PROVE TypeOK'
  <2>1. job' \in [Scripts -> Jobs]
    BY <1>14, JobSteps DEF Arm
  <2>2. timer' \in BOOLEAN
    BY <1>14, FlagAssumption DEF Arm
  <2>3. QED
    BY <1>14, <2>1, <2>2 DEF Arm
<1>15. CASE UNCHANGED vars
  BY <1>15 DEF vars
<1>16. Sims \in SUBSET Sims /\ 1 \in Sims /\ \A s \in Sims : {s} \in SUBSET Sims
  BY DEF Sims
<1>17. QED
  BY <1>1, <1>2, <1>3, <1>4, <1>5, <1>6, <1>7, <1>8, <1>9, <1>10, <1>11, <1>12,
     <1>13, <1>14, <1>15, <1>16 DEF Next, CapStep, Reset, SimSwitchStep

(* The variables of the five scripts, the files and the modem keep to their *)
(* types, whatever the limits and bounds and however many scripts overlap.  *)
THEOREM CapTypeCorrect == Spec => []TypeOK
BY TypeInit, TypeStep, PTL DEF Spec

-----------------------------------------------------------------------------
(* The charge, while at most one script runs at a time.                     *)

(* At most one script is at work, and a script at work has a step to take.  *)
Alone ==
  /\ \A p, q \in Scripts : job[p] # Idle /\ job[q] # Idle => p = q
  /\ \A p \in Scripts : job[p].pc = "idle" => job[p] = Idle

(* How far a switch has got: between the choice of the SIM and the power-up *)
(* the modem lags behind the SIM number, and the marks are zeroed before    *)
(* the counter is.                                                          *)
SwitchPhase ==
  /\ \A p \in Scripts : job[p].pc = "zero" => simnum = job[p].to
  /\ \A p \in Scripts : job[p].pc = "power" => simnum = gpio /\ tmp = Zeros
  /\ (\A p \in Scripts : job[p].pc \notin {"zero", "power"}) => simnum = modemSim

(* What Data_Cap.sh has read is still the traffic of the SIM in the modem.  *)
CapPhase ==
  job["cap"].pc = "flush" => cap.sim = modemSim /\ cap.used <= counter

(* The accounts never exceed the traffic; nor does the charge, but between  *)
(* the zeroing of the marks and that of the counter, and during a reset.    *)
Settled == /\ job["reset"].pc \in {"idle", "arm"}
           /\ \A p \in Scripts : job[p].pc # "power"

ChargePhase ==
  /\ \A s \in Sims : flash[s] <= real[s]
  /\ Settled => \A s \in Sims : Charged(s) <= real[s]

ChargeInv == Alone /\ SwitchPhase /\ CapPhase /\ ChargePhase

(* Only p is at work before and after the step.                             *)
Moves(p) ==
  /\ \A q \in Scripts \ {p} : job[q] = Idle /\ job'[q] = Idle
  /\ job'[p].pc = "idle" => job'[p] = Idle

LEMMA MovesAlone ==
  ASSUME NEW p \in Scripts, Moves(p)
  PROVE  Alone'
<1>1. Idle.pc = "idle"
  BY DEF Idle
<1>2. QED
  BY <1>1 DEF Moves, Alone

(* A script starts only when all are idle.                                  *)
LEMMA StartsAlone ==
  ASSUME AtOnce <= 1, NEW p \in Scripts, MayStart(p)
  PROVE  \A q \in Scripts : job[q] = Idle
<1>1. IsFiniteSet(Scripts)
  <2>1. IsFiniteSet({"cap"})
    BY FS_Singleton
  <2>2. IsFiniteSet({"cap", "mwan"})
    BY <2>1, FS_AddElement, {"cap"} \cup {"mwan"} = {"cap", "mwan"}
  <2>3. IsFiniteSet({"cap", "mwan", "timer"})
    BY <2>2, FS_AddElement, {"cap", "mwan"} \cup {"timer"} = {"cap", "mwan", "timer"}
  <2>4. IsFiniteSet({"cap", "mwan", "timer", "oper"})
    BY <2>3, FS_AddElement,
       {"cap", "mwan", "timer"} \cup {"oper"} = {"cap", "mwan", "timer", "oper"}
  <2>5. QED
    BY <2>4, FS_AddElement,
       {"cap", "mwan", "timer", "oper"} \cup {"reset"} = Scripts DEF Scripts
<1>2. IsFiniteSet(Running)
  <2>1. Running \subseteq Scripts
    BY DEF Running
  <2>2. QED
    BY <1>1, <2>1, FS_Subset
<1>3. Cardinality(Running) \in Nat
  BY <1>2, FS_CardinalityType
<1>4. AtOnce \in Nat
  BY BoundAssumption
<1>5. Cardinality(Running) = 0
  BY <1>3, <1>4 DEF MayStart
<1>6. Running = {}
  BY <1>2, <1>5, FS_EmptySet
<1>7. QED
  BY <1>6 DEF Running

(* What a step of the script at work makes of the jobs.                     *)
LEMMA GotoMoves ==
  ASSUME TypeOK, Alone, NEW p \in Scripts,
         job[p] # Idle \/ \A q \in Scripts : job[q] = Idle,
         NEW pc \in Pcs \ {"idle"}, Goto(p, pc)
  PROVE  Moves(p) /\ job'[p].pc = pc /\ job'[p].to = job[p].to
BY DEF TypeOK, Alone, Goto, Moves, Jobs

LEMMA EndsMoves ==
  ASSUME TypeOK, Alone, NEW p \in Scripts, job[p] # Idle, Ends(p)
  PROVE  Moves(p) /\ job'[p] = Idle
BY DEF TypeOK, Alone, Ends, Moves

LEMMA SwitchMoves ==
  ASSUME TypeOK, Alone, NEW p \in Scripts,
         job[p] # Idle \/ \A q \in Scripts : job[q] = Idle,
         NEW s, NEW a, Switch(p, s, a)
  PROVE  Moves(p) /\ job'[p].pc = "select" /\ job'[p].to = s
<1>1. job'[p] = [pc |-> "select", to |-> s, arm |-> a]
  BY DEF TypeOK, Switch
<1>2. \A q \in Scripts \ {p} : job[q] = Idle /\ job'[q] = Idle
  BY DEF TypeOK, Switch, Alone
<1>3. QED
  BY <1>1, <1>2 DEF Moves

LEMMA ChargeInit == Init => ChargeInv
<1> SUFFICES ASSUME Init PROVE ChargeInv
  OBVIOUS
<1>1. \A p \in Scripts : job[p] = Idle
  BY DEF Init
<1>2. Idle.pc = "idle"
  BY DEF Idle
<1>3. \A s \in Sims : flash[s] = 0 /\ real[s] = 0 /\ tmp[s] = 0
  BY DEF Init, Zeros
<1>4. Alone /\ SwitchPhase
  BY <1>1, <1>2 DEF Init, Alone, SwitchPhase
<1>5. CapPhase
  BY <1>1, <1>2 DEF CapPhase, Scripts
<1>6. ChargePhase
  BY <1>3 DEF Init, ChargePhase, Charged
<1>7. QED
  BY <1>4, <1>5, <1>6 DEF ChargeInv

(* Steps of Data_Cap.sh and of the modem.                                   *)
LEMMA ChargeTraffic ==
  ASSUME TypeOK, ChargeInv, Traffic
  PROVE  ChargeInv'
<1> USE DEF Traffic, ChargeInv, accounts
<1>1. Alone' /\ SwitchPhase'
  BY DEF Alone, SwitchPhase
<1>2. CapPhase'
  BY DEF CapPhase, TypeOK
<1>3. \A s \in Sims : /\ real'[s] >= real[s]
                      /\ Charged(s)' - Charged(s) <= real'[s] - real[s]
                      /\ Charged(s) \in Int /\ Charged(s)' \in Int
  BY DEF Charged, TypeOK
<1>4. ChargePhase'
  <2>1. \A s \in Sims : flash'[s] <= real'[s]
    BY <1>3 DEF ChargePhase, TypeOK
  <2>2. ASSUME \A s \in Sims : Charged(s) <= real[s]
        PROVE  \A s \in Sims : Charged(s)' <= real'[s]
    BY <1>3, <2>2 DEF TypeOK
  <2>3. QED
    BY <2>1, <2>2 DEF ChargePhase, Settled
<1>5. QED
  BY <1>1, <1>2, <1>4

LEMMA ChargeReboot ==
  ASSUME TypeOK, ChargeInv, Reboot
  PROVE  ChargeInv'
<1>1. \A p \in Scripts : job'[p] = Idle
  BY DEF Reboot
<1>2. Idle.pc = "idle"
  BY DEF Idle
<1>3. Alone' /\ SwitchPhase'
  BY <1>1, <1>2 DEF Reboot, Alone, SwitchPhase
<1>4. CapPhase'
  BY <1>1, <1>2 DEF CapPhase, Scripts
<1>5. \A s \in Sims : Charged(s)' = flash[s]
  BY DEF Reboot, Charged, Zeros, TypeOK
<1>6. ChargePhase'
  BY <1>5 DEF Reboot, ChargePhase, ChargeInv
<1>7. QED
  BY <1>3, <1>4, <1>6 DEF ChargeInv

(* While nothing but p runs, and p neither resets nor powers the modem, the *)
(* charge is sound.                                                         *)
LEMMA Sound ==
  ASSUME TypeOK, ChargeInv, NEW p \in Scripts,
         \A q \in Scripts \ {p} : job[q] = Idle,
         job["reset"].pc \in {"idle", "arm"}, job[p].pc # "power"
  PROVE  \A s \in Sims : Charged(s) <= real[s]
<1>1. \A q \in Scripts : job[q].pc # "power"
  BY DEF Idle
<1>2. QED
  BY <1>1 DEF ChargeInv, ChargePhase, Settled

LEMMA ChargeCapStart ==
  ASSUME AtOnce <= 1, TypeOK, ChargeInv, CapStart
  PROVE  ChargeInv'
<1>1. \A q \in Scripts : job[q] = Idle
  BY StartsAlone DEF CapStart, Scripts
<1>2. Moves("cap") /\ job'["cap"].pc = "flush"
  BY <1>1, GotoMoves DEF CapStart, ChargeInv, Scripts, Pcs
<1>3. simnum = modemSim
  BY <1>1 DEF ChargeInv, SwitchPhase, Idle
<1>4. \A s \in Sims : Charged(s) <= real[s]
  BY <1>1, Sound DEF Idle, Scripts
<1>5. Alone'
  BY <1>2, MovesAlone DEF Scripts
<1>6. \A q \in Scripts : job'[q].pc \notin {"zero", "power"}
  BY <1>2 DEF Moves, Idle
<1>7. SwitchPhase' /\ CapPhase'
  BY <1>3, <1>6 DEF CapStart, SwitchPhase, CapPhase, modem, TypeOK
<1>8. ChargePhase'
  BY <1>4 DEF CapStart, ChargePhase, ChargeInv, Charged, modem, accounts
<1>9. QED
  BY <1>5, <1>7, <1>8 DEF ChargeInv

LEMMA ChargeCapFlush ==
  ASSUME TypeOK, ChargeInv, CapFlush
  PROVE  ChargeInv'
<1>1. job["cap"] # Idle /\ "cap" \in Scripts
  BY DEF CapFlush, Idle, Scripts
<1>2. Moves("cap") /\ job'["cap"].pc = "check"
  BY <1>1, GotoMoves DEF CapFlush, ChargeInv, Pcs
<1>3. \A q \in Scripts : job[q].pc \notin {"zero", "power"} /\ job'[q].pc \notin {"zero", "power"}
  BY <1>2 DEF Moves, Idle, CapFlush
<1>4. cap.sim = modemSim /\ cap.used <= counter
  BY DEF CapFlush, ChargeInv, CapPhase
<1>5. \A s \in Sims : Charged(s) <= real[s]
  BY <1>1, <1>2, Sound DEF CapFlush, Moves, Scripts, Idle
<1>6. \A s \in Sims : flash'[s] <= real[s] /\ Charged(s)' <= real[s]
  <2>1. CASE cap.used - tmp[cap.sim] >= Threshold
    <3>1. /\ tmp' = [tmp EXCEPT ![modemSim] = cap.used]
          /\ flash' = [flash EXCEPT ![modemSim] = @ + (cap.used - tmp[modemSim])]
          /\ counter' = counter /\ modemSim' = modemSim
      BY <1>4, <2>1 DEF CapFlush, Mark, modem
    <3>2. flash[modemSim] + counter - tmp[modemSim] <= real[modemSim]
      BY <1>5 DEF Charged, TypeOK
    <3>3. \A s \in Sims : flash[s] <= real[s]
      BY DEF ChargeInv, ChargePhase
    <3>4. QED
      BY <1>4, <3>1, <3>2, <3>3 DEF Charged, TypeOK
  <2>2. CASE ~(cap.used - tmp[cap.sim] >= Threshold)
    BY <1>5, <2>2 DEF CapFlush, modem, Charged, ChargeInv, ChargePhase
  <2>3. QED
    BY <2>1, <2>2
<1>7. Alone'
  BY <1>1, <1>2, MovesAlone
<1>8. SwitchPhase' /\ CapPhase'
  BY <1>2, <1>3 DEF CapFlush, ChargeInv, SwitchPhase, CapPhase, modem
<1>9. ChargePhase'
  BY <1>6 DEF CapFlush, ChargePhase
<1>10. QED
  BY <1>7, <1>8, <1>9 DEF ChargeInv

(* Steps that only hand the job on, or start and end a script, outside the  *)
(* power cycle.                                                             *)
LEMMA ChargeHandOver ==
  ASSUME TypeOK, ChargeInv, NEW p \in Scripts, Moves(p),
         UNCHANGED <<simnum, modem, tmp, flash, real>>,
         job[p].pc \notin {"zero", "power"},
         job'[p].pc \notin {"zero", "power", "flush"},
         job'["reset"].pc \in {"idle", "arm"} => job["reset"].pc \in {"idle", "arm"}
  PROVE  ChargeInv'
<1>1. \A q \in Scripts : /\ job[q].pc \notin {"zero", "power"}
                         /\ job'[q].pc \notin {"zero", "power", "flush"}
  BY DEF Moves, Idle
<1>2. Alone'
  BY MovesAlone
<1>3. SwitchPhase' /\ CapPhase'
  BY <1>1 DEF ChargeInv, SwitchPhase, CapPhase, modem, Scripts
<1>4. ChargePhase'
  BY <1>1 DEF ChargeInv, ChargePhase, Settled, Charged, modem
<1>5. QED
  BY <1>2, <1>3, <1>4 DEF ChargeInv

LEMMA ChargeCapCheck ==
  ASSUME TypeOK, ChargeInv, CapCheck
  PROVE  ChargeInv'
<1>1. job["cap"] # Idle /\ "cap" \in Scripts
  BY DEF CapCheck, Idle, Scripts
<1>2. Moves("cap") /\ job'["cap"].pc \in {"select", "idle"}
  <2>1. CASE Ends("cap")
    BY <1>1, <2>1, EndsMoves DEF ChargeInv, Idle
  <2>2. CASE Switch("cap", Other(cap.sim), FALSE)
    BY <1>1, <2>2, SwitchMoves DEF ChargeInv
  <2>3. QED
    BY <2>1, <2>2 DEF CapCheck
<1>3. job["reset"].pc = "idle"
  BY <1>2 DEF Moves, Scripts, Idle
<1>4. QED
  BY <1>1, <1>2, <1>3, ChargeHandOver DEF CapCheck

(* A script that starts by choosing a SIM.                                  *)
LEMMA ChargeChoose ==
  ASSUME AtOnce <= 1, TypeOK, ChargeInv, NEW p \in Scripts, MayStart(p),
         NEW s, NEW a, Switch(p, s, a), UNCHANGED <<simnum, modem, tmp, flash, real>>
  PROVE  ChargeInv'
<1>1. \A q \in Scripts : job[q] = Idle
  BY StartsAlone
<1>2. Moves(p) /\ job'[p].pc = "select"
  BY <1>1, SwitchMoves DEF ChargeInv
<1>3. job["reset"].pc = "idle" /\ job[p].pc = "idle"
  BY <1>1 DEF Scripts, Idle
<1>4. QED
  BY <1>2, <1>3, ChargeHandOver

LEMMA ChargeArm ==
  ASSUME TypeOK, ChargeInv, NEW p \in Scripts, Arm(p)
  PROVE  ChargeInv'
<1>1. job[p] # Idle
  BY DEF Arm, Idle
<1>2. Moves(p) /\ job'[p] = Idle
  BY <1>1, EndsMoves DEF Arm, ChargeInv
<1>3. job["reset"].pc \in {"idle", "arm"}
  BY <1>2 DEF Arm, Moves, Scripts, Idle
<1>4. QED
  BY <1>2, <1>3, ChargeHandOver DEF Arm, Idle, accounts

(* The resets.                                                              *)
LEMMA ChargeResetStart ==
  ASSUME AtOnce <= 1, TypeOK, ChargeInv,
         NEW ss \in SUBSET Sims, NEW s \in Sims, ResetStart(ss, s)
  PROVE  ChargeInv'
<1>1. \A q \in Scripts : job[q] = Idle
  BY StartsAlone DEF ResetStart, Scripts
<1>2. job'["reset"].pc = "wipe1" /\ \A q \in Scripts \ {"reset"} : job'[q] = Idle
  BY <1>1 DEF ResetStart, TypeOK, Scripts
<1>3. Moves("reset")
  BY <1>1, <1>2 DEF Moves
<1>4. \A q \in Scripts : job[q].pc = "idle" /\ job'[q].pc \notin {"zero", "power", "flush"}
  BY <1>1, <1>2 DEF Idle
<1>5. Alone'
  BY <1>3, MovesAlone DEF Scripts
<1>6. SwitchPhase' /\ CapPhase'
  BY <1>4 DEF ResetStart, ChargeInv, SwitchPhase, CapPhase, modem, Scripts
<1>7. ChargePhase'
  BY <1>2 DEF ResetStart, ChargeInv, ChargePhase, Settled
<1>8. QED
  BY <1>5, <1>6, <1>7 DEF ChargeInv

LEMMA ChargeResetWipe ==
  ASSUME TypeOK, ChargeInv, ResetWipe
  PROVE  ChargeInv'
<1>0. job["reset"].pc \in {"wipe1", "wipe2"}
  BY DEF ResetWipe
<1>1. job["reset"] # Idle /\ "reset" \in Scripts
  BY <1>0 DEF Idle, Scripts
<1>2. Moves("reset") /\ job'["reset"].pc \in {"wipe2", "select"}
  BY <1>1, GotoMoves, SwitchMoves DEF ResetWipe, ChargeInv, Pcs
<1>3. \A q \in Scripts : /\ job[q].pc \notin {"zero", "power"}
                         /\ job'[q].pc \notin {"zero", "power", "flush"}
  BY <1>0, <1>2 DEF Moves, Idle
<1>4. Alone'
  BY <1>1, <1>2, MovesAlone
<1>5. SwitchPhase' /\ CapPhase'
  BY <1>3 DEF ResetWipe, ChargeInv, SwitchPhase, CapPhase, modem, Scripts
<1>6. \A t \in Sims : flash'[t] <= real'[t]
  <2>1. \A t \in Sims : flash[t] <= real[t]
    BY DEF ChargeInv, ChargePhase
  <2>2. CASE WipeFlags
    BY <2>1, <2>2 DEF WipeFlags
  <2>3. CASE WipeFlash
    BY <2>1, <2>3 DEF WipeFlash
  <2>4. QED
    BY <2>2, <2>3 DEF ResetWipe
<1>7. ChargePhase'
  BY <1>2, <1>6 DEF ChargePhase, Settled
<1>8. QED
  BY <1>4, <1>5, <1>7 DEF ChargeInv

(* SimSwitch.sh.                                                            *)
LEMMA ChargeSelect ==
  ASSUME TypeOK, ChargeInv, NEW p \in Scripts, SwitchSelect(p)
  PROVE  ChargeInv'
<1>1. job[p] # Idle
  BY DEF SwitchSelect, Idle
<1>2. Moves(p) /\ job'[p].pc = "zero" /\ job'[p].to = job[p].to
  BY <1>1, GotoMoves DEF SwitchSelect, ChargeInv, Pcs
<1>3. Alone'
  BY <1>2, MovesAlone
<1>4. SwitchPhase' /\ CapPhase'
  BY <1>2 DEF SwitchSelect, SwitchPhase, CapPhase, Moves, Idle, Scripts
<1>5. Settled' => Settled
  BY <1>2 DEF SwitchSelect, Settled, Moves, Idle, Scripts
<1>6. ChargePhase'
  BY <1>5 DEF SwitchSelect, ChargeInv, ChargePhase, Charged, modem, accounts
<1>7. QED
  BY <1>3, <1>4, <1>6 DEF ChargeInv

LEMMA ChargeZero ==
  ASSUME TypeOK, ChargeInv, NEW p \in Scripts, SwitchZero(p)
  PROVE  ChargeInv'
<1>1. job[p] # Idle
  BY DEF SwitchZero, Idle
<1>2. Moves(p) /\ job'[p].pc = "power"
  BY <1>1, GotoMoves DEF SwitchZero, ChargeInv, Pcs
<1>3. simnum = job[p].to
  BY DEF SwitchZero, ChargeInv, SwitchPhase
<1>4. Alone'
  BY <1>2, MovesAlone
<1>5. SwitchPhase' /\ CapPhase'
  BY <1>2, <1>3 DEF SwitchZero, SwitchPhase, CapPhase, Moves, Idle, Scripts
<1>6. ChargePhase'
  BY <1>2 DEF SwitchZero, ChargeInv, ChargePhase, Settled
<1>7. QED
  BY <1>4, <1>5, <1>6 DEF ChargeInv

LEMMA ChargePower ==
  ASSUME TypeOK, ChargeInv, NEW p \in Scripts, SwitchPower(p)
  PROVE  ChargeInv'
<1>1. job[p] # Idle
  BY DEF SwitchPower, Idle
<1>2. Moves(p) /\ job'[p].pc \in {"arm", "idle"}
  <2>1. CASE Goto(p, "arm")
    BY <1>1, <2>1, GotoMoves DEF ChargeInv, Pcs
  <2>2. CASE Ends(p)
    BY <1>1, <2>2, EndsMoves DEF ChargeInv, Idle
  <2>3. QED
    BY <2>1, <2>2 DEF SwitchPower
<1>3. simnum = gpio /\ tmp = Zeros
  BY DEF SwitchPower, ChargeInv, SwitchPhase
<1>4. Alone'
  BY <1>2, MovesAlone
<1>5. \A q \in Scripts : job'[q].pc \notin {"zero", "power", "flush"}
  BY <1>2 DEF Moves, Idle
<1>6. SwitchPhase' /\ CapPhase'
  BY <1>3, <1>5 DEF SwitchPower, SwitchPhase, CapPhase, Scripts
<1>7. \A s \in Sims : Charged(s)' = flash[s]
  BY <1>3 DEF SwitchPower, Charged, Zeros, accounts, TypeOK
<1>8. ChargePhase'
  BY <1>7 DEF SwitchPower, ChargeInv, ChargePhase, accounts
<1>9. QED
  BY <1>4, <1>6, <1>8 DEF ChargeInv

LEMMA ChargeStep ==
  ASSUME AtOnce <= 1
  PROVE  TypeOK /\ ChargeInv /\ [Next]_vars => ChargeInv'
<1> SUFFICES ASSUME TypeOK, ChargeInv, [Next]_vars PROVE ChargeInv'
  OBVIOUS
<1>1. CASE Traffic
  BY <1>1, ChargeTraffic
<1>2. CASE Reboot
  BY <1>2, ChargeReboot
<1>3. CASE CapStart
  BY <1>3, ChargeCapStart
<1>4. CASE CapStep
  BY <1>4, ChargeCapFlush, ChargeCapCheck DEF CapStep
<1>5. CASE MwanDisconnected
  BY <1>5, ChargeChoose DEF MwanDisconnected, accounts, Scripts
<1>6. CASE TimerEnds
  BY <1>6, ChargeChoose DEF TimerEnds, accounts, Scripts
<1>7. CASE Reset
  <2>1. Sims \in SUBSET Sims /\ 1 \in Sims /\ \A s \in Sims : {s} \in SUBSET Sims
    BY DEF Sims
  <2>2. QED
    BY <1>7, <2>1, ChargeResetStart DEF Reset
<1>8. CASE ResetWipe
  BY <1>8, ChargeResetWipe
<1>9. ASSUME NEW s \in Sims, Operator(s) PROVE ChargeInv'
  BY <1>9, ChargeChoose DEF Operator, accounts, Scripts
<1>10. ASSUME NEW p \in Scripts, SimSwitchStep(p) PROVE ChargeInv'
  BY <1>10, ChargeSelect, ChargeZero, ChargePower, ChargeArm DEF SimSwitchStep
<1>11. CASE UNCHANGED vars
  BY <1>11 DEF vars, ChargeInv, Alone, SwitchPhase, CapPhase, ChargePhase, Settled, Charged
<1>12. QED
  BY <1>1, <1>2, <1>3, <1>4, <1>5, <1>6, <1>7, <1>8, <1>9, <1>10, <1>11 DEF Next

(* With one script at a time no SIM is charged for more than its own        *)
(* traffic, for all limits, thresholds and any number of reboots.           *)
THEOREM ChargeSound ==
  ASSUME AtOnce <= 1
  PROVE  Spec => []NeverOvercharged
<1>1. ChargeInv => NeverOvercharged
  <2> SUFFICES ASSUME ChargeInv, Running = {} PROVE \A s \in Sims : Charged(s) <= real[s]
    BY DEF NeverOvercharged
  <2>1. \A p \in Scripts : job[p] = Idle
    BY DEF Running
  <2>2. Settled
    BY <2>1 DEF Settled, Idle, Scripts
  <2>3. QED
    BY <2>2 DEF ChargeInv, ChargePhase
<1>2. TypeOK /\ ChargeInv /\ [Next]_vars => ChargeInv'
  BY ChargeStep
<1>3. QED
  BY <1>1, <1>2, ChargeInit, CapTypeCorrect, PTL DEF Spec

-----------------------------------------------------------------------------
(* How early the limit may be declared reached, one script at a time.       *)

(* No account is negative, and what Data_Cap.sh adds once more is traffic   *)
(* of the SIM it has charged.                                               *)
HalfInv ==
  /\ \A s \in Sims : flash[s] >= 0
  /\ job["cap"].pc = "check" => cap.diff <= real[cap.sim]

(* The flush starts the check with a difference that was real traffic.      *)
LEMMA HalfCapFlush ==
  ASSUME TypeOK, ChargeInv, HalfInv, CapFlush
  PROVE  HalfInv'
<1>1. "cap" \in Scripts /\ job["cap"] # Idle
  BY DEF CapFlush, Scripts, Idle
<1>2. Moves("cap")
  BY <1>1, GotoMoves DEF CapFlush, ChargeInv, Pcs
<1>3. Charged(cap.sim) <= real[cap.sim] /\ cap.sim \in Sims
  BY <1>1, <1>2, Sound DEF CapFlush, Moves, Scripts, Idle, TypeOK
<1>4. cap.sim = modemSim /\ cap.used <= counter
  BY DEF CapFlush, ChargeInv, CapPhase
<1>5. cap.used - tmp[cap.sim] <= real[cap.sim]
  BY <1>3, <1>4 DEF Charged, HalfInv, TypeOK
<1>6. cap'.diff = cap.used - tmp[cap.sim] /\ cap'.sim = cap.sim /\ real' = real
  BY DEF CapFlush, TypeOK
<1>7. \A s \in Sims : flash'[s] >= 0
  BY BoundAssumption DEF CapFlush, HalfInv, TypeOK
<1>8. QED
  BY <1>5, <1>6, <1>7 DEF HalfInv

(* Elsewhere the accounts are kept or wiped, the traffic of a SIM grows     *)
(* unless a reset wipes it, and no other script is at the check.            *)
LEMMA HalfKept ==
  ASSUME TypeOK, HalfInv,
         \A s \in Sims : flash'[s] = flash[s] \/ flash'[s] = 0,
         \/ job'["cap"].pc # "check"
         \/ /\ job["cap"].pc = "check" /\ cap' = cap
            /\ \A s \in Sims : real'[s] \in Nat /\ real'[s] >= real[s]
  PROVE  HalfInv'
<1>1. \A s \in Sims : flash'[s] >= 0
  BY DEF HalfInv
<1>2. cap.sim \in Sims /\ cap.diff \in Int /\ real[cap.sim] \in Nat
  BY DEF TypeOK
<1>3. QED
  BY <1>1, <1>2 DEF HalfInv

LEMMA HalfStep ==
  ASSUME AtOnce <= 1
  PROVE  TypeOK /\ ChargeInv /\ HalfInv /\ [Next]_vars => HalfInv'
<1> SUFFICES ASSUME TypeOK, ChargeInv, HalfInv, [Next]_vars PROVE HalfInv'
  OBVIOUS
<1> USE DEF modem, accounts
<1>1. CASE Traffic
  <2>1. \A s \in Sims : real'[s] \in Nat /\ real'[s] >= real[s]
    BY <1>1 DEF Traffic, TypeOK
  <2>2. QED
    BY <1>1, <2>1, HalfKept DEF Traffic
<1>2. CASE Reboot
  BY <1>2, HalfKept DEF Reboot, Idle, Scripts
<1>3. CASE CapStart
  <2>1. job'["cap"].pc = "flush"
    BY <1>3 DEF CapStart, Goto, TypeOK, Scripts, Jobs
  <2>2. QED
    BY <1>3, <2>1, HalfKept DEF CapStart
<1>4. CASE CapCheck
  <2>1. job'["cap"].pc # "check"
    BY <1>4 DEF CapCheck, Switch, Ends, TypeOK, Scripts, Idle
  <2>2. QED
    BY <1>4, <2>1, HalfKept DEF CapCheck
<1>5. ASSUME NEW p \in Scripts \ {"cap"},
             job'["cap"] = job["cap"], UNCHANGED <<flash, cap, real>>
      PROVE  HalfInv'
  BY <1>5, HalfKept DEF TypeOK
<1>6. CASE MwanDisconnected
  BY <1>5, <1>6 DEF MwanDisconnected, Switch, TypeOK, Scripts
<1>7. CASE TimerEnds
  BY <1>5, <1>7 DEF TimerEnds, Switch, TypeOK, Scripts
<1>8. ASSUME NEW s \in Sims, Operator(s)
      PROVE  HalfInv'
  BY <1>5, <1>8 DEF Operator, Switch, TypeOK, Scripts
<1>9. CASE Reset
  BY <1>5, <1>9 DEF Reset, ResetStart, TypeOK, Scripts
<1>10. CASE ResetWipe
  <2>1. "cap" \in Scripts /\ "reset" \in Scripts /\ job["reset"] # Idle
    <3>1. job["reset"].pc = "wipe1" \/ job["reset"].pc = "wipe2"
      BY <1>10 DEF ResetWipe
    <3>2. Idle.pc = "idle"
      BY DEF Idle
    <3>3. QED
      BY <3>1, <3>2 DEF Scripts
  <2>2. job'["cap"] = job["cap"] /\ job["cap"] = Idle
    BY <1>10, <2>1 DEF ResetWipe, Goto, Switch, TypeOK, ChargeInv, Alone
  <2>3. \A s \in Sims : flash'[s] = flash[s] \/ flash'[s] = 0
    BY <1>10 DEF ResetWipe, WipeFlags, WipeFlash
  <2>4. QED
    BY <2>2, <2>3, HalfKept DEF Idle
<1>11. ASSUME NEW p \in Scripts, SimSwitchStep(p)
       PROVE  HalfInv'
  <2>1. job[p].pc \in {"select", "zero", "power", "arm"} /\ UNCHANGED <<flash, cap, real>>
    BY <1>11 DEF SimSwitchStep, SwitchSelect, SwitchZero, SwitchPower, Arm
  <2>2. \/ Goto(p, "zero") \/ Goto(p, "power") \/ Goto(p, "arm") \/ Ends(p)
    BY <1>11 DEF SimSwitchStep, SwitchSelect, SwitchZero, SwitchPower, Arm
  <2>3. CASE p = "cap"
    <3>1. job'["cap"].pc # "check"
      BY <2>2, <2>3 DEF Goto, Ends, Idle, TypeOK, Scripts, Jobs
    <3>2. QED
      BY <2>1, <3>1, HalfKept
  <2>4. CASE p # "cap"
    <3>1. job'["cap"] = job["cap"]
      BY <2>2, <2>4 DEF Goto, Ends, TypeOK, Scripts
    <3>2. QED
      BY <1>5, <2>1, <2>4, <3>1
  <2>5. QED
    BY <2>3, <2>4
<1>12. CASE UNCHANGED vars
  BY <1>12 DEF vars, HalfInv
<1>13. QED
  BY <1>1, <1>2, <1>3, <1>4, <1>6, <1>7, <1>8, <1>9, <1>10, <1>11, <1>12,
     HalfCapFlush DEF Next, CapStep

(* Only the check of Data_Cap.sh declares the data of a SIM finished.       *)
LEMMA FlagRises ==
  ASSUME TypeOK, [Next]_vars, flag'[1] > flag[1]
  PROVE  CapCheck
<1>1. flag[1] \in {0, 1}
  BY DEF TypeOK, Sims
<1>2. ASSUME flag' = flag PROVE FALSE
  BY <1>1, <1>2
<1>3. ASSUME ResetWipe PROVE FALSE
  <2>1. flag'[1] = flag[1] \/ flag'[1] = 0
    BY <1>3 DEF ResetWipe, WipeFlags, WipeFlash, Sims
  <2>2. QED
    BY <1>1, <2>1
<1>4. QED
  BY <1>2, <1>3 DEF Next, Traffic, Reboot, CapStart, CapStep, CapFlush,
     MwanDisconnected, TimerEnds, Reset, ResetStart, Operator, SimSwitchStep,
     SwitchSelect, SwitchZero, SwitchPower, Arm, vars, accounts

(* With one script at a time the data of SIM 1 is never declared finished   *)
(* before half of its limit went through it, for all limits and thresholds: *)
(* the difference that is added once more is itself traffic of that SIM.    *)
THEOREM LimitHalfSound ==
  ASSUME AtOnce <= 1
  PROVE  Spec => LimitNotHalf
<1>1. Init => HalfInv
  BY DEF Init, HalfInv, Zeros, Idle, Scripts
<1>2. TypeOK /\ ChargeInv /\ HalfInv /\ [Next]_vars => HalfInv'
  BY HalfStep
<1>3. TypeOK /\ ChargeInv /\ HalfInv /\ [Next]_vars
        => [flag'[1] > flag[1] => 2 * real[1] >= Limit[1]]_vars
  <2> SUFFICES ASSUME TypeOK, ChargeInv, HalfInv, [Next]_vars, flag'[1] > flag[1]
               PROVE  2 * real[1] >= Limit[1]
    OBVIOUS
  <2>1. CapCheck
    BY FlagRises
  <2>2. cap.sim \in Sims /\ flag' # flag
    BY DEF TypeOK, Sims
  <2>3. Reached(cap.sim, flash[cap.sim] + cap.diff)
    BY <2>1, <2>2 DEF CapCheck
  <2>4. flash[1] + cap.diff >= Limit[1] /\ cap.sim = 1
    BY <2>3 DEF Reached
  <2>5. flash[1] <= real[1] /\ cap.diff <= real[1]
    BY <2>1, <2>4 DEF CapCheck, HalfInv, ChargeInv, ChargePhase, Sims
  <2>6. flash[1] \in Int /\ cap.diff \in Int /\ real[1] \in Nat /\ Limit[1] \in Nat
    BY LimitAssumption DEF TypeOK, Sims
  <2>7. QED
    BY <2>4, <2>5, <2>6
<1>4. TypeOK /\ ChargeInv /\ [Next]_vars => ChargeInv'
  BY ChargeStep
<1>5. QED
  BY <1>1, <1>2, <1>3, <1>4, ChargeInit, CapTypeCorrect, PTL DEF Spec, LimitNotHalf

-----------------------------------------------------------------------------
(* The flags, while at most one script runs at a time.                      *)

(* A script about to select another SIM has seen that its data is not       *)
(* finished, and a reset has wiped that flag, or is to wipe it before it    *)
(* selects.  The flag of SIM 2 is never set.                                *)
FlagInv ==
  /\ flag[2] = 0
  /\ \A p \in Scripts \ {"timer"} :
       job[p].pc = "select" => job[p].to = simnum \/ flag[job[p].to] = 0
  /\ job["reset"].pc \in {"wipe1", "wipe2"} => job["reset"].to \in scope
  /\ job["reset"].pc = "wipe2" /\ scope = Sims => \A s \in Sims : flag[s] = 0

LEMMA FlagInit == Init => FlagInv
BY DEF Init, FlagInv, Zeros, Idle, Sims, Scripts

(* A step after which no script is about to select, and no reset wipes.     *)
LEMMA FlagQuiet ==
  ASSUME FlagInv, NEW p \in Scripts, Moves(p), UNCHANGED flag,
         job'[p].pc \notin {"select", "wipe1", "wipe2"}
  PROVE  FlagInv'
<1>1. \A q \in Scripts : job'[q].pc \notin {"select", "wipe1", "wipe2"}
  BY DEF Moves, Idle
<1>2. QED
  BY <1>1 DEF FlagInv, Scripts

(* A step after which p is about to select a SIM it may select.             *)
LEMMA FlagChosen ==
  ASSUME FlagInv, NEW p \in Scripts, Moves(p), job'[p].pc = "select", flag'[2] = 0,
         p = "timer" \/ job'[p].to = simnum' \/ flag'[job'[p].to] = 0
  PROVE  FlagInv'
<1>1. \A q \in Scripts \ {p} : job'[q].pc = "idle"
  BY DEF Moves, Idle
<1>2. job'["reset"].pc \notin {"wipe1", "wipe2"}
  BY <1>1 DEF Scripts
<1>3. QED
  BY <1>1, <1>2 DEF FlagInv

LEMMA FlagStart ==
  ASSUME AtOnce <= 1, TypeOK, ChargeInv, FlagInv, NEW p \in Scripts, MayStart(p),
         NEW s, NEW a, Switch(p, s, a), UNCHANGED <<simnum, flag>>,
         p = "timer" \/ s = simnum \/ flag[s] = 0
  PROVE  FlagInv'
<1>1. Moves(p) /\ job'[p].pc = "select" /\ job'[p].to = s
  BY StartsAlone, SwitchMoves DEF ChargeInv
<1>2. QED
  BY <1>1, FlagChosen DEF FlagInv

LEMMA FlagCapCheck ==
  ASSUME TypeOK, ChargeInv, FlagInv, CapCheck
  PROVE  FlagInv'
<1>1. job["cap"] # Idle /\ "cap" \in Scripts
  BY DEF CapCheck, Idle, Scripts
<1>2. CASE Reached(cap.sim, flash[cap.sim] + cap.diff)
  <2>1. cap.sim = 1 /\ Other(cap.sim) = 2
    BY <1>2 DEF Reached, Other
  <2>2. flag' = [flag EXCEPT ![1] = 1] /\ Switch("cap", 2, FALSE)
    BY <1>2, <2>1 DEF CapCheck, Finished
  <2>3. flag'[2] = 0
    BY <2>2 DEF FlagInv, TypeOK, Sims
  <2>4. Moves("cap") /\ job'["cap"].pc = "select" /\ job'["cap"].to = 2
    BY <1>1, <2>2, SwitchMoves DEF ChargeInv
  <2>5. QED
    BY <1>1, <2>3, <2>4, FlagChosen
<1>3. CASE ~Reached(cap.sim, flash[cap.sim] + cap.diff)
  <2>1. Ends("cap") /\ UNCHANGED flag
    BY <1>3 DEF CapCheck
  <2>2. Moves("cap") /\ job'["cap"] = Idle
    BY <1>1, <2>1, EndsMoves DEF ChargeInv
  <2>3. QED
    BY <1>1, <2>1, <2>2, FlagQuiet DEF Idle
<1>4. QED
  BY <1>2, <1>3

LEMMA FlagResetStart ==
  ASSUME AtOnce <= 1, TypeOK, FlagInv,
         NEW ss \in SUBSET Sims, NEW s \in ss, ResetStart(ss, s)
  PROVE  FlagInv'
<1>1. \A q \in Scripts : job[q] = Idle
  BY StartsAlone DEF ResetStart, Scripts
<1>2. /\ job'["reset"].pc = "wipe1" /\ job'["reset"].to = s
      /\ \A q \in Scripts \ {"reset"} : job'[q].pc = "idle"
  BY <1>1 DEF ResetStart, TypeOK, Scripts, Idle
<1>3. QED
  BY <1>2 DEF ResetStart, FlagInv

LEMMA FlagResetWipe ==
  ASSUME TypeOK, ChargeInv, FlagInv, ResetWipe
  PROVE  FlagInv'
<1>0. job["reset"].pc \in {"wipe1", "wipe2"}
  BY DEF ResetWipe
<1>1. job["reset"] # Idle /\ "reset" \in Scripts
  BY <1>0 DEF Idle, Scripts
<1>2. job["reset"].to \in scope /\ scope \subseteq Sims /\ scope' = scope
  BY <1>0 DEF FlagInv, TypeOK, ResetWipe
<1>3. /\ WipeFlags => \A t \in scope : flag'[t] = 0
      /\ flag'[2] = 0
      /\ WipeFlash => UNCHANGED flag
  BY <1>2 DEF ResetWipe, WipeFlags, WipeFlash, FlagInv, Sims
<1>4. CASE job["reset"].pc = "wipe1"
  <2>1. Goto("reset", "wipe2") /\ (scope = Sims => WipeFlags)
    BY <1>4 DEF ResetWipe
  <2>2. Moves("reset") /\ job'["reset"].pc = "wipe2" /\ job'["reset"].to \in scope
    BY <1>1, <1>2, <2>1, GotoMoves DEF ChargeInv, Pcs
  <2>3. \A q \in Scripts \ {"reset"} : job'[q].pc = "idle"
    BY <2>2 DEF Moves, Idle
  <2>4. QED
    BY <1>2, <1>3, <2>1, <2>2, <2>3 DEF FlagInv
<1>5. CASE job["reset"].pc = "wipe2"
  <2>1. Switch("reset", job["reset"].to, FALSE) /\ (scope # Sims => WipeFlags)
        /\ (scope = Sims => WipeFlash)
    BY <1>5 DEF ResetWipe
  <2>2. flag'[job["reset"].to] = 0
    BY <1>2, <1>3, <1>5, <2>1 DEF FlagInv
  <2>3. Moves("reset") /\ job'["reset"].pc = "select" /\ job'["reset"].to = job["reset"].to
    BY <1>1, <2>1, SwitchMoves DEF ChargeInv
  <2>4. QED
    BY <1>1, <1>3, <2>2, <2>3, FlagChosen
<1>6. QED
  BY <1>0, <1>4, <1>5

(* The steps of a switch leave the flags alone and go on to the next step.  *)
LEMMA FlagSwitch ==
  ASSUME TypeOK, ChargeInv, FlagInv, NEW p \in Scripts, SimSwitchStep(p)
  PROVE  FlagInv'
<1>1. job[p] # Idle /\ UNCHANGED flag
  BY DEF SimSwitchStep, SwitchSelect, SwitchZero, SwitchPower, Arm, Idle, accounts
<1>2. \/ Ends(p)
      \/ \E pc \in {"zero", "power", "arm"} : Goto(p, pc)
  BY DEF SimSwitchStep, SwitchSelect, SwitchZero, SwitchPower, Arm
<1>3. CASE Ends(p)
  BY <1>1, <1>3, EndsMoves, FlagQuiet DEF ChargeInv, Idle
<1>4. ASSUME NEW pc \in {"zero", "power", "arm"}, Goto(p, pc) PROVE FlagInv'
  <2>1. Moves(p) /\ job'[p].pc = pc
    BY <1>1, <1>4, GotoMoves DEF ChargeInv, Pcs
  <2>2. QED
    BY <1>1, <1>4, <2>1, FlagQuiet
<1>5. QED
  BY <1>2, <1>3, <1>4

LEMMA FlagStep ==
  ASSUME AtOnce <= 1, LimitEnable
  PROVE  TypeOK /\ ChargeInv /\ FlagInv /\ [Next]_vars => FlagInv'
<1> SUFFICES ASSUME TypeOK, ChargeInv, FlagInv, [Next]_vars PROVE FlagInv'
  OBVIOUS
<1>1. CASE Traffic
  BY <1>1 DEF Traffic, FlagInv, accounts
<1>2. CASE Reboot
  <2>1. \A p \in Scripts : job'[p].pc = "idle"
    BY <1>2 DEF Reboot, Idle
  <2>2. QED
    BY <1>2, <2>1 DEF Reboot, FlagInv, Scripts
<1>3. CASE CapStart
  <2>1. Moves("cap") /\ job'["cap"].pc = "flush"
    BY <1>3, StartsAlone, GotoMoves DEF CapStart, ChargeInv, Scripts, Pcs
  <2>2. QED
    BY <1>3, <2>1, FlagQuiet DEF CapStart, accounts, Scripts
<1>4. CASE CapFlush
  <2>1. job["cap"] # Idle /\ "cap" \in Scripts
    BY <1>4 DEF CapFlush, Idle, Scripts
  <2>2. Moves("cap") /\ job'["cap"].pc = "check"
    BY <1>4, <2>1, GotoMoves DEF CapFlush, ChargeInv, Pcs
  <2>3. QED
    BY <1>4, <2>1, <2>2, FlagQuiet DEF CapFlush
<1>5. CASE CapCheck
  BY <1>5, FlagCapCheck
<1>6. CASE MwanDisconnected
  BY <1>6, FlagStart DEF MwanDisconnected, accounts, Scripts
<1>7. CASE TimerEnds
  BY <1>7, FlagStart DEF TimerEnds, accounts, Scripts
<1>8. CASE Reset
  <2>1. Sims \in SUBSET Sims /\ 1 \in Sims /\ \A s \in Sims : {s} \in SUBSET Sims
    BY DEF Sims
  <2>2. QED
    BY <1>8, <2>1, FlagResetStart DEF Reset
<1>9. CASE ResetWipe
  BY <1>9, FlagResetWipe
<1>10. ASSUME NEW s \in Sims, Operator(s) PROVE FlagInv'
  BY <1>10, FlagStart DEF Operator, accounts, Scripts
<1>11. ASSUME NEW p \in Scripts, SimSwitchStep(p) PROVE FlagInv'
  BY <1>11, FlagSwitch
<1>12. CASE UNCHANGED vars
  BY <1>12 DEF vars, FlagInv
<1>13. QED
  BY <1>1, <1>2, <1>3, <1>4, <1>5, <1>6, <1>7, <1>8, <1>9, <1>10, <1>11, <1>12
     DEF Next, CapStep

(* The SIM number changes by the selection of the script at work, and by a  *)
(* reboot.                                                                  *)
LEMMA SelectsOnly ==
  ASSUME TypeOK, [Next]_vars, simnum' # simnum
  PROVE  \/ \A p \in Scripts : job'[p].pc = "idle"
         \/ \E p \in Scripts : SwitchSelect(p)
<1>1. CASE Reboot
  BY <1>1 DEF Reboot, Idle
<1>2. CASE ~Reboot
  BY <1>2 DEF vars, Next, Traffic, CapStart, CapStep, CapFlush, CapCheck,
     MwanDisconnected, TimerEnds, Reset, ResetStart, ResetWipe, Operator,
     SimSwitchStep, SwitchZero, SwitchPower, Arm
<1>3. QED
  BY <1>1, <1>2

(* With the limits enabled and one script at a time, no script but the      *)
(* switch-back timer selects a SIM whose data is finished.                  *)
THEOREM FinishedNotSelected ==
  ASSUME AtOnce <= 1, LimitEnable
  PROVE  Spec => NoSwitchToFinished
<1>1. TypeOK /\ ChargeInv /\ FlagInv /\ [Next]_vars
        => [\A p \in Scripts \ {"timer"} :
              job[p].pc = "select" /\ job'[p].pc = "zero" /\ simnum' # simnum
                => flag[simnum'] = 0]_vars
  <2> SUFFICES ASSUME TypeOK, ChargeInv, FlagInv, [Next]_vars,
                      NEW p \in Scripts \ {"timer"},
                      job[p].pc = "select", job'[p].pc = "zero", simnum' # simnum
               PROVE  flag[simnum'] = 0
    OBVIOUS
  <2>1. PICK q \in Scripts : SwitchSelect(q)
    BY SelectsOnly
  <2>2. job[p] # Idle /\ job[q] # Idle
    BY <2>1 DEF SwitchSelect, Idle
  <2>3. p = q
    BY <2>2 DEF ChargeInv, Alone
  <2>4. simnum' = job[p].to
    BY <2>1, <2>3 DEF SwitchSelect
  <2>5. QED
    BY <2>4 DEF FlagInv
<1>2. TypeOK /\ ChargeInv /\ [Next]_vars => ChargeInv'
  BY ChargeStep
<1>3. TypeOK /\ ChargeInv /\ FlagInv /\ [Next]_vars => FlagInv'
  BY FlagStep
<1>4. QED
  BY <1>1, <1>2, <1>3, ChargeInit, FlagInit, CapTypeCorrect, PTL
     DEF Spec, NoSwitchToFinished
=============================================================================
