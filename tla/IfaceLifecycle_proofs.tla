------------------------- MODULE IfaceLifecycle_proofs -------------------------
(* Theorems about IfaceLifecycle.                                           *)
EXTENDS IfaceLifecycle, SequenceTheorems, FiniteSets, FiniteSetTheorems, TLAPS

(* A function on 1..n is a sequence.                                        *)
LEMMA FunctionIsSeq ==
  ASSUME NEW S, NEW n \in Nat, NEW f \in [1..n -> S]
  PROVE  f \in Seq(S)
OBVIOUS

(* Every program of a caller is a sequence of steps and is not empty.       *)
LEMMA StartSteps ==
  ASSUME NEW sims \in SUBSET Sims
  PROVE  Start(sims) \in Seq(Steps) /\ Start(sims) # <<>>
<1> DEFINE ps    == <<[op |-> "ps", sims |-> sims]>>
           forks == [i \in 1..Len(Managers) |-> [op |-> "fork", mgr |-> Managers[i]]]
<1>1. Len(Managers) \in Nat
  BY ManagersAssumption
<1>2. [op |-> "ps", sims |-> sims] \in Steps
  BY DEF Steps
<1>3. ps \in Seq(Steps) /\ Len(ps) = 1
  BY <1>2
<1>4. \A i \in 1..Len(Managers) : [op |-> "fork", mgr |-> Managers[i]] \in Steps
  BY DEF Steps, ManagerSet
<1>5. forks \in Seq(Steps) /\ Len(forks) \in Nat
  <2>1. forks \in [1..Len(Managers) -> Steps]
    BY <1>4
  <2>2. forks \in Seq(Steps)
    BY <1>1, <2>1, FunctionIsSeq
  <2> QED BY <2>2, LenProperties
<1> HIDE DEF ps, forks
<1>6. ps \o forks \in Seq(Steps) /\ Len(ps \o forks) = 1 + Len(forks)
  BY <1>3, <1>5, ConcatProperties
<1>7. Len(ps \o forks) # 0
  BY <1>5, <1>6
<1>8. ps \o forks # <<>>
  BY <1>7, EmptySeq
<1>9. Start(sims) = ps \o forks
  BY DEF Start, ps, forks
<1> QED BY <1>6, <1>8, <1>9

LEMMA StopSteps ==
  ASSUME NEW sims \in SUBSET Sims
  PROVE  Stop(sims) \in Seq(Steps)
<1>1. Len(Managers) \in Nat
  BY ManagersAssumption
<1>2. \A i \in 1..Len(Managers) :
        [op |-> "kill", mgr |-> Managers[i], sims |-> sims] \in Steps
  BY DEF Steps, ManagerSet
<1>3. Stop(sims) \in [1..Len(Managers) -> Steps]
  BY <1>2 DEF Stop
<1> QED BY <1>1, <1>3, FunctionIsSeq

LEMMA SelectSteps ==
  ASSUME NEW s \in Sims
  PROVE  Select(s) \in Seq(Steps) /\ Select(s) # <<>>
<1>1. {s} \in SUBSET Sims
  OBVIOUS
<1>2. [op |-> "select", sims |-> {s}] \in Steps
  BY <1>1 DEF Steps
<1> QED BY <1>2 DEF Select

(* A sequence with a part that is not empty is not empty.                   *)
LEMMA ConcatSteps ==
  ASSUME NEW p \in Seq(Steps), NEW q \in Seq(Steps)
  PROVE  /\ p \o q \in Seq(Steps)
         /\ (p # <<>> \/ q # <<>>) => p \o q # <<>>
BY ConcatProperties, ConcatEqualIffEmpty

LEMMA Programs ==
  /\ Boot \in Seq(Steps) /\ Boot # <<>>
  /\ \A s \in Sims : SwitchSteps(s) \in Seq(Steps) /\ SwitchSteps(s) # <<>>
  /\ \A s \in Sims : UpdateSteps(s) \in Seq(Steps) /\ UpdateSteps(s) # <<>>
  /\ RestartSteps \in Seq(Steps) /\ RestartSteps # <<>>
<1>1. Sims \in SUBSET Sims /\ \A s \in Sims : {s} \in SUBSET Sims
  OBVIOUS
<1>2. Boot \in Seq(Steps) /\ Boot # <<>>
  BY <1>1, StartSteps DEF Boot
<1>3. ASSUME NEW s \in Sims
      PROVE  SwitchSteps(s) \in Seq(Steps) /\ SwitchSteps(s) # <<>>
  <2>1. Select(s) \o Start({s}) \in Seq(Steps)
    BY <1>1, SelectSteps, StartSteps, ConcatSteps
  <2>2. Select(s) \o Start({s}) \o Stop(Sims) \in Seq(Steps)
    BY <1>1, <2>1, StopSteps, ConcatSteps
  <2> QED BY <1>2, <2>2, ConcatSteps DEF SwitchSteps
<1>4. ASSUME NEW s \in Sims
      PROVE  UpdateSteps(s) \in Seq(Steps) /\ UpdateSteps(s) # <<>>
  BY <1>1, StopSteps, StartSteps, ConcatSteps DEF UpdateSteps
<1>5. RestartSteps \in Seq(Steps) /\ RestartSteps # <<>>
  <2>1. 1 \in Sims /\ 2 \in Sims
    BY DEF Sims
  <2>2. Select(1) \o UpdateSteps(1) \in Seq(Steps)
    BY <1>4, <2>1, SelectSteps, ConcatSteps
  <2>3. Select(1) \o UpdateSteps(1) \o Stop({1}) \in Seq(Steps)
    BY <1>1, <2>1, <2>2, StopSteps, ConcatSteps
  <2>4. Select(1) \o UpdateSteps(1) \o Stop({1}) \o Stop({2}) \in Seq(Steps)
    BY <1>1, <2>1, <2>3, StopSteps, ConcatSteps
  <2>5. Select(1) \o UpdateSteps(1) \o Stop({1}) \o Stop({2}) \o Stop(Sims)
          \in Seq(Steps)
    BY <1>1, <2>4, StopSteps, ConcatSteps
  <2> QED BY <1>2, <2>5, ConcatSteps DEF RestartSteps
<1> QED BY <1>2, <1>3, <1>4, <1>5

(* Going on keeps the types of what callers do and have left.               *)
LEMMA AdvanceType ==
  ASSUME TypeOK, NEW c \in Callers, todo[c] # <<>>, Advance(c)
  PROVE  /\ todo' \in [Callers -> Seq(Steps)]
         /\ kind' \in [Callers -> Kinds]
         /\ \A b \in Callers : (kind'[b] = "idle") = (todo'[b] = <<>>)
<1>1. todo[c] \in Seq(Steps) /\ todo[c] # <<>>
  BY DEF TypeOK
<1>2. Tail(todo[c]) \in Seq(Steps) /\ (Len(todo[c]) = 1) = (Tail(todo[c]) = <<>>)
  <2>1. Tail(todo[c]) \in Seq(Steps) /\ Len(Tail(todo[c])) = Len(todo[c]) - 1
    BY <1>1
  <2>2. (Tail(todo[c]) = <<>>) = (Len(Tail(todo[c])) = 0)
    BY <2>1, EmptySeq
  <2>3. Len(todo[c]) \in Nat
    BY <1>1
  <2> QED BY <2>1, <2>2, <2>3
<1>3. kind[c] # "idle"
  BY <1>1 DEF TypeOK
<1>4. todo' \in [Callers -> Seq(Steps)] /\ kind' \in [Callers -> Kinds]
  BY <1>2 DEF Advance, TypeOK, Kinds
<1>5. ASSUME NEW b \in Callers
      PROVE  (kind'[b] = "idle") = (todo'[b] = <<>>)
  <2>1. CASE b = c
    BY <1>2, <1>3, <2>1 DEF Advance, TypeOK
  <2>2. CASE b # c
    BY <2>2 DEF Advance, TypeOK
  <2> QED BY <2>1, <2>2
<1> QED BY <1>4, <1>5
-----------------------------------------------------------------------------
(* Type correctness, the uniqueness of pids included.                       *)
LEMMA TypeStep == TypeOK /\ [Next]_vars => TypeOK'
<1> SUFFICES ASSUME TypeOK, [Next]_vars PROVE TypeOK'
  OBVIOUS
<1>1. ASSUME NEW c \in Callers, NEW k \in Kinds \ {"idle"},
             NEW p \in Seq(Steps), p # <<>>, Call(c, k, p)
      PROVE  TypeOK'
  BY <1>1 DEF Call, TypeOK
<1>2. ASSUME NEW c \in Callers, NEW s \in Sims, SimSwitch(c, s)
      PROVE  TypeOK'
  BY <1>1, <1>2, Programs DEF SimSwitch, Kinds
<1>3. ASSUME NEW c \in Callers, NEW s \in Sims, Update(c, s)
      PROVE  TypeOK'
  BY <1>1, <1>3, Programs DEF Update, Kinds
<1>4. ASSUME NEW c \in Callers, SystemRestart(c)
      PROVE  TypeOK'
  BY <1>1, <1>4, Programs DEF SystemRestart, Kinds
<1>5. ASSUME NEW c \in Callers, SelectStep(c)
      PROVE  TypeOK'
  <2>1. Head(todo[c]) \in Steps /\ Head(todo[c]).op = "select"
    BY <1>5 DEF SelectStep, Does, TypeOK
  <2>2. Head(todo[c]).sims \in SUBSET Sims
    BY <2>1 DEF Steps
  <2> QED BY <1>5, <2>2, AdvanceType DEF SelectStep, Does, TypeOK
<1>6. ASSUME NEW c \in Callers, PsStep(c)
      PROVE  TypeOK'
  BY <1>6, AdvanceType DEF PsStep, Does, TypeOK, Missing
<1>7. ASSUME NEW c \in Callers, ForkStep(c)
      PROVE  TypeOK'
  <2> DEFINE new == {f \in toStart[c] : f.mgr = Head(todo[c]).mgr}
  <2>1. toStart[c] \subseteq [mgr : ManagerSet, sim : Sims]
    BY DEF TypeOK
  <2>2. toStart' \in [Callers -> SUBSET [mgr : ManagerSet, sim : Sims]]
    BY <1>7, <2>1 DEF ForkStep, TypeOK
  <2>3. /\ dispatchers' \subseteq Dispatcher
        /\ \A d, e \in dispatchers' : d.pid = e.pid => d = e
    <3>1. CASE new = {}
      BY <1>7, <3>1 DEF ForkStep, TypeOK
    <3>2. CASE new # {}
      <4>1. PICK f \in new, p \in FreePids :
              dispatchers' = dispatchers \union
                               {[pid |-> p, mgr |-> f.mgr, sim |-> f.sim]}
        BY <1>7, <3>2 DEF ForkStep
      <4>2. f.mgr \in ManagerSet /\ f.sim \in Sims
        BY <2>1
      <4>3. p \in Pids /\ \A d \in dispatchers : d.pid # p
        BY DEF FreePids
      <4> QED BY <4>1, <4>2, <4>3 DEF TypeOK, Dispatcher
    <3> QED BY <3>1, <3>2
  <2> QED BY <1>7, <2>2, <2>3, AdvanceType DEF ForkStep, Does, TypeOK
<1>8. ASSUME NEW c \in Callers, KillStep(c)
      PROVE  TypeOK'
  <2>1. dispatchers' \subseteq dispatchers
    BY <1>8 DEF KillStep
  <2> QED BY <1>8, <2>1, AdvanceType DEF KillStep, Does, TypeOK
<1>9. ASSUME NEW c \in Callers, Reboot(c)
      PROVE  TypeOK'
  BY <1>9, Programs DEF Reboot, TypeOK, Kinds, Sims
<1>10. CASE UNCHANGED vars
  BY <1>10 DEF vars, TypeOK
<1> QED BY <1>2, <1>3, <1>4, <1>5, <1>6, <1>7, <1>8, <1>9, <1>10 DEF Next

LEMMA TypeInit == Init => TypeOK
BY Programs DEF Init, TypeOK, Kinds, Sims

(* The state of the callers and of the process table is of its type always, *)
(* and no two dispatchers share a pid.                                      *)
THEOREM LifecycleTypeCorrect == Spec => []TypeOK
BY TypeInit, TypeStep, PTL DEF Spec
-----------------------------------------------------------------------------
(* With one caller at a time, what a ps did not show is not there when it   *)
(* is forked: the only forks in between are the caller's own, and each      *)
(* takes what it starts off the list.                                       *)
StillMissing ==
  \A c \in Callers : \A f \in toStart[c] : ~Runs(f.mgr, f.sim)

OneInv == OneDispatcher /\ StillMissing

LEMMA OneStep ==
  ASSUME \A b, c \in Callers : b = c,
         TypeOK, OneInv, [Next]_vars
  PROVE  OneInv'
<1>1. ASSUME NEW c \in Callers, dispatchers' \subseteq dispatchers,
             UNCHANGED toStart
      PROVE  OneInv'
  BY <1>1 DEF OneInv, OneDispatcher, StillMissing, Runs
<1>2. ASSUME NEW c \in Callers, PsStep(c)
      PROVE  OneInv'
  <2>1. OneDispatcher'
    BY <1>2 DEF PsStep, OneInv, OneDispatcher
  <2>2. ASSUME NEW b \in Callers, NEW f \in toStart'[b]
        PROVE  ~Runs(f.mgr, f.sim)'
    <3>1. f \in Missing(enabled)
      BY <1>2, <2>2 DEF PsStep, TypeOK
    <3> QED BY <1>2, <3>1 DEF PsStep, Missing, Runs
  <2> QED BY <2>1, <2>2 DEF OneInv, StillMissing
<1>3. ASSUME NEW c \in Callers, ForkStep(c)
      PROVE  OneInv'
  <2> DEFINE new == {f \in toStart[c] : f.mgr = Head(todo[c]).mgr}
  <2>1. toStart[c] \subseteq [mgr : ManagerSet, sim : Sims]
    BY DEF TypeOK
  <2>2. toStart'[c] = toStart[c] \ new
    BY <1>3 DEF ForkStep, TypeOK
  <2>3. CASE new = {}
    <3>1. dispatchers' = dispatchers /\ toStart'[c] = toStart[c]
      BY <1>3, <2>2, <2>3 DEF ForkStep
    <3> QED BY <3>1 DEF OneInv, OneDispatcher, StillMissing, Runs
  <2>4. CASE new # {}
    <3>1. PICK f \in new, p \in FreePids :
            dispatchers' = dispatchers \union
                             {[pid |-> p, mgr |-> f.mgr, sim |-> f.sim]}
      BY <1>3, <2>4 DEF ForkStep
    <3>2. \A d \in dispatchers : ~(d.mgr = f.mgr /\ d.sim = f.sim)
      BY DEF OneInv, StillMissing, Runs
    <3>3. OneDispatcher'
      BY <3>1, <3>2 DEF OneInv, OneDispatcher
    <3>4. ASSUME NEW b \in Callers, NEW g \in toStart'[b]
          PROVE  ~Runs(g.mgr, g.sim)'
      <4>1. g \in toStart[c] /\ g.mgr # f.mgr
        BY <2>2, <3>4
      <4>2. ~Runs(g.mgr, g.sim)
        BY <4>1 DEF OneInv, StillMissing
      <4> QED BY <3>1, <4>1, <4>2 DEF Runs
    <3> QED BY <3>3, <3>4 DEF OneInv, StillMissing
  <2> QED BY <2>3, <2>4
<1>4. ASSUME NEW c \in Callers, Reboot(c)
      PROVE  OneInv'
  BY <1>4 DEF Reboot, OneInv, OneDispatcher, StillMissing, Runs
<1>5. ASSUME NEW c \in Callers, KillStep(c)
      PROVE  OneInv'
  BY <1>1, <1>5 DEF KillStep
<1>6. CASE UNCHANGED vars
  BY <1>6 DEF vars, OneInv, OneDispatcher, StillMissing, Runs
<1> QED BY <1>1, <1>2, <1>3, <1>4, <1>5, <1>6
        DEF Next, SimSwitch, Update, SystemRestart, Call, SelectStep

(* No manager of a SIM ever has two dispatchers, so that each message is    *)
(* handled once, as long as callers of the initializer take turns.          *)
THEOREM LifecycleOneDispatcher ==
  ASSUME \A b, c \in Callers : b = c
  PROVE  Spec => []OneDispatcher
<1>1. Init => OneInv
  BY DEF Init, OneInv, OneDispatcher, StillMissing
<1>2. TypeOK /\ OneInv /\ [Next]_vars => OneInv'
  BY OneStep
<1>3. OneInv => OneDispatcher
  BY DEF OneInv
<1> QED BY <1>1, <1>2, <1>3, LifecycleTypeCorrect, PTL DEF Spec
-----------------------------------------------------------------------------
(* Programs that end with a start of the sections of sims: a ps, and then a *)
(* fork for every manager.                                                  *)
ForksAfter(t, i) ==
  /\ \A j \in (i+1)..Len(t) : t[j].op = "fork"
  /\ \A m \in ManagerSet : \E j \in (i+1)..Len(t) : t[j].mgr = m

EndsWith(t, sims) ==
  \E i \in 1..Len(t) : t[i].op = "ps" /\ t[i].sims = sims /\ ForksAfter(t, i)

NoSelect(t) == \A j \in 1..Len(t) : t[j].op # "select"

(* The steps of a start, one by one.                                        *)
LEMMA StartParts ==
  ASSUME NEW sims \in SUBSET Sims
  PROVE  /\ Start(sims) \in Seq(Steps)
         /\ Len(Start(sims)) = Len(Managers) + 1
         /\ Start(sims)[1].op = "ps" /\ Start(sims)[1].sims = sims
         /\ \A i \in 1..Len(Managers) :
              /\ Start(sims)[i+1].op = "fork"
              /\ Start(sims)[i+1].mgr = Managers[i]
<1> DEFINE ps    == <<[op |-> "ps", sims |-> sims]>>
           forks == [i \in 1..Len(Managers) |-> [op |-> "fork", mgr |-> Managers[i]]]
<1>1. Len(Managers) \in Nat
  BY ManagersAssumption
<1>2. /\ ps \in Seq(Steps) /\ Len(ps) = 1
      /\ ps[1].op = "ps" /\ ps[1].sims = sims
  BY DEF Steps
<1>3. \A i \in 1..Len(Managers) : [op |-> "fork", mgr |-> Managers[i]] \in Steps
  BY DEF Steps, ManagerSet
<1>4. forks \in [1..Len(Managers) -> Steps]
  BY <1>3
<1>5. forks \in Seq(Steps)
  BY <1>1, <1>4, FunctionIsSeq
<1>6. \A i \in 1..Len(Managers) :
        forks[i].op = "fork" /\ forks[i].mgr = Managers[i]
  OBVIOUS
<1>7. DOMAIN forks = 1..Len(Managers)
  OBVIOUS
<1>8. Start(sims) = ps \o forks
  BY DEF Start
<1> HIDE DEF ps, forks
<1>9. Len(forks) = Len(Managers)
  BY <1>1, <1>5, <1>7, LenProperties
<1>10. /\ ps \o forks \in Seq(Steps)
       /\ Len(ps \o forks) = Len(Managers) + 1
       /\ (ps \o forks)[1] = ps[1]
       /\ \A i \in 1..Len(Managers) : (ps \o forks)[i+1] = forks[i]
  <2> DEFINE all == ps \o forks
  <2>1. /\ all \in Seq(Steps)
        /\ Len(all) = Len(ps) + Len(forks)
        /\ \A i \in 1..Len(ps) + Len(forks) :
             all[i] = IF i <= Len(ps) THEN ps[i] ELSE forks[i - Len(ps)]
    BY <1>2, <1>5, ConcatProperties, Zenon
  <2> HIDE DEF all
  <2>2. Len(all) = Len(Managers) + 1 /\ all[1] = ps[1]
    BY <1>1, <1>2, <1>9, <2>1
  <2>3. ASSUME NEW i \in 1..Len(Managers) PROVE all[i+1] = forks[i]
    <3>1. /\ i + 1 \in 1..Len(ps) + Len(forks) /\ ~(i + 1 <= Len(ps))
          /\ (i + 1) - Len(ps) = i
      BY <1>1, <1>2, <1>9
    <3> QED BY <2>1, <3>1
  <2> QED BY <2>1, <2>2, <2>3 DEF all
<1> QED BY <1>2, <1>6, <1>8, <1>10

LEMMA StartEnds ==
  ASSUME NEW sims \in SUBSET Sims
  PROVE  EndsWith(Start(sims), sims) /\ NoSelect(Start(sims))
<1> DEFINE t == Start(sims)
<1>1. /\ Len(Managers) \in Nat
      /\ Len(t) = Len(Managers) + 1
      /\ t[1].op = "ps" /\ t[1].sims = sims
  BY StartParts, ManagersAssumption
<1>2. \A i \in 1..Len(Managers) : t[i+1].op = "fork" /\ t[i+1].mgr = Managers[i]
  BY StartParts
<1> HIDE DEF t
<1>3. ASSUME NEW j \in (1+1)..Len(t)
      PROVE  t[j].op = "fork"
  <2>1. j - 1 \in 1..Len(Managers) /\ (j - 1) + 1 = j
    BY <1>1
  <2> QED BY <1>2, <2>1
<1>4. ASSUME NEW m \in ManagerSet
      PROVE  \E j \in (1+1)..Len(t) : t[j].mgr = m
  <2>1. PICK i \in 1..Len(Managers) : m = Managers[i]
    BY DEF ManagerSet
  <2>2. i + 1 \in (1+1)..Len(t)
    BY <1>1
  <2> QED BY <1>2, <2>1, <2>2
<1>5. 1 \in 1..Len(t)
  BY <1>1
<1>6. ForksAfter(t, 1)
  BY <1>3, <1>4 DEF ForksAfter
<1>7. EndsWith(t, sims)
  BY <1>1, <1>5, <1>6 DEF EndsWith
<1>8. NoSelect(t)
  <2>1. \A j \in 1..Len(t) : j = 1 \/ j \in (1+1)..Len(t)
    BY <1>1
  <2> QED BY <1>1, <1>3, <2>1 DEF NoSelect
<1> QED BY <1>7, <1>8 DEF t

LEMMA EndsConcat ==
  ASSUME NEW x \in Seq(Steps), NEW t \in Seq(Steps), NEW sims, EndsWith(t, sims)
  PROVE  EndsWith(x \o t, sims)
<1> DEFINE n == Len(x)
           y == x \o t
<1>1. /\ n \in Nat /\ Len(t) \in Nat /\ Len(y) = n + Len(t)
      /\ \A j \in 1..Len(t) : y[n + j] = t[j]
  BY ConcatProperties
<1>2. PICK i \in 1..Len(t) :
        t[i].op = "ps" /\ t[i].sims = sims /\ ForksAfter(t, i)
  BY DEF EndsWith
<1> HIDE DEF n, y
<1>3. n + i \in 1..Len(y) /\ y[n + i] = t[i]
  BY <1>1
<1>4. ASSUME NEW j \in (n + i + 1)..Len(y)
      PROVE  y[j].op = "fork"
  <2>1. j - n \in (i+1)..Len(t) /\ j - n \in 1..Len(t) /\ n + (j - n) = j
    BY <1>1
  <2>2. y[j] = t[j - n]
    BY <1>1, <2>1
  <2> QED BY <1>2, <2>1, <2>2 DEF ForksAfter
<1>5. ASSUME NEW m \in ManagerSet
      PROVE  \E j \in (n + i + 1)..Len(y) : y[j].mgr = m
  <2>1. PICK j \in (i+1)..Len(t) : t[j].mgr = m
    BY <1>2 DEF ForksAfter
  <2>2. n + j \in (n + i + 1)..Len(y) /\ j \in 1..Len(t)
    BY <1>1
  <2>3. y[n + j].mgr = m
    BY <1>1, <2>1, <2>2
  <2> QED BY <2>2, <2>3
<1>6. ForksAfter(y, n + i)
  BY <1>4, <1>5 DEF ForksAfter
<1> QED BY <1>2, <1>3, <1>6 DEF EndsWith, y

(* What is left of such a program ends the same way, until its last ps is   *)
(* reached; then only the forks are left.                                   *)
LEMMA EndsTail ==
  ASSUME NEW t \in Seq(Steps), t # <<>>, NEW sims, EndsWith(t, sims)
  PROVE  \/ EndsWith(Tail(t), sims)
         \/ /\ Head(t).op = "ps" /\ Head(t).sims = sims
            /\ ForksAfter(Tail(t), 0)
<1> DEFINE u == Tail(t)
<1>1. /\ Len(t) \in Nat /\ Len(t) >= 1 /\ Len(u) = Len(t) - 1
      /\ \A j \in 1..Len(u) : u[j] = t[j+1]
      /\ Head(t) = t[1]
  BY HeadTailProperties, EmptySeq
<1>2. PICK i \in 1..Len(t) :
        t[i].op = "ps" /\ t[i].sims = sims /\ ForksAfter(t, i)
  BY DEF EndsWith
<1> HIDE DEF u
<1>3. ASSUME NEW j \in i..Len(u)
      PROVE  u[j].op = "fork"
  <2>1. j + 1 \in (i+1)..Len(t) /\ j \in 1..Len(u)
    BY <1>1
  <2> QED BY <1>1, <1>2, <2>1 DEF ForksAfter
<1>4. ASSUME NEW m \in ManagerSet
      PROVE  \E j \in i..Len(u) : u[j].mgr = m
  <2>1. PICK j \in (i+1)..Len(t) : t[j].mgr = m
    BY <1>2 DEF ForksAfter
  <2>2. j - 1 \in i..Len(u) /\ j - 1 \in 1..Len(u) /\ (j - 1) + 1 = j
    BY <1>1
  <2>3. u[j - 1].mgr = m
    BY <1>1, <2>1, <2>2
  <2> QED BY <2>2, <2>3
<1>5. ForksAfter(u, i - 1)
  <2>1. (i - 1) + 1 = i
    BY <1>1
  <2> QED BY <1>3, <1>4, <2>1 DEF ForksAfter
<1>6. CASE i = 1
  <2>1. ForksAfter(u, 0)
    BY <1>5, <1>6
  <2> QED BY <1>1, <1>2, <1>6, <2>1 DEF u
<1>7. CASE i # 1
  <2>1. i - 1 \in 1..Len(u) /\ (i - 1) + 1 = i
    BY <1>1, <1>7
  <2>2. u[i - 1] = t[i]
    BY <1>1, <2>1
  <2> QED BY <1>2, <1>5, <2>1, <2>2 DEF EndsWith, u
<1> QED BY <1>6, <1>7

LEMMA StopKills ==
  ASSUME NEW sims \in SUBSET Sims
  PROVE  /\ Stop(sims) \in Seq(Steps)
         /\ Len(Stop(sims)) = Len(Managers)
         /\ \A j \in 1..Len(Managers) :
              /\ Stop(sims)[j].op = "kill"
              /\ Stop(sims)[j].mgr = Managers[j]
              /\ Stop(sims)[j].sims = sims
<1>1. Len(Managers) \in Nat
  BY ManagersAssumption
<1>2. Stop(sims) \in Seq(Steps)
  BY StopSteps
<1>3. DOMAIN Stop(sims) = 1..Len(Managers)
  BY DEF Stop
<1>4. Len(Stop(sims)) = Len(Managers)
  BY <1>1, <1>2, <1>3, LenProperties
<1>5. \A j \in 1..Len(Managers) :
        /\ Stop(sims)[j].op = "kill"
        /\ Stop(sims)[j].mgr = Managers[j]
        /\ Stop(sims)[j].sims = sims
  BY DEF Stop
<1> QED BY <1>2, <1>4, <1>5

(* An update selects nothing and touches no section but its own.            *)
LEMMA UpdateOwn ==
  ASSUME NEW s \in Sims
  PROVE  /\ EndsWith(UpdateSteps(s), {s})
         /\ NoSelect(UpdateSteps(s))
         /\ \A j \in 1..Len(UpdateSteps(s)) :
              UpdateSteps(s)[j].op \in {"kill", "ps"} =>
                UpdateSteps(s)[j].sims = {s}
<1> DEFINE x == Stop({s})
           t == Start({s})
<1>1. {s} \in SUBSET Sims
  OBVIOUS
<1>2. /\ x \in Seq(Steps) /\ Len(x) = Len(Managers) /\ Len(Managers) \in Nat
      /\ \A j \in 1..Len(x) : x[j].op = "kill" /\ x[j].sims = {s}
  BY <1>1, StopKills, ManagersAssumption
<1>3. /\ t \in Seq(Steps) /\ EndsWith(t, {s}) /\ NoSelect(t) /\ Len(t) \in Nat
  BY <1>1, StartSteps, StartEnds
<1>4. ASSUME NEW j \in 1..Len(t)
      PROVE  t[j].op \in {"kill", "ps"} => t[j].sims = {s}
  <2>1. CASE j = 1
    BY <1>1, <2>1, StartParts
  <2>2. CASE j # 1
    <3>1. Len(t) = Len(Managers) + 1
      BY <1>1, StartParts
    <3>2. j - 1 \in 1..Len(Managers) /\ (j - 1) + 1 = j
      BY <1>2, <2>2, <3>1
    <3>3. t[(j - 1) + 1].op = "fork"
      BY <1>1, <3>2, StartParts
    <3> QED BY <3>2, <3>3
  <2> QED BY <2>1, <2>2
<1>5. UpdateSteps(s) = x \o t
  BY DEF UpdateSteps
<1> HIDE DEF x, t
<1>6. ASSUME NEW j \in 1..Len(x \o t)
      PROVE  /\ (x \o t)[j].op # "select"
             /\ (x \o t)[j].op \in {"kill", "ps"} => (x \o t)[j].sims = {s}
  <2>1. /\ Len(x \o t) = Len(x) + Len(t)
        /\ (x \o t)[j] = IF j <= Len(x) THEN x[j] ELSE t[j - Len(x)]
    BY <1>2, <1>3, ConcatProperties
  <2>2. CASE j <= Len(x)
    <3>1. j \in 1..Len(x) /\ (x \o t)[j] = x[j]
      BY <1>2, <2>1, <2>2
    <3> QED BY <1>2, <3>1
  <2>3. CASE ~(j <= Len(x))
    <3>1. j - Len(x) \in 1..Len(t) /\ (x \o t)[j] = t[j - Len(x)]
      BY <1>2, <1>3, <2>1, <2>3
    <3> QED BY <1>3, <1>4, <3>1 DEF NoSelect
  <2> QED BY <2>2, <2>3
<1>7. EndsWith(x \o t, {s})
  BY <1>2, <1>3, EndsConcat
<1> QED BY <1>5, <1>6, <1>7 DEF NoSelect

(* The other callers may do anything in between.  Whatever a caller takes   *)
(* away it starts again: until only its forks are left, its program ends    *)
(* with a start of at least the sections it kills, and of both sections if  *)
(* it selects one.                                                          *)
OnlyForks(t) == \A j \in 1..Len(t) : t[j].op = "fork"

Restores(t, sims) ==
  /\ EndsWith(t, sims)
  /\ \A j \in 1..Len(t) : t[j].op = "kill" => t[j].sims \subseteq sims
  /\ NoSelect(t) \/ sims = Sims

Restoring(t) == OnlyForks(t) \/ \E sims \in SUBSET Sims : Restores(t, sims)

(* Caller c has yet to look whether manager m of the enabled SIM runs, or   *)
(* has seen that it does not and has yet to fork it.                        *)
WillStart(c, m) ==
  \/ \E sims \in SUBSET Sims : EndsWith(todo[c], sims) /\ enabled \in sims
  \/ /\ OnlyForks(todo[c])
     /\ [mgr |-> m, sim |-> enabled] \in toStart[c]
     /\ \E j \in 1..Len(todo[c]) : todo[c][j].mgr = m

ServedInv ==
  /\ \A c \in Callers : Restoring(todo[c])
  /\ \A c \in Callers : \A f, g \in toStart[c] : f.sim = g.sim
  /\ \A m \in ManagerSet : Runs(m, enabled) \/ \E c \in Callers : WillStart(c, m)

LEMMA ServedWhenIdle ==
  ASSUME TypeOK, ServedInv
  PROVE  SelectedServed
<1> SUFFICES ASSUME Quiet, NEW m \in ManagerSet PROVE Runs(m, enabled)
  BY DEF SelectedServed
<1>1. \A c \in Callers : todo[c] = <<>> /\ 1..Len(todo[c]) = {}
  BY DEF Quiet, TypeOK
<1>2. \A c \in Callers : ~WillStart(c, m)
  BY <1>1 DEF WillStart, EndsWith
<1> QED BY <1>2 DEF ServedInv

(* What is left after one step.                                             *)
LEMMA TailOf ==
  ASSUME TypeOK, NEW c \in Callers, todo[c] # <<>>, Advance(c)
  PROVE  /\ todo[c] \in Seq(Steps)
         /\ todo'[c] = Tail(todo[c])
         /\ Head(todo[c]) = todo[c][1]
         /\ Len(todo[c]) \in Nat /\ 1 \in 1..Len(todo[c])
         /\ Len(todo'[c]) = Len(todo[c]) - 1
         /\ \A j \in 1..Len(todo'[c]) :
              j + 1 \in 1..Len(todo[c]) /\ todo'[c][j] = todo[c][j+1]
<1>1. todo[c] \in Seq(Steps) /\ Len(todo[c]) \in Nat
  BY DEF TypeOK
<1>2. todo'[c] = Tail(todo[c])
  BY DEF Advance, TypeOK
<1>3. Len(todo[c]) # 0
  BY <1>1, EmptySeq
<1>4. /\ Len(Tail(todo[c])) = Len(todo[c]) - 1
      /\ \A j \in 1..Len(Tail(todo[c])) : Tail(todo[c])[j] = todo[c][j+1]
  BY <1>1, HeadTailProperties
<1> QED BY <1>1, <1>2, <1>3, <1>4

(* The programs of the callers start again what they stop.                  *)
LEMMA ProgramsRestore ==
  /\ \A s \in Sims : Restores(UpdateSteps(s), {s})
  /\ \A s \in Sims : Restores(SwitchSteps(s), Sims)
  /\ Restores(RestartSteps, Sims)
  /\ Restores(Boot, Sims)
<1>1. /\ 1 \in Sims /\ 2 \in Sims /\ {1} \in SUBSET Sims /\ {2} \in SUBSET Sims
      /\ Sims \in SUBSET Sims /\ \A s \in Sims : {s} \in SUBSET Sims
  BY DEF Sims
<1>2. ASSUME NEW s \in Sims
      PROVE  Restores(UpdateSteps(s), {s})
  BY UpdateOwn DEF Restores
<1>3. ASSUME NEW t \in Seq(Steps), EndsWith(t, Sims)
      PROVE  Restores(t, Sims)
  <2>1. ASSUME NEW j \in 1..Len(t), t[j].op = "kill"
        PROVE  t[j].sims \subseteq Sims
    <3>1. t[j] \in Steps
      BY <1>3
    <3> QED BY <2>1, <3>1 DEF Steps
  <2> QED BY <1>3, <2>1 DEF Restores
<1>4. EndsWith(Boot, Sims) /\ Boot \in Seq(Steps)
  BY <1>1, StartEnds, StartSteps DEF Boot
<1>5. ASSUME NEW s \in Sims
      PROVE  EndsWith(SwitchSteps(s), Sims)
  <2>1. Select(s) \o Start({s}) \o Stop(Sims) \in Seq(Steps)
    BY <1>1, SelectSteps, StartSteps, StopSteps, ConcatSteps
  <2> QED BY <1>4, <2>1, EndsConcat DEF SwitchSteps
<1>6. EndsWith(RestartSteps, Sims)
  <2>1. Select(1) \o UpdateSteps(1) \in Seq(Steps)
    BY <1>1, Programs, SelectSteps, ConcatSteps
  <2>2. Select(1) \o UpdateSteps(1) \o Stop({1}) \o Stop({2}) \in Seq(Steps)
    BY <1>1, <2>1, StopSteps, ConcatSteps
  <2>3. Select(1) \o UpdateSteps(1) \o Stop({1}) \o Stop({2}) \o Stop(Sims)
          \in Seq(Steps)
    BY <1>1, <2>2, StopSteps, ConcatSteps
  <2> QED BY <1>4, <2>3, EndsConcat DEF RestartSteps
<1> QED BY <1>2, <1>3, <1>4, <1>5, <1>6, Programs

(* Going on, a caller still restores what it takes away.                    *)
LEMMA RestoresTail ==
  ASSUME TypeOK, NEW c \in Callers, todo[c] # <<>>, Advance(c),
         NEW sims, Restores(todo[c], sims)
  PROVE  \/ Restores(todo'[c], sims)
         \/ /\ Head(todo[c]).op = "ps" /\ Head(todo[c]).sims = sims
            /\ ForksAfter(todo'[c], 0)
<1>1. /\ todo[c] \in Seq(Steps) /\ todo'[c] = Tail(todo[c])
      /\ \A j \in 1..Len(todo'[c]) :
           j + 1 \in 1..Len(todo[c]) /\ todo'[c][j] = todo[c][j+1]
  BY TailOf
<1>2. \/ EndsWith(todo'[c], sims)
      \/ /\ Head(todo[c]).op = "ps" /\ Head(todo[c]).sims = sims
         /\ ForksAfter(todo'[c], 0)
  BY <1>1, EndsTail DEF Restores
<1>3. \A j \in 1..Len(todo'[c]) :
        todo'[c][j].op = "kill" => todo'[c][j].sims \subseteq sims
  BY <1>1 DEF Restores
<1>4. NoSelect(todo[c]) => NoSelect(todo'[c])
  BY <1>1 DEF NoSelect
<1> QED BY <1>2, <1>3, <1>4 DEF Restores

LEMMA RestoringTail ==
  ASSUME TypeOK, NEW c \in Callers, todo[c] # <<>>, Advance(c),
         Restoring(todo[c])
  PROVE  Restoring(todo'[c])
<1>1. CASE OnlyForks(todo[c])
  <2>1. OnlyForks(todo'[c])
    BY <1>1, TailOf DEF OnlyForks
  <2> QED BY <2>1 DEF Restoring
<1>2. ASSUME NEW sims \in SUBSET Sims, Restores(todo[c], sims)
      PROVE  Restoring(todo'[c])
  <2>1. ForksAfter(todo'[c], 0) => OnlyForks(todo'[c])
    BY DEF ForksAfter, OnlyForks
  <2> QED BY <1>2, <2>1, RestoresTail DEF Restoring
<1> QED BY <1>1, <1>2 DEF Restoring

(* What another caller will start does not depend on what this one does.    *)
LEMMA OthersWillStart ==
  ASSUME NEW b, NEW m, WillStart(b, m),
         enabled' = enabled, todo'[b] = todo[b], toStart'[b] = toStart[b]
  PROVE  WillStart(b, m)'
BY DEF WillStart

LEMMA ServedStep ==
  ASSUME TypeOK, ServedInv, [Next]_vars
  PROVE  ServedInv'
<1> DEFINE Structure == /\ \A c \in Callers : Restoring(todo[c])
                        /\ \A c \in Callers : \A f, g \in toStart[c] : f.sim = g.sim
           Served(m) == Runs(m, enabled) \/ \E c \in Callers : WillStart(c, m)
<1>1. ASSUME NEW c \in Callers, todo[c] # <<>>, Advance(c),
             \A f, g \in toStart'[c] : f.sim = g.sim,
             \A b \in Callers \ {c} : toStart'[b] = toStart[b]
      PROVE  Structure'
  <2>1. Restoring(todo'[c])
    BY <1>1, RestoringTail DEF ServedInv
  <2>2. \A b \in Callers \ {c} : todo'[b] = todo[b]
    BY <1>1 DEF Advance, TypeOK
  <2> QED BY <1>1, <2>1, <2>2 DEF ServedInv
<1>2. ASSUME NEW c \in Callers, NEW k, NEW p, Call(c, k, p),
             NEW sims \in SUBSET Sims, Restores(p, sims)
      PROVE  ServedInv'
  <2>1. /\ todo'[c] = p /\ todo[c] = <<>>
        /\ \A b \in Callers \ {c} : todo'[b] = todo[b]
        /\ UNCHANGED <<enabled, dispatchers, toStart>>
    BY <1>2 DEF Call, TypeOK
  <2>2. Structure'
    BY <1>2, <2>1 DEF ServedInv, Restoring
  <2>3. ASSUME NEW m \in ManagerSet
        PROVE  Served(m)'
    <3>1. CASE Runs(m, enabled)
      BY <2>1, <3>1 DEF Runs
    <3>2. ASSUME NEW b \in Callers, WillStart(b, m)
          PROVE  WillStart(b, m)'
      <4>1. b # c
        BY <2>1, <3>2 DEF WillStart, EndsWith
      <4> QED BY <2>1, <3>2, <4>1, OthersWillStart
    <3> QED BY <3>1, <3>2 DEF ServedInv
  <2> QED BY <2>2, <2>3 DEF ServedInv
<1>3. ASSUME NEW c \in Callers, NEW s \in Sims, SimSwitch(c, s) \/ Update(c, s)
      PROVE  ServedInv'
  <2>1. Sims \in SUBSET Sims /\ {s} \in SUBSET Sims
    OBVIOUS
  <2> QED BY <1>2, <1>3, <2>1, ProgramsRestore DEF SimSwitch, Update
<1>4. ASSUME NEW c \in Callers, SystemRestart(c)
      PROVE  ServedInv'
  <2>1. Sims \in SUBSET Sims
    OBVIOUS
  <2> QED BY <1>2, <1>4, <2>1, ProgramsRestore DEF SystemRestart
<1>5. ASSUME NEW c \in Callers, SelectStep(c)
      PROVE  ServedInv'
  <2>1. /\ todo[c] # <<>> /\ Head(todo[c]).op = "select" /\ Advance(c)
        /\ UNCHANGED <<dispatchers, toStart>>
    BY <1>5 DEF SelectStep, Does
  <2>2. Structure'
    BY <1>1, <2>1 DEF ServedInv
  <2>3. ~OnlyForks(todo[c]) /\ ~NoSelect(todo[c])
    BY <2>1, TailOf DEF OnlyForks, NoSelect
  <2>4. Restores(todo[c], Sims)
    BY <2>3 DEF ServedInv, Restoring, Restores
  <2>5. EndsWith(todo'[c], Sims)
    BY <2>1, <2>4, RestoresTail DEF Restores
  <2>6. Head(todo[c]) \in Steps
    BY <2>1, TailOf
  <2>7. enabled' \in Sims /\ Sims \in SUBSET Sims
    BY <1>5, <2>1, <2>6 DEF SelectStep, Steps
  <2>8. \A m \in ManagerSet : WillStart(c, m)'
    BY <2>5, <2>7 DEF WillStart
  <2> QED BY <2>2, <2>8 DEF ServedInv
<1>6. ASSUME NEW c \in Callers, PsStep(c)
      PROVE  ServedInv'
  <2>1. /\ todo[c] # <<>> /\ Head(todo[c]).op = "ps" /\ Advance(c)
        /\ UNCHANGED <<enabled, dispatchers>>
    BY <1>6 DEF PsStep, Does
  <2>2. /\ \A b \in Callers \ {c} : toStart'[b] = toStart[b] /\ todo'[b] = todo[b]
        /\ toStart'[c] = IF enabled \in Head(todo[c]).sims
                         THEN Missing(enabled) ELSE {}
    BY <1>6, <2>1 DEF PsStep, Advance, TypeOK
  <2>3. \A f, g \in toStart'[c] : f.sim = g.sim
    BY <2>2 DEF Missing
  <2>4. Structure'
    BY <1>1, <2>1, <2>2, <2>3
  <2>5. ASSUME NEW m \in ManagerSet
        PROVE  Served(m)'
    <3>1. CASE Runs(m, enabled)
      BY <2>1, <3>1 DEF Runs
    <3>2. ASSUME NEW b \in Callers, b # c, WillStart(b, m)
          PROVE  WillStart(b, m)'
      BY <2>1, <2>2, <3>2, OthersWillStart
    <3>3. ASSUME ~Runs(m, enabled), WillStart(c, m)
          PROVE  WillStart(c, m)'
      <4>1. ~OnlyForks(todo[c])
        BY <2>1, TailOf DEF OnlyForks
      <4>2. PICK sims \in SUBSET Sims : EndsWith(todo[c], sims) /\ enabled \in sims
        BY <3>3, <4>1 DEF WillStart
      <4>3. CASE EndsWith(todo'[c], sims)
        BY <2>1, <4>2, <4>3 DEF WillStart
      <4>4. CASE Head(todo[c]).sims = sims /\ ForksAfter(todo'[c], 0)
        <5>1. [mgr |-> m, sim |-> enabled'] \in toStart'[c]
          BY <2>1, <2>2, <3>3, <4>2, <4>4 DEF Missing
        <5>2. OnlyForks(todo'[c]) /\ \E j \in 1..Len(todo'[c]) : todo'[c][j].mgr = m
          BY <4>4 DEF ForksAfter, OnlyForks
        <5> QED BY <5>1, <5>2 DEF WillStart
      <4> QED BY <2>1, <4>2, <4>3, <4>4, TailOf, EndsTail
    <3> QED BY <3>1, <3>2, <3>3 DEF ServedInv
  <2> QED BY <2>4, <2>5 DEF ServedInv
<1>7. ASSUME NEW c \in Callers, ForkStep(c)
      PROVE  ServedInv'
  <2> DEFINE new == {f \in toStart[c] : f.mgr = Head(todo[c]).mgr}
  <2>1. /\ todo[c] # <<>> /\ Head(todo[c]).op = "fork" /\ Advance(c)
        /\ enabled' = enabled /\ dispatchers \subseteq dispatchers'
        /\ toStart'[c] = toStart[c] \ new
        /\ \A b \in Callers \ {c} : toStart'[b] = toStart[b] /\ todo'[b] = todo[b]
    BY <1>7 DEF ForkStep, Does, Advance, TypeOK
  <2>2. /\ Head(todo[c]) = todo[c][1] /\ Len(todo[c]) \in Nat
        /\ Len(todo'[c]) = Len(todo[c]) - 1
        /\ \A j \in 1..Len(todo'[c]) :
             j + 1 \in 1..Len(todo[c]) /\ todo'[c][j] = todo[c][j+1]
    BY <2>1, TailOf
  <2>3. Structure'
    <3>1. \A f, g \in toStart'[c] : f.sim = g.sim
      BY <2>1 DEF ServedInv
    <3> QED BY <1>1, <2>1, <3>1
  <2>4. ASSUME NEW m \in ManagerSet
        PROVE  Served(m)'
    <3>1. CASE Runs(m, enabled)
      BY <2>1, <3>1 DEF Runs
    <3>2. ASSUME NEW b \in Callers, b # c, WillStart(b, m)
          PROVE  WillStart(b, m)'
      BY <2>1, <3>2, OthersWillStart
    <3>3. ASSUME NEW sims \in SUBSET Sims, EndsWith(todo[c], sims), enabled \in sims
          PROVE  WillStart(c, m)'
      <4>1. EndsWith(todo'[c], sims)
        BY <2>1, <3>3, TailOf, EndsTail
      <4> QED BY <2>1, <3>3, <4>1 DEF WillStart
    <3>4. ASSUME OnlyForks(todo[c]), [mgr |-> m, sim |-> enabled] \in toStart[c],
                 NEW j \in 1..Len(todo[c]), todo[c][j].mgr = m
          PROVE  Served(m)'
      <4>1. CASE Head(todo[c]).mgr = m
        <5>1. [mgr |-> m, sim |-> enabled] \in new
          BY <3>4, <4>1
        <5>2. PICK g \in new, p \in FreePids :
                dispatchers' = dispatchers \union
                                 {[pid |-> p, mgr |-> g.mgr, sim |-> g.sim]}
          BY <1>7, <5>1 DEF ForkStep
        <5>3. g.mgr = m /\ g.sim = enabled
          BY <3>4, <4>1 DEF ServedInv
        <5>4. [pid |-> p, mgr |-> m, sim |-> enabled] \in dispatchers'
          BY <5>2, <5>3
        <5> QED BY <2>1, <5>4 DEF Runs
      <4>2. CASE Head(todo[c]).mgr # m
        <5>1. j - 1 \in 1..Len(todo'[c]) /\ todo'[c][j - 1].mgr = m
          <6>1. j # 1 /\ j - 1 \in 1..Len(todo'[c]) /\ (j - 1) + 1 = j
            BY <2>2, <3>4, <4>2
          <6> QED BY <2>2, <3>4, <6>1
        <5>2. OnlyForks(todo'[c])
          BY <2>2, <3>4 DEF OnlyForks
        <5>3. [mgr |-> m, sim |-> enabled'] \in toStart'[c]
          BY <2>1, <3>4, <4>2
        <5> QED BY <5>1, <5>2, <5>3 DEF WillStart
      <4> QED BY <4>1, <4>2
    <3> QED BY <3>1, <3>2, <3>3, <3>4 DEF ServedInv, WillStart
  <2> QED BY <2>3, <2>4 DEF ServedInv
<1>8. ASSUME NEW c \in Callers, KillStep(c)
      PROVE  ServedInv'
  <2>1. /\ todo[c] # <<>> /\ Head(todo[c]).op = "kill" /\ Advance(c)
        /\ UNCHANGED <<enabled, toStart>>
    BY <1>8 DEF KillStep, Does
  <2>2. \A b \in Callers \ {c} : todo'[b] = todo[b]
    BY <2>1 DEF Advance, TypeOK
  <2>3. Structure'
    BY <1>1, <2>1 DEF ServedInv
  <2>4. ~OnlyForks(todo[c])
    BY <2>1, TailOf DEF OnlyForks
  <2>5. PICK sims \in SUBSET Sims : Restores(todo[c], sims)
    BY <2>4 DEF ServedInv, Restoring
  <2>6. Head(todo[c]).sims \subseteq sims
    BY <2>1, <2>5, TailOf DEF Restores
  <2>7. EndsWith(todo'[c], sims)
    BY <2>1, <2>5, RestoresTail DEF Restores
  <2>8. CASE enabled \in sims
    <3>1. \A m \in ManagerSet : WillStart(c, m)'
      BY <2>1, <2>7, <2>8 DEF WillStart
    <3> QED BY <2>3, <3>1 DEF ServedInv
  <2>9. CASE enabled \notin sims
    <3>1. ASSUME NEW m \in ManagerSet
          PROVE  Served(m)'
      <4>1. CASE Runs(m, enabled)
        BY <1>8, <2>1, <2>6, <2>9, <4>1 DEF KillStep, Matches, Runs
      <4>2. ASSUME NEW b \in Callers, b # c, WillStart(b, m)
            PROVE  WillStart(b, m)'
        BY <2>1, <2>2, <4>2, OthersWillStart
      <4>3. ASSUME WillStart(c, m)
            PROVE  WillStart(c, m)'
        <5>1. PICK both \in SUBSET Sims : EndsWith(todo[c], both) /\ enabled \in both
          BY <2>4, <4>3 DEF WillStart
        <5>2. EndsWith(todo'[c], both)
          BY <2>1, <5>1, TailOf, EndsTail
        <5> QED BY <2>1, <5>1, <5>2 DEF WillStart
      <4> QED BY <4>1, <4>2, <4>3 DEF ServedInv
    <3> QED BY <2>3, <3>1 DEF ServedInv
  <2> QED BY <2>8, <2>9
<1>9. ASSUME NEW c \in Callers, Reboot(c)
      PROVE  ServedInv'
  <2>1. /\ todo'[c] = Boot /\ \A b \in Callers \ {c} : todo'[b] = <<>>
        /\ \A b \in Callers : toStart'[b] = {}
        /\ enabled' \in Sims
    BY <1>9 DEF Reboot, Sims
  <2>2. \A b \in Callers \ {c} : OnlyForks(todo'[b])
    BY <2>1 DEF OnlyForks
  <2>3. Restores(todo'[c], Sims) /\ Sims \in SUBSET Sims
    BY <2>1, ProgramsRestore
  <2>4. Structure'
    BY <2>1, <2>2, <2>3 DEF Restoring
  <2>5. \A m \in ManagerSet : WillStart(c, m)'
    BY <2>1, <2>3 DEF WillStart, Restores
  <2> QED BY <2>4, <2>5 DEF ServedInv
<1>10. CASE UNCHANGED vars
  <2>1. UNCHANGED <<enabled, dispatchers, todo, toStart>>
    BY <1>10 DEF vars
  <2>2. \A m \in ManagerSet : Runs(m, enabled) => Runs(m, enabled)'
    BY <2>1 DEF Runs
  <2>3. \A c \in Callers, m \in ManagerSet : WillStart(c, m) => WillStart(c, m)'
    BY <2>1, OthersWillStart
  <2> QED BY <2>1, <2>2, <2>3 DEF ServedInv
<1> QED BY <1>3, <1>4, <1>5, <1>6, <1>7, <1>8, <1>9, <1>10 DEF Next

(* Whatever a stop of "CWAN1" or an update took away, and however many      *)
(* callers of the initializer overlap: once nobody is at work the enabled   *)
(* SIM has all its managers.                                                *)
THEOREM LifecycleServed == Spec => []SelectedServed
<1>1. Init => ServedInv
  <2> SUFFICES ASSUME Init PROVE ServedInv
    OBVIOUS
  <2>1. PICK c \in Callers :
          todo = [b \in Callers |-> IF b = c THEN Boot ELSE <<>>]
    BY DEF Init
  <2>2. \A b \in Callers \ {c} : OnlyForks(todo[b])
    BY <2>1 DEF OnlyForks
  <2>3. Restores(todo[c], Sims) /\ Sims \in SUBSET Sims /\ enabled \in Sims
    BY <2>1, ProgramsRestore DEF Init, Sims
  <2>4. \A m \in ManagerSet : WillStart(c, m)
    BY <2>3 DEF WillStart, Restores
  <2> QED BY <2>2, <2>3, <2>4 DEF Init, ServedInv, Restoring
<1>2. TypeOK /\ ServedInv /\ [Next]_vars => ServedInv'
  BY ServedStep
<1>3. TypeOK /\ ServedInv => SelectedServed
  BY ServedWhenIdle
<1> QED BY <1>1, <1>2, <1>3, LifecycleTypeCorrect, PTL DEF Spec
-----------------------------------------------------------------------------
(* However many callers overlap, a manager of a SIM has no more dispatchers *)
(* than there are callers: each caller forks it at most once after a ps     *)
(* that did not show it, and at that ps there was none.                     *)
Copies(m, s)  == {d \in dispatchers : d.mgr = m /\ d.sim = s}
Pending(m, s) == {c \in Callers : [mgr |-> m, sim |-> s] \in toStart[c]}

FewDispatchers ==
  \A m \in ManagerSet, s \in Sims : Cardinality(Copies(m, s)) <= Cardinality(Callers)

FewInv ==
  /\ IsFiniteSet(dispatchers)
  /\ \A m \in ManagerSet, s \in Sims :
       Cardinality(Copies(m, s)) + Cardinality(Pending(m, s)) <= Cardinality(Callers)

(* A step that adds no dispatcher, and nothing for a caller to start but    *)
(* what has no dispatcher, keeps to the bound.                              *)
LEMMA FewKept ==
  ASSUME IsFiniteSet(Callers), FewInv, dispatchers' \subseteq dispatchers,
         \A m \in ManagerSet, s \in Sims :
           ~Runs(m, s) \/ Pending(m, s)' \subseteq Pending(m, s)
  PROVE  FewInv'
<1>1. IsFiniteSet(dispatchers) /\ IsFiniteSet(dispatchers')
  BY FS_Subset DEF FewInv
<1>2. ASSUME NEW m \in ManagerSet, NEW s \in Sims
      PROVE  Cardinality(Copies(m, s)') + Cardinality(Pending(m, s)')
               <= Cardinality(Callers)
  <2>1. /\ Copies(m, s)' \subseteq Copies(m, s) /\ Copies(m, s) \subseteq dispatchers
        /\ Pending(m, s) \subseteq Callers /\ Pending(m, s)' \subseteq Callers
    BY DEF Copies, Pending
  <2>2. /\ IsFiniteSet(Copies(m, s)) /\ IsFiniteSet(Copies(m, s)')
        /\ IsFiniteSet(Pending(m, s)) /\ IsFiniteSet(Pending(m, s)')
    BY <1>1, <2>1, FS_Subset
  <2>3. /\ Cardinality(Copies(m, s)) \in Nat /\ Cardinality(Copies(m, s)') \in Nat
        /\ Cardinality(Pending(m, s)) \in Nat /\ Cardinality(Pending(m, s)') \in Nat
        /\ Cardinality(Callers) \in Nat
    BY <2>2, FS_CardinalityType
  <2>4. /\ Cardinality(Copies(m, s)') <= Cardinality(Copies(m, s))
        /\ Cardinality(Pending(m, s)') <= Cardinality(Callers)
    BY <2>1, <2>2, FS_Subset
  <2>5. CASE ~Runs(m, s)
    <3>1. Copies(m, s)' = {}
      BY <2>1, <2>5 DEF Copies, Runs
    <3>2. Cardinality(Copies(m, s)') = 0
      BY <3>1, FS_EmptySet
    <3> QED BY <2>3, <2>4, <3>2
  <2>6. CASE Pending(m, s)' \subseteq Pending(m, s)
    <3>1. Cardinality(Pending(m, s)') <= Cardinality(Pending(m, s))
      BY <2>2, <2>6, FS_Subset
    <3>2. Cardinality(Copies(m, s)) + Cardinality(Pending(m, s)) <= Cardinality(Callers)
      BY DEF FewInv
    <3> QED BY <2>3, <2>4, <3>1, <3>2
  <2> QED BY <2>5, <2>6
<1> QED BY <1>1, <1>2 DEF FewInv

(* A fork turns one that is to be started into one that runs.               *)
LEMMA FewForked ==
  ASSUME IsFiniteSet(Callers), TypeOK, FewInv, NEW c \in Callers, ForkStep(c)
  PROVE  FewInv'
<1> DEFINE new == {f \in toStart[c] : f.mgr = Head(todo[c]).mgr}
<1>1. /\ toStart'[c] = toStart[c] \ new
      /\ \A b \in Callers \ {c} : toStart'[b] = toStart[b]
      /\ toStart[c] \subseteq [mgr : ManagerSet, sim : Sims]
  BY DEF ForkStep, TypeOK
<1>2. CASE new = {}
  <2>1. dispatchers' = dispatchers /\ toStart'[c] = toStart[c]
    BY <1>1, <1>2 DEF ForkStep
  <2>2. \A m \in ManagerSet, s \in Sims : Pending(m, s)' \subseteq Pending(m, s)
    BY <1>1, <2>1 DEF Pending
  <2> QED BY <2>1, <2>2, FewKept
<1>3. CASE new # {}
  <2>1. PICK f \in new, p \in FreePids :
          dispatchers' = dispatchers \union
                           {[pid |-> p, mgr |-> f.mgr, sim |-> f.sim]}
    BY <1>3 DEF ForkStep
  <2> DEFINE d == [pid |-> p, mgr |-> f.mgr, sim |-> f.sim]
  <2>2. IsFiniteSet(dispatchers) /\ IsFiniteSet(dispatchers')
    BY <2>1, FS_AddElement DEF FewInv
  <2>3. f = [mgr |-> f.mgr, sim |-> f.sim]
    BY <1>1
  <2>4. ASSUME NEW m \in ManagerSet, NEW s \in Sims
        PROVE  Cardinality(Copies(m, s)') + Cardinality(Pending(m, s)')
                 <= Cardinality(Callers)
    <3>1. /\ Copies(m, s) \subseteq dispatchers /\ Pending(m, s) \subseteq Callers
          /\ Pending(m, s)' \subseteq Pending(m, s)
      BY <1>1 DEF Copies, Pending
    <3>2. IsFiniteSet(Copies(m, s)) /\ IsFiniteSet(Pending(m, s))
      BY <2>2, <3>1, FS_Subset
    <3>3. /\ Cardinality(Copies(m, s)) \in Nat /\ Cardinality(Pending(m, s)) \in Nat
          /\ Cardinality(Pending(m, s)') <= Cardinality(Pending(m, s))
          /\ Cardinality(Pending(m, s)') \in Nat
          /\ Cardinality(Callers) \in Nat
      BY <3>1, <3>2, FS_CardinalityType, FS_Subset
    <3>4. Cardinality(Copies(m, s)) + Cardinality(Pending(m, s)) <= Cardinality(Callers)
      BY DEF FewInv
    <3>5. CASE f.mgr = m /\ f.sim = s
      <4>1. c \in Pending(m, s) /\ Pending(m, s)' \subseteq Pending(m, s) \ {c}
        <5>1. [mgr |-> m, sim |-> s] \in new
          BY <2>3, <3>5
        <5> QED BY <1>1, <3>1, <5>1 DEF Pending
      <4>2. /\ IsFiniteSet(Pending(m, s) \ {c})
            /\ Cardinality(Pending(m, s) \ {c}) = Cardinality(Pending(m, s)) - 1
        BY <3>2, <4>1, FS_RemoveElement
      <4>3. Cardinality(Pending(m, s)') <= Cardinality(Pending(m, s)) - 1
        BY <4>1, <4>2, FS_Subset
      <4>4. Copies(m, s)' = Copies(m, s) \union {d}
        BY <2>1, <3>5 DEF Copies
      <4>5. \/ Cardinality(Copies(m, s)') = Cardinality(Copies(m, s)) + 1
            \/ Cardinality(Copies(m, s)') = Cardinality(Copies(m, s))
        BY <3>2, <4>4, FS_AddElement
      <4> QED BY <3>3, <3>4, <4>3, <4>5
    <3>6. CASE ~(f.mgr = m /\ f.sim = s)
      <4>1. Copies(m, s)' = Copies(m, s)
        BY <2>1, <3>6 DEF Copies
      <4> QED BY <3>3, <3>4, <4>1
    <3> QED BY <3>5, <3>6
  <2> QED BY <2>2, <2>4 DEF FewInv
<1> QED BY <1>2, <1>3

LEMMA FewStep ==
  ASSUME IsFiniteSet(Callers), TypeOK, FewInv, [Next]_vars
  PROVE  FewInv'
<1>1. ASSUME dispatchers' \subseteq dispatchers, toStart' = toStart
      PROVE  FewInv'
  <2>1. \A m \in ManagerSet, s \in Sims : Pending(m, s)' \subseteq Pending(m, s)
    BY <1>1 DEF Pending
  <2> QED BY <1>1, <2>1, FewKept
<1>2. ASSUME NEW c \in Callers, PsStep(c)
      PROVE  FewInv'
  <2>1. ASSUME NEW m \in ManagerSet, NEW s \in Sims, Runs(m, s)
        PROVE  Pending(m, s)' \subseteq Pending(m, s)
    <3>1. [mgr |-> m, sim |-> s] \notin Missing(enabled)
      BY <2>1 DEF Missing
    <3> QED BY <1>2, <3>1 DEF PsStep, Pending, TypeOK
  <2>2. dispatchers' \subseteq dispatchers
    BY <1>2 DEF PsStep
  <2> QED BY <2>1, <2>2, FewKept
<1>3. ASSUME NEW c \in Callers, KillStep(c)
      PROVE  FewInv'
  BY <1>1, <1>3 DEF KillStep
<1>4. ASSUME NEW c \in Callers, Reboot(c)
      PROVE  FewInv'
  <2>1. \A m \in ManagerSet, s \in Sims : Pending(m, s)' = {}
    BY <1>4 DEF Reboot, Pending
  <2>2. dispatchers' \subseteq dispatchers
    BY <1>4 DEF Reboot
  <2> QED BY <2>1, <2>2, FewKept
<1>5. CASE UNCHANGED vars
  BY <1>1, <1>5 DEF vars
<1> QED BY <1>1, <1>2, <1>3, <1>4, <1>5, FewForked
        DEF Next, SimSwitch, Update, SystemRestart, Call, SelectStep

(* The start takes no lock, and overlapping callers may start a manager     *)
(* twice; but a manager of a SIM never has more dispatchers than there are  *)
(* callers: copies do not pile up from one overlap to the next.             *)
THEOREM LifecycleFewDispatchers ==
  ASSUME IsFiniteSet(Callers)
  PROVE  Spec => []FewDispatchers
<1>1. Init => FewInv
  <2> SUFFICES ASSUME Init PROVE FewInv
    OBVIOUS
  <2>1. dispatchers = {} /\ IsFiniteSet(dispatchers)
    BY FS_EmptySet DEF Init
  <2>2. \A m \in ManagerSet, s \in Sims : Copies(m, s) = {} /\ Pending(m, s) = {}
    BY DEF Init, Copies, Pending
  <2>3. Cardinality(Callers) \in Nat
    BY FS_CardinalityType
  <2> QED BY <2>1, <2>2, <2>3, FS_EmptySet DEF FewInv
<1>2. TypeOK /\ FewInv /\ [Next]_vars => FewInv'
  BY FewStep
<1>3. FewInv => FewDispatchers
  <2> SUFFICES ASSUME FewInv, NEW m \in ManagerSet, NEW s \in Sims
               PROVE  Cardinality(Copies(m, s)) <= Cardinality(Callers)
    BY DEF FewDispatchers
  <2>1. Copies(m, s) \subseteq dispatchers /\ Pending(m, s) \subseteq Callers
    BY DEF Copies, Pending
  <2>2. IsFiniteSet(Copies(m, s)) /\ IsFiniteSet(Pending(m, s))
    BY <2>1, FS_Subset DEF FewInv
  <2>3. /\ Cardinality(Copies(m, s)) \in Nat /\ Cardinality(Pending(m, s)) \in Nat
        /\ Cardinality(Callers) \in Nat
    BY <2>2, FS_CardinalityType
  <2> QED BY <2>3 DEF FewInv
<1> QED BY <1>1, <1>2, <1>3, LifecycleTypeCorrect, PTL DEF Spec
-----------------------------------------------------------------------------
(* A restart: something before its three last stops; those stops, with a    *)
(* kill ahead for every dispatcher that still runs; or the start.           *)
Stops == Stop({1}) \o (Stop({2}) \o Stop(Sims))

BeforeStops(c) == \E x \in Seq(Steps) : x # <<>> /\ todo[c] = x \o (Stops \o Boot)

AllKills(x) == \A j \in 1..Len(x) : x[j].op = "kill"

KillAhead(x, d) == \E j \in 1..Len(x) : x[j].mgr = d.mgr /\ x[j].sims = {d.sim}

InStops(c) ==
  \E x \in Seq(Steps) :
    /\ todo[c] = x \o Boot
    /\ AllKills(x)
    /\ \A d \in dispatchers : KillAhead(x, d)

InStart(c) == Len(todo[c]) < Len(Boot)

RestartInv ==
  \A c \in Callers :
    kind[c] = "restart" => BeforeStops(c) \/ InStops(c) \/ InStart(c)

LEMMA TailOfConcat ==
  ASSUME NEW x \in Seq(Steps), x # <<>>, NEW y \in Seq(Steps)
  PROVE  /\ Tail(x) \in Seq(Steps)
         /\ Tail(x \o y) = Tail(x) \o y
         /\ Head(x \o y) = x[1]
         /\ 1 \in 1..Len(x)
         /\ Len(Tail(x)) = Len(x) - 1
         /\ \A j \in 1..Len(Tail(x)) : Tail(x)[j] = x[j+1]
<1>1. Len(x) \in Nat /\ Len(x) # 0 /\ Len(y) \in Nat
  BY EmptySeq
<1>2. /\ Tail(x) \in Seq(Steps) /\ Len(Tail(x)) = Len(x) - 1
      /\ \A j \in 1..Len(Tail(x)) : Tail(x)[j] = x[j+1]
  BY HeadTailProperties
<1>3. /\ x \o y \in Seq(Steps) /\ Len(x \o y) = Len(x) + Len(y)
      /\ \A i \in 1..(Len(x) + Len(y)) :
           (x \o y)[i] = IF i <= Len(x) THEN x[i] ELSE y[i - Len(x)]
  BY ConcatProperties
<1>4. x \o y # <<>>
  BY <1>1, <1>3, EmptySeq
<1>5. /\ Tail(x \o y) \in Seq(Steps) /\ Len(Tail(x \o y)) = Len(x) + Len(y) - 1
      /\ \A j \in 1..(Len(x) + Len(y) - 1) : Tail(x \o y)[j] = (x \o y)[j+1]
      /\ Head(x \o y) = (x \o y)[1]
  BY <1>3, <1>4, HeadTailProperties
<1>6. /\ Tail(x) \o y \in Seq(Steps)
      /\ Len(Tail(x) \o y) = Len(x) - 1 + Len(y)
      /\ \A i \in 1..(Len(x) - 1 + Len(y)) :
           (Tail(x) \o y)[i] = IF i <= Len(x) - 1 THEN Tail(x)[i]
                               ELSE y[i - (Len(x) - 1)]
  BY <1>2, ConcatProperties
<1>7. ASSUME NEW j \in 1..(Len(x) + Len(y) - 1)
      PROVE  Tail(x \o y)[j] = (Tail(x) \o y)[j]
  <2>1. j + 1 \in 1..(Len(x) + Len(y)) /\ j \in 1..(Len(x) - 1 + Len(y))
    BY <1>1
  <2>2. CASE j <= Len(x) - 1
    <3>1. j + 1 <= Len(x) /\ j \in 1..Len(Tail(x))
      BY <1>1, <1>2, <2>2
    <3> QED BY <1>2, <1>3, <1>5, <1>6, <2>1, <2>2, <3>1
  <2>3. CASE ~(j <= Len(x) - 1)
    <3>1. ~(j + 1 <= Len(x)) /\ (j + 1) - Len(x) = j - (Len(x) - 1)
      BY <1>1, <2>3
    <3> QED BY <1>3, <1>5, <1>6, <2>1, <2>3, <3>1
  <2> QED BY <2>2, <2>3
<1>8. Tail(x \o y) = Tail(x) \o y
  BY <1>1, <1>5, <1>6, <1>7, SeqEqual
<1>9. Head(x \o y) = x[1] /\ 1 \in 1..Len(x)
  BY <1>1, <1>3, <1>5
<1> QED BY <1>2, <1>8, <1>9

(* Kills ahead stay ahead in a longer program.                              *)
LEMMA KillsConcat ==
  ASSUME NEW x \in Seq(Steps), NEW y \in Seq(Steps)
  PROVE  /\ x \o y \in Seq(Steps)
         /\ AllKills(x) /\ AllKills(y) => AllKills(x \o y)
         /\ \A d : KillAhead(x, d) \/ KillAhead(y, d) => KillAhead(x \o y, d)
<1> DEFINE z == x \o y
<1>1. /\ z \in Seq(Steps) /\ Len(z) = Len(x) + Len(y)
      /\ Len(x) \in Nat /\ Len(y) \in Nat
      /\ \A i \in 1..(Len(x) + Len(y)) :
           z[i] = IF i <= Len(x) THEN x[i] ELSE y[i - Len(x)]
  BY ConcatProperties
<1> HIDE DEF z
<1>2. \A i \in 1..Len(x) : i \in 1..Len(z) /\ z[i] = x[i]
  BY <1>1
<1>3. ASSUME NEW i \in 1..Len(y)
      PROVE  Len(x) + i \in 1..Len(z) /\ z[Len(x) + i] = y[i]
  <2>1. /\ Len(x) + i \in 1..(Len(x) + Len(y)) /\ ~(Len(x) + i <= Len(x))
        /\ (Len(x) + i) - Len(x) = i
    BY <1>1
  <2> QED BY <1>1, <2>1
<1>4. ASSUME AllKills(x), AllKills(y), NEW j \in 1..Len(z)
      PROVE  z[j].op = "kill"
  <2>1. CASE j \in 1..Len(x)
    BY <1>2, <1>4, <2>1 DEF AllKills
  <2>2. CASE j \notin 1..Len(x)
    <3>1. j - Len(x) \in 1..Len(y) /\ Len(x) + (j - Len(x)) = j
      BY <1>1, <2>2
    <3>2. z[j] = y[j - Len(x)]
      BY <1>3, <3>1
    <3> QED BY <1>4, <3>1, <3>2 DEF AllKills
  <2> QED BY <2>1, <2>2
<1>5. ASSUME NEW d, KillAhead(x, d) \/ KillAhead(y, d)
      PROVE  KillAhead(z, d)
  BY <1>2, <1>3, <1>5 DEF KillAhead
<1> QED BY <1>1, <1>4, <1>5 DEF AllKills, z

(* The three last stops have a kill for every dispatcher there may be.      *)
LEMMA StopsKill ==
  /\ Stops \in Seq(Steps)
  /\ AllKills(Stops)
  /\ \A d \in Dispatcher : KillAhead(Stops, d)
<1>1. /\ {1} \in SUBSET Sims /\ {2} \in SUBSET Sims /\ Sims \in SUBSET Sims
  BY DEF Sims
<1>2. ASSUME NEW sims \in SUBSET Sims
      PROVE  /\ Stop(sims) \in Seq(Steps) /\ AllKills(Stop(sims))
             /\ \A d \in Dispatcher : sims = {d.sim} => KillAhead(Stop(sims), d)
  <2>1. ASSUME NEW d \in Dispatcher, sims = {d.sim}
        PROVE  KillAhead(Stop(sims), d)
    <3>1. PICK i \in 1..Len(Managers) : d.mgr = Managers[i]
      BY DEF Dispatcher, ManagerSet
    <3> QED BY <2>1, <3>1, StopKills DEF KillAhead
  <2>2. AllKills(Stop(sims))
    BY StopKills DEF AllKills
  <2> QED BY <2>1, <2>2, StopSteps
<1>3. \A d \in Dispatcher : {1} = {d.sim} \/ {2} = {d.sim}
  BY DEF Dispatcher, Sims
<1>4. /\ Stop({2}) \o Stop(Sims) \in Seq(Steps)
      /\ AllKills(Stop({2}) \o Stop(Sims))
      /\ \A d \in Dispatcher :
           {2} = {d.sim} => KillAhead(Stop({2}) \o Stop(Sims), d)
  BY <1>1, <1>2, KillsConcat
<1>5. Stops = Stop({1}) \o (Stop({2}) \o Stop(Sims))
  BY DEF Stops
<1>6. /\ Stops \in Seq(Steps) /\ AllKills(Stops)
      /\ \A d : \/ KillAhead(Stop({1}), d)
               \/ KillAhead(Stop({2}) \o Stop(Sims), d)
               => KillAhead(Stops, d)
  BY <1>1, <1>2, <1>4, <1>5, KillsConcat
<1>7. \A d \in Dispatcher : {1} = {d.sim} => KillAhead(Stop({1}), d)
  BY <1>1, <1>2
<1> QED BY <1>3, <1>4, <1>6, <1>7

LEMMA StepsAssoc ==
  ASSUME NEW x \in Seq(Steps), NEW y \in Seq(Steps), NEW z \in Seq(Steps)
  PROVE  (x \o y) \o z = x \o (y \o z)
BY ConcatAssociative

LEMMA RestartBegins ==
  \E x \in Seq(Steps) : x # <<>> /\ RestartSteps = x \o (Stops \o Boot)
<1> DEFINE a  == Stop({1})
           b  == Stop({2})
           c  == Stop(Sims)
           x  == Select(1) \o UpdateSteps(1)
           xa == x \o a
           bc == b \o c
<1>1. 1 \in Sims /\ {1} \in SUBSET Sims /\ {2} \in SUBSET Sims
      /\ Sims \in SUBSET Sims
  BY DEF Sims
<1>2. x \in Seq(Steps) /\ x # <<>>
  BY <1>1, SelectSteps, Programs, ConcatSteps
<1>3. /\ a \in Seq(Steps) /\ b \in Seq(Steps) /\ c \in Seq(Steps)
      /\ Boot \in Seq(Steps) /\ Stops \in Seq(Steps)
  BY <1>1, StopSteps, StopsKill, Programs
<1>4. RestartSteps = ((xa \o b) \o c) \o Boot /\ Stops = a \o bc
  BY DEF RestartSteps, Stops
<1> HIDE DEF a, b, c, x
<1>5. xa \in Seq(Steps) /\ bc \in Seq(Steps)
  BY <1>2, <1>3, ConcatSteps
<1>6. xa \o bc = x \o Stops
  <2> HIDE DEF bc
  <2>1. (x \o a) \o bc = x \o (a \o bc)
    BY <1>2, <1>3, <1>5, StepsAssoc
  <2> QED BY <1>4, <2>1
<1>7. (xa \o b) \o c = xa \o bc
  <2> HIDE DEF xa
  <2> QED BY <1>3, <1>5, StepsAssoc
<1>8. (x \o Stops) \o Boot = x \o (Stops \o Boot)
  BY <1>2, <1>3, StepsAssoc
<1> HIDE DEF xa, bc
<1> QED BY <1>2, <1>4, <1>6, <1>7, <1>8

LEMMA RestartStep ==
  ASSUME \A b, c \in Callers : b = c,
         TypeOK, OneDispatcher, RestartInv, [Next]_vars, TypeOK'
  PROVE  RestartInv'
<1>1. Boot \in Seq(Steps) /\ Boot # <<>> /\ Len(Boot) \in Nat
  BY Programs
<1>2. Stops \in Seq(Steps) /\ Stops \o Boot \in Seq(Steps)
  BY <1>1, StopsKill, ConcatSteps
<1>3. ASSUME NEW c \in Callers, NEW s \in Sims,
             SimSwitch(c, s) \/ Update(c, s) \/ Reboot(c)
      PROVE  kind'[c] # "restart"
  BY <1>3 DEF SimSwitch, Update, Reboot, Call, TypeOK
<1>4. ASSUME NEW c \in Callers, SystemRestart(c)
      PROVE  BeforeStops(c)'
  <2>1. todo'[c] = RestartSteps
    BY <1>4 DEF SystemRestart, Call, TypeOK
  <2> QED BY <2>1, RestartBegins DEF BeforeStops
<1>5. ASSUME NEW c \in Callers, Advance(c), todo[c] # <<>>, BeforeStops(c)
      PROVE  BeforeStops(c)' \/ InStops(c)'
  <2>1. PICK x \in Seq(Steps) : x # <<>> /\ todo[c] = x \o (Stops \o Boot)
    BY <1>5 DEF BeforeStops
  <2> DEFINE y == Stops \o Boot
  <2>2. todo'[c] = Tail(todo[c]) /\ y \in Seq(Steps)
    BY <1>2, <1>5, TailOf
  <2> HIDE DEF y
  <2>3. Tail(x) \in Seq(Steps) /\ Tail(x \o y) = Tail(x) \o y
    BY <2>1, <2>2, TailOfConcat
  <2>4. Tail(x) \in Seq(Steps) /\ todo'[c] = Tail(x) \o (Stops \o Boot)
    BY <2>1, <2>2, <2>3 DEF y
  <2>5. CASE Tail(x) # <<>>
    BY <2>4, <2>5 DEF BeforeStops
  <2>6. CASE Tail(x) = <<>>
    <3>1. todo'[c] = Stops \o Boot
      BY <1>2, <2>4, <2>6, ConcatEmptySeq
    <3>2. dispatchers' \subseteq Dispatcher
      BY DEF TypeOK
    <3> QED BY <1>2, <3>1, <3>2, StopsKill DEF InStops
  <2> QED BY <2>5, <2>6
<1>6. ASSUME NEW c \in Callers, Advance(c), todo[c] # <<>>, InStops(c),
             Head(todo[c]).op = "kill" => KillStep(c)
      PROVE  InStops(c)' \/ InStart(c)'
  <2>1. PICK x \in Seq(Steps) :
          /\ todo[c] = x \o Boot
          /\ AllKills(x)
          /\ \A d \in dispatchers : KillAhead(x, d)
    BY <1>6 DEF InStops
  <2>2. CASE x = <<>>
    <3>1. todo[c] = Boot
      BY <1>1, <2>1, <2>2, ConcatEmptySeq
    <3>2. Len(todo'[c]) = Len(Boot) - 1
      BY <1>6, <3>1, TailOf
    <3> QED BY <1>1, <3>2 DEF InStart
  <2>3. CASE x # <<>>
    <3>1. /\ Tail(x) \in Seq(Steps) /\ todo'[c] = Tail(x) \o Boot
          /\ Head(todo[c]) = x[1] /\ 1 \in 1..Len(x) /\ Len(x) \in Nat
          /\ Len(Tail(x)) = Len(x) - 1
          /\ \A j \in 1..Len(Tail(x)) : Tail(x)[j] = x[j+1]
      <4>1. todo'[c] = Tail(x \o Boot) /\ Head(todo[c]) = Head(x \o Boot)
        BY <1>6, <2>1, TailOf
      <4> QED BY <1>1, <2>3, <4>1, TailOfConcat
    <3>2. AllKills(Tail(x))
      BY <2>1, <3>1 DEF AllKills
    <3>3. KillStep(c)
      BY <1>6, <2>1, <3>1 DEF AllKills
    <3>4. ASSUME NEW d \in dispatchers'
          PROVE  KillAhead(Tail(x), d)
      <4> DEFINE found == Matches(x[1].mgr, x[1].sims)
      <4>1. dispatchers' = dispatchers \ {e \in found : IsFirst(e, found)}
        BY <3>1, <3>3 DEF KillStep
      <4>2. d \in dispatchers /\ d.pid \in Nat
        BY <4>1, PidsAssumption DEF TypeOK, Dispatcher
      <4>3. PICK j \in 1..Len(x) : x[j].mgr = d.mgr /\ x[j].sims = {d.sim}
        BY <2>1, <4>2 DEF KillAhead
      <4>4. j # 1
        <5>1. SUFFICES ASSUME j = 1 PROVE FALSE
          OBVIOUS
        <5>2. \A e \in found : e = d
          BY <4>2, <4>3, <5>1 DEF Matches, OneDispatcher
        <5>3. d \in found
          BY <4>2, <4>3, <5>1 DEF Matches
        <5>4. IsFirst(d, found)
          BY <4>2, <5>2, <5>3 DEF IsFirst
        <5> QED BY <4>1, <5>3, <5>4
      <4>5. j - 1 \in 1..Len(Tail(x)) /\ (j - 1) + 1 = j
        BY <3>1, <4>4
      <4>6. Tail(x)[j - 1] = x[j]
        BY <3>1, <4>5
      <4> QED BY <4>3, <4>5, <4>6 DEF KillAhead
    <3> QED BY <3>1, <3>2, <3>4 DEF InStops
  <2> QED BY <2>2, <2>3
<1>7. ASSUME NEW c \in Callers, Advance(c), todo[c] # <<>>, InStart(c)
      PROVE  InStart(c)'
  BY <1>1, <1>7, TailOf DEF InStart
<1>8. ASSUME NEW c \in Callers,
             SelectStep(c) \/ PsStep(c) \/ ForkStep(c) \/ KillStep(c),
             kind'[c] = "restart"
      PROVE  (BeforeStops(c) \/ InStops(c) \/ InStart(c))'
  <2>1. Advance(c) /\ todo[c] # <<>> /\ (Head(todo[c]).op = "kill" => KillStep(c))
    BY <1>8 DEF SelectStep, PsStep, ForkStep, KillStep, Does
  <2>2. kind[c] = "restart"
    BY <1>8, <2>1 DEF Advance, TypeOK
  <2> QED BY <1>5, <1>6, <1>7, <2>1, <2>2 DEF RestartInv
<1>9. CASE UNCHANGED vars
  BY <1>9 DEF vars, RestartInv, BeforeStops, InStops, InStart
<1>10. CASE Next
  <2>1. PICK c \in Callers :
          \/ \E s \in Sims : SimSwitch(c, s) \/ Update(c, s)
          \/ SystemRestart(c)
          \/ SelectStep(c) \/ PsStep(c) \/ ForkStep(c) \/ KillStep(c)
          \/ Reboot(c)
    BY <1>10 DEF Next
  <2>2. 1 \in Sims
    BY DEF Sims
  <2>3. kind'[c] = "restart" => (BeforeStops(c) \/ InStops(c) \/ InStart(c))'
    BY <1>3, <1>4, <1>8, <2>1, <2>2
  <2> QED BY <2>3 DEF RestartInv
<1> QED BY <1>9, <1>10

(* Before SystemRestart.sh starts the managers of the new configuration it  *)
(* has stopped all those of the old, if callers take turns.                 *)
THEOREM LifecycleRestartClean ==
  ASSUME \A b, c \in Callers : b = c
  PROVE  Spec => []RestartClean
<1>1. Init => RestartInv
  BY DEF Init, RestartInv
<1>2. TypeOK /\ OneDispatcher /\ RestartInv /\ [Next]_vars /\ TypeOK' => RestartInv'
  BY RestartStep
<1>3. TypeOK /\ RestartInv => RestartClean
  <2> SUFFICES ASSUME TypeOK, RestartInv, NEW c \in Callers,
                      kind[c] = "restart", todo[c] = Boot
               PROVE  dispatchers = {}
    BY DEF RestartClean
  <2>1. Boot \in Seq(Steps) /\ Len(Boot) \in Nat
    BY Programs
  <2>2. ~InStart(c)
    BY <2>1 DEF InStart
  <2>3. ~BeforeStops(c)
    <3>1. SUFFICES ASSUME NEW x \in Seq(Steps), x # <<>>, Boot = x \o (Stops \o Boot)
                   PROVE  FALSE
      BY DEF BeforeStops
    <3>2. x \o Stops \in Seq(Steps) /\ x \o Stops # <<>>
      BY <3>1, StopsKill, ConcatSteps
    <3>3. Boot = (x \o Stops) \o Boot
      BY <2>1, <3>1, StopsKill, StepsAssoc
    <3> QED BY <2>1, <3>2, <3>3, ConcatEqualIffEmpty
  <2>4. InStops(c)
    BY <2>2, <2>3 DEF RestartInv
  <2>5. PICK x \in Seq(Steps) :
          Boot = x \o Boot /\ \A d \in dispatchers : KillAhead(x, d)
    BY <2>4 DEF InStops
  <2>6. x = <<>>
    BY <2>1, <2>5, ConcatEqualIffEmpty
  <2> QED BY <2>5, <2>6 DEF KillAhead
<1> QED BY <1>1, <1>2, <1>3, LifecycleTypeCorrect, LifecycleOneDispatcher,
           PTL DEF Spec
=============================================================================
