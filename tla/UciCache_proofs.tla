--------------------------- MODULE UciCache_proofs ---------------------------
(***************************************************************************)
(* Proofs about the configuration cache, for every set of names, options   *)
(* and values and every bound.                                             *)
(***************************************************************************)
EXTENDS UciCache, TLAPS

(* What the constants of a cache with nothing in it are.                    *)
LEMMA Empties ==
  /\ Blank \in Content
  /\ NoConfig \in Config
  /\ NoCreates \in [Sid -> Content \cup {NoSection}]
  /\ NoChanges \in [Name -> Content]
  /\ NoDeletes \in [Name -> SUBSET Opt]
  /\ NoNames \in [Sid -> Name \cup {NoName}]
  /\ NoReq \in [adds : [Sid -> Content \cup {NoSection}],
                sets : [Name -> Content], dsec : SUBSET Name,
                dopt : [Name -> SUBSET Opt], shown : Config]
  /\ Nothing \in [add : SUBSET Sid, set : SUBSET Name, del : SUBSET Name]
<1>1. Blank \in Content
  BY DEF Blank, Content
<1> QED
  BY <1>1 DEF NoConfig, Config, NoCreates, NoChanges, NoDeletes, NoNames,
     NoReq, Nothing

(* Contents written over or cut out are contents.                           *)
LEMMA Contents ==
  ASSUME NEW c \in Content
  PROVE  /\ \A d \in Content : Merge(c, d) \in Content
         /\ \A os : Without(c, os) \in Content
         /\ \A o \in Opt, v \in Val \cup {None} : [c EXCEPT ![o] = v] \in Content
BY DEF Content, Merge, Without

LEMMA Counting ==
  ASSUME TypeOK, NEW k \in {"edits", "saves", "loads", "foreign", "faults"},
         Count(k)
  PROVE  used' \in [{"edits", "saves", "loads", "foreign", "faults"} -> Nat]
BY DEF TypeOK, Count

(* The section the page shows is a content, or not there.                   *)
LEMMA UnderType ==
  ASSUME TypeOK, NEW n \in Name
  PROVE  Under(n) \in Content \cup {NoSection}
<1>1. ASSUME NEW o \in Opt, Kept(n) PROVE GetBase(n, o) \in Val \cup {None}
  BY <1>1 DEF GetBase, Kept, TypeOK, Config, Content
<1> QED BY <1>1 DEF Under, Content

-----------------------------------------------------------------------------
(* Where a save is: calls of a batch are left only while it is under way,   *)
(* and the package is being fetched for it exactly in its last phase.       *)
SaveOrder ==
  /\ phase # "flush" => todo = Nothing
  /\ (phase = "reload") <=> (call["save"] # "none")
  /\ \A s \in todo.add : req.adds[s] # NoSection

(* Type correctness.                                                        *)
LEMMA TypeStep == TypeOK /\ SaveOrder /\ [Next]_vars => TypeOK'
<1> SUFFICES ASSUME TypeOK, SaveOrder, [Next]_vars PROVE TypeOK'
  OBVIOUS
<1> USE Empties
<1>1. ASSUME NEW s \in Typed \cup Temp, Add(s) PROVE TypeOK'
  <2>1. s \in Sid
    BY DEF Sid, Name
  <2>2. touched' \in SUBSET (Sid \X Opt)
    BY <1>1, <2>1 DEF Add, Edit, TypeOK
  <2> QED BY <1>1, <2>1, <2>2, Counting
           DEF Add, Edit, TypeOK, saveVars, callVars
<1>2. ASSUME NEW s \in Sid, Remove(s) PROVE TypeOK'
  <2>1. touched' \in SUBSET (Sid \X Opt)
    BY <1>2 DEF Remove, Edit, TypeOK
  <2>2. CASE creates[s] # NoSection
    BY <1>2, <2>1, <2>2, Counting DEF Remove, Edit, TypeOK, saveVars, callVars
  <2>3. CASE creates[s] = NoSection
    <3>1. s \in Name
      BY <1>2, <2>3 DEF Remove, Listed
    <3>2. /\ chg' \in [Name -> Content]
          /\ delSec' \in SUBSET Name
          /\ delOpt' \in [Name -> SUBSET Opt]
      BY <1>2, <2>3, <3>1 DEF Remove, TypeOK
    <3> QED BY <1>2, <2>1, <2>3, <3>2, Counting
             DEF Remove, Edit, TypeOK, saveVars, callVars
  <2> QED BY <2>2, <2>3
<1>3. ASSUME NEW s \in Sid, NEW o \in Opt, NEW v \in Val, Set(s, o, v)
      PROVE  TypeOK'
  <2>1. touched' \in SUBSET (Sid \X Opt)
    BY <1>3 DEF Set, Edit, TypeOK
  <2>2. CASE creates[s] # NoSection
    <3>1. [creates[s] EXCEPT ![o] = v] \in Content
      BY <2>2, Contents DEF TypeOK
    <3> QED BY <1>3, <2>1, <2>2, <3>1, Counting
             DEF Set, Edit, TypeOK, saveVars, callVars
  <2>3. CASE creates[s] = NoSection
    <3>1. s \in Name
      BY <1>3, <2>3 DEF Set
    <3>2. [chg[s] EXCEPT ![o] = v] \in Content
      BY <3>1, Contents DEF TypeOK
    <3>3. /\ chg' = [chg EXCEPT ![s] = [chg[s] EXCEPT ![o] = v]]
          /\ delOpt' = [delOpt EXCEPT ![s] = delOpt[s] \ {o}]
          /\ UNCHANGED <<creates, delSec>>
      BY <1>3, <2>3 DEF Set
    <3>4. /\ chg' \in [Name -> Content]
          /\ delOpt' \in [Name -> SUBSET Opt]
          /\ UNCHANGED <<creates, delSec>>
      <4>1. chg \in [Name -> Content] /\ delOpt \in [Name -> SUBSET Opt]
        BY DEF TypeOK
      <4> QED BY <3>1, <3>2, <3>3, <4>1
    <3>5. used' \in [{"edits", "saves", "loads", "foreign", "faults"} -> Nat]
      BY <1>3, Counting DEF Set, Edit
    <3> QED BY <1>3, <2>1, <3>4, <3>5
             DEF Set, Edit, TypeOK, saveVars, callVars
  <2> QED BY <2>2, <2>3
<1>4. ASSUME NEW s \in Sid, NEW o \in Opt, Unset(s, o) PROVE TypeOK'
  <2>1. touched' \in SUBSET (Sid \X Opt)
    BY <1>4 DEF Unset, Edit, TypeOK
  <2>2. CASE creates[s] # NoSection
    <3>1. [creates[s] EXCEPT ![o] = None] \in Content
      BY <2>2, Contents DEF TypeOK
    <3> QED BY <1>4, <2>1, <2>2, <3>1, Counting
             DEF Unset, Edit, TypeOK, saveVars, callVars
  <2>3. CASE creates[s] = NoSection
    BY <1>4, <2>1, <2>3, Counting DEF Unset, Edit, TypeOK, saveVars, callVars
  <2> QED BY <2>2, <2>3
<1>5. CASE Reset
  <2>1. used' \in [{"edits", "saves", "loads", "foreign", "faults"} -> Nat]
    BY <1>5, Counting DEF Reset
  <2>2. call' \in [Caller -> {"none", "sent", "got"}] /\ drift' \in BOOLEAN
        /\ epoch' \in Nat
    BY <1>5 DEF Reset, Late, TypeOK, Caller
  <2> QED BY <1>5, <2>1, <2>2 DEF Reset, Unload, TypeOK, saveVars
<1>6. CASE TimerLoad
  BY <1>6, Counting DEF TimerLoad, TypeOK, cacheVars, saveVars, Caller
<1>7. CASE Save
  <2>1. [n \in Name |-> Under(n)] \in Config
    BY UnderType DEF Config
  <2>2. {s \in Sid : creates[s] # NoSection} \in SUBSET Sid
    OBVIOUS
  <2>3. delSec \cup {n \in Name : delOpt[n] # {}} \in SUBSET Name
    BY DEF TypeOK
  <2>4. /\ req' \in [adds : [Sid -> Content \cup {NoSection}],
                sets : [Name -> Content], dsec : SUBSET Name,
                dopt : [Name -> SUBSET Opt], shown : Config]
        /\ todo' \in [add : SUBSET Sid, set : SUBSET Name, del : SUBSET Name]
        /\ phase' = "flush"
        /\ newName' = NoNames
        /\ clean' \in BOOLEAN
    BY <1>7, <2>1, <2>2, <2>3 DEF Save, TypeOK
  <2>5. used' \in [{"edits", "saves", "loads", "foreign", "faults"} -> Nat]
    BY <1>7, Counting DEF Save
  <2> QED BY <1>7, <2>4, <2>5 DEF Save, TypeOK, cacheVars, callVars
<1>8. ASSUME NEW p \in Caller, LoadExec(p) PROVE TypeOK'
  BY <1>8 DEF LoadExec, TypeOK, cacheVars, saveVars
<1>9. ASSUME NEW p \in Caller, LoadRefused(p) PROVE TypeOK'
  BY <1>9, Counting DEF LoadRefused, TypeOK, cacheVars, saveVars
<1>10. ASSUME NEW p \in Caller, LoadDone(p) PROVE TypeOK'
  <2>1. call' \in [Caller -> {"none", "sent", "got"}]
        /\ got' \in [Caller -> Config] /\ values' \in Config /\ epoch' \in Nat
    BY <1>10 DEF LoadDone, AfterLoad, TypeOK
  <2> QED BY <1>10, <2>1 DEF LoadDone, AfterLoad, TypeOK
<1>11. ASSUME NEW p \in Caller, LoadLost(p) PROVE TypeOK'
  <2>1. call' \in [Caller -> {"none", "sent", "got"}]
        /\ got' \in [Caller -> Config]
    BY <1>11 DEF LoadLost, AfterLoad, TypeOK
  <2>2. used' \in [{"edits", "saves", "loads", "foreign", "faults"} -> Nat]
    BY <1>11, Counting DEF LoadLost
  <2> QED BY <1>11, <2>1, <2>2 DEF LoadLost, AfterLoad, TypeOK
<1>12. ASSUME NEW s \in Sid, ExecAdd(s) PROVE TypeOK'
  <2>1. PICK n \in Name :
          /\ srv' = [srv EXCEPT ![n] =
                        IF srv[n] = NoSection THEN req.adds[s]
                        ELSE Merge(srv[n], req.adds[s])]
          /\ newName' = [newName EXCEPT ![s] = n]
    BY <1>12 DEF ExecAdd
  <2>2. todo' \in [add : SUBSET Sid, set : SUBSET Name, del : SUBSET Name]
    BY <1>12 DEF ExecAdd, TypeOK
  <2>3. newName' \in [Sid -> Name \cup {NoName}]
    BY <2>1 DEF TypeOK
  <2>4. req.adds[s] \in Content
    BY <1>12 DEF ExecAdd, SaveOrder, TypeOK
  <2>5. srv[n] # NoSection => Merge(srv[n], req.adds[s]) \in Content
    BY <2>4, Contents DEF TypeOK, Config
  <2>6. srv' \in Config
    BY <2>1, <2>4, <2>5 DEF TypeOK, Config
  <2> QED BY <1>12, <2>2, <2>3, <2>6 DEF ExecAdd, TypeOK, cacheVars, callVars
<1>13. ASSUME NEW n \in Name, ExecSet(n) PROVE TypeOK'
  <2>1. srv[n] # NoSection => Merge(srv[n], req.sets[n]) \in Content
    BY Contents DEF TypeOK, Config
  <2>2. srv' \in Config
    BY <1>13, <2>1 DEF ExecSet, TypeOK, Config
  <2> QED BY <1>13, <2>2 DEF ExecSet, TypeOK, cacheVars, callVars
<1>14. ASSUME NEW n \in Name, ExecDel(n) PROVE TypeOK'
  <2>1. srv[n] # NoSection => Without(srv[n], req.dopt[n]) \in Content
    BY Contents DEF TypeOK, Config
  <2>2. srv' \in Config
    BY <1>14, <2>1 DEF ExecDel, TypeOK, Config
  <2> QED BY <1>14, <2>2 DEF ExecDel, TypeOK, cacheVars, callVars
<1>15. CASE Refuse
  <2>1. todo' \in [add : SUBSET Sid, set : SUBSET Name, del : SUBSET Name]
    BY <1>15 DEF Refuse, TypeOK
  <2>2. used' \in [{"edits", "saves", "loads", "foreign", "faults"} -> Nat]
    BY <1>15, Counting DEF Refuse
  <2> QED BY <1>15, <2>1, <2>2 DEF Refuse, TypeOK, cacheVars, callVars
<1>16. CASE FlushEnd
  <2>1. used' \in [{"edits", "saves", "loads", "foreign", "faults"} -> Nat]
        /\ clean' \in BOOLEAN
    BY <1>16, Counting DEF FlushEnd, TypeOK
  <2>2. call' \in [Caller -> {"none", "sent", "got"}] /\ drift' \in BOOLEAN
        /\ epoch' \in Nat
    BY <1>16 DEF FlushEnd, Late, TypeOK, Caller
  <2> QED BY <1>16, <2>1, <2>2 DEF FlushEnd, Unload, TypeOK
<1>17. ASSUME NEW n \in Name, Foreign(n) PROVE TypeOK'
  <2>1. srv' \in Config
    BY <1>17 DEF Foreign, TypeOK, Config
  <2> QED BY <1>17, <2>1, Counting DEF Foreign, TypeOK, cacheVars, callVars
<1>18. CASE UNCHANGED vars
  BY <1>18 DEF TypeOK, vars, cacheVars, saveVars, callVars
<1> QED
  BY <1>1, <1>2, <1>3, <1>4, <1>5, <1>6, <1>7, <1>8, <1>9, <1>10, <1>11,
     <1>12, <1>13, <1>14, <1>15, <1>16, <1>17, <1>18 DEF Next, Exec

LEMMA OrderStep == TypeOK /\ SaveOrder /\ [Next]_vars => SaveOrder'
<1> SUFFICES ASSUME TypeOK, SaveOrder, [Next]_vars PROVE SaveOrder'
  OBVIOUS
<1>1. CASE UNCHANGED <<phase, todo, call, req>>
  BY <1>1 DEF SaveOrder
<1>2. CASE Reset
  BY <1>2 DEF Reset, saveVars, SaveOrder, TypeOK, Caller
<1>3. CASE TimerLoad
  BY <1>3 DEF TimerLoad, saveVars, SaveOrder, TypeOK, Caller
<1>4. CASE Save
  BY <1>4 DEF Save, callVars, SaveOrder, TypeOK, Overlay
<1>5. ASSUME NEW p \in Caller, LoadExec(p) \/ LoadRefused(p) PROVE SaveOrder'
  BY <1>5 DEF LoadExec, LoadRefused, saveVars, SaveOrder, TypeOK, Caller
<1>6. ASSUME NEW p \in Caller, LoadDone(p) \/ LoadLost(p) PROVE SaveOrder'
  <2>1. CASE p = "save"
    <3>1. phase = "reload" /\ todo = Nothing
      BY <1>6, <2>1 DEF LoadDone, LoadLost, SaveOrder
    <3>2. phase' = "idle" /\ call'["save"] = "none" /\ todo' = Nothing
      BY <1>6, <2>1, <3>1 DEF LoadDone, LoadLost, AfterLoad, TypeOK
    <3> QED BY <3>2 DEF SaveOrder, Nothing
  <2>2. CASE p # "save"
    BY <1>6, <2>2 DEF LoadDone, LoadLost, AfterLoad, SaveOrder, TypeOK, Caller
  <2> QED BY <2>1, <2>2
<1>7. CASE Exec \/ Refuse
  BY <1>7 DEF Exec, ExecAdd, ExecSet, ExecDel, Refuse, callVars, SaveOrder, TypeOK
<1>8. CASE FlushEnd
  BY <1>8 DEF FlushEnd, SaveOrder, TypeOK, Caller, Nothing
<1> QED
  BY <1>1, <1>2, <1>3, <1>4, <1>5, <1>6, <1>7, <1>8
     DEF Next, Add, Remove, Set, Unset, Edit, Foreign, saveVars, callVars, vars

(* Every variable of the cache has its type, whatever the router answers,   *)
(* and a save goes through its phases in order.                             *)
THEOREM CacheTypeCorrect == Spec => [](TypeOK /\ SaveOrder)
<1>1. Init => TypeOK
  <2> SUFFICES ASSUME Init PROVE TypeOK
    OBVIOUS
  <2>1. call \in [Caller -> {"none", "sent", "got"}]
        /\ got \in [Caller -> Config]
    BY Empties DEF Init
  <2>2. used \in [{"edits", "saves", "loads", "foreign", "faults"} -> Nat]
    BY DEF Init
  <2> QED BY <2>1, <2>2, Empties DEF Init, TypeOK
<1>2. Init => SaveOrder
  BY DEF Init, SaveOrder, Nothing, Caller
<1> QED BY <1>1, <1>2, TypeStep, OrderStep, PTL DEF Spec
-----------------------------------------------------------------------------
(* Outside a flush, and unless a writer or a late answer is on record, all  *)
(* that is cached or on its way into the cache is what the router has.      *)
Fresh ==
  ~drift /\ phase # "flush" =>
      /\ loaded => values = srv
      /\ \A p \in Caller : call[p] = "got" => got[p] = srv

LEMMA FreshStep == TypeOK /\ SaveOrder /\ Fresh /\ [Next]_vars => Fresh'
<1> SUFFICES ASSUME TypeOK, SaveOrder, Fresh, [Next]_vars PROVE Fresh'
  OBVIOUS
<1>1. CASE UNCHANGED <<srv, loaded, values, phase, call, got, drift>>
  BY <1>1 DEF Fresh
<1>2. CASE Reset
  BY <1>2 DEF Reset, Unload, Late, Fresh, TypeOK
<1>3. CASE TimerLoad
  BY <1>3 DEF TimerLoad, cacheVars, saveVars, Fresh, TypeOK, Caller
<1>4. CASE Save
  BY <1>4 DEF Save, Fresh
<1>5. ASSUME NEW p \in Caller, LoadExec(p) PROVE Fresh'
  BY <1>5 DEF LoadExec, cacheVars, saveVars, Fresh, TypeOK
<1>6. ASSUME NEW p \in Caller, LoadRefused(p) PROVE Fresh'
  BY <1>6 DEF LoadRefused, Fresh
<1>7. ASSUME NEW p \in Caller, LoadDone(p) PROVE Fresh'
  BY <1>7 DEF LoadDone, AfterLoad, SaveOrder, Fresh, TypeOK
<1>8. ASSUME NEW p \in Caller, LoadLost(p) PROVE Fresh'
  BY <1>8 DEF LoadLost, AfterLoad, SaveOrder, Fresh, TypeOK
<1>9. CASE Exec \/ Refuse
  BY <1>9 DEF Exec, ExecAdd, ExecSet, ExecDel, Refuse, Fresh
<1>10. CASE FlushEnd
  BY <1>10 DEF FlushEnd, Unload, Late, Fresh, TypeOK
<1>11. ASSUME NEW n \in Name, Foreign(n) PROVE Fresh'
  BY <1>11 DEF Foreign, Fresh
<1> QED
  BY <1>1, <1>2, <1>3, <1>4, <1>5, <1>6, <1>7, <1>8, <1>9, <1>10, <1>11
     DEF Next, Add, Remove, Set, Unset, Edit, saveVars, callVars, vars,
         cacheVars

(* The cache holds what the router has, unless another session wrote or an  *)
(* old answer arrived late: CacheFresh of the runs, whatever part of a save *)
(* was refused or lost.                                                     *)
THEOREM CacheNeverStale == Spec => []CacheFresh
<1>1. Init => Fresh
  BY DEF Init, Fresh, Caller
<1>2. Fresh => CacheFresh
  BY DEF Fresh, CacheFresh
<1> QED BY <1>1, <1>2, CacheTypeCorrect, FreshStep, PTL DEF Spec

-----------------------------------------------------------------------------
(* What is pending, here or in the batch under way, was edited.             *)
Pending ==
  /\ \A n \in Name, o \in Opt :
        chg[n][o] # None \/ o \in delOpt[n] \/ n \in delSec => <<n, o>> \in touched
  /\ \A s \in Sid, o \in Opt : creates[s] # NoSection => <<s, o>> \in touched
  /\ phase = "flush" =>
        /\ \A n \in Name, o \in Opt :
              req.sets[n][o] # None \/ o \in req.dopt[n] \/ n \in req.dsec =>
                  <<n, o>> \in touched
        /\ \A s \in Sid, o \in Opt :
              req.adds[s] # NoSection => <<s, o>> \in touched

LEMMA PendingStep == TypeOK /\ SaveOrder /\ Pending /\ [Next]_vars => Pending'
<1> SUFFICES ASSUME TypeOK, SaveOrder, Pending, [Next]_vars PROVE Pending'
  OBVIOUS
<1>1. CASE UNCHANGED <<chg, delOpt, delSec, creates, phase, req, touched>>
  BY <1>1 DEF Pending
<1>2. ASSUME NEW s \in Typed \cup Temp, Add(s) PROVE Pending'
  BY <1>2 DEF Add, Edit, Overlay, saveVars, Pending, TypeOK
<1>3. ASSUME NEW s \in Sid, Remove(s) PROVE Pending'
  <2>1. phase' # "flush"
    BY <1>3 DEF Remove, Edit, Overlay, saveVars
  <2>2. CASE creates[s] # NoSection
    BY <1>3, <2>1, <2>2 DEF Remove, Edit, Pending, TypeOK
  <2>3. CASE creates[s] = NoSection
    <3>1. s \in Name /\ \A o \in Opt : Blank[o] = None
      BY <1>3, <2>3 DEF Remove, Listed, Blank
    <3>2. /\ chg' = [chg EXCEPT ![s] = Blank]
          /\ delSec' = delSec \cup {s}
          /\ delOpt' = [delOpt EXCEPT ![s] = {}]
          /\ creates' = creates
          /\ touched' = touched \cup ({s} \X Opt)
      BY <1>3, <2>3 DEF Remove, Edit
    <3> QED BY <2>1, <3>1, <3>2 DEF Pending, TypeOK
  <2> QED BY <2>2, <2>3
<1>4. ASSUME NEW s \in Sid, NEW o \in Opt, NEW v \in Val, Set(s, o, v)
      PROVE  Pending'
  <2>1. phase' # "flush" /\ touched' = touched \cup {<<s, o>>} /\ delSec' = delSec
    BY <1>4 DEF Set, Edit, Overlay, saveVars
  <2>2. CASE creates[s] # NoSection
    BY <1>4, <2>1, <2>2 DEF Set, Pending, TypeOK
  <2>3. CASE creates[s] = NoSection
    <3>1. /\ s \in Name
          /\ chg' = [chg EXCEPT ![s] = [chg[s] EXCEPT ![o] = v]]
          /\ delOpt' = [delOpt EXCEPT ![s] = delOpt[s] \ {o}]
          /\ creates' = creates
      BY <1>4, <2>3 DEF Set
    <3>2. \A n \in Name, q \in Opt :
             chg'[n][q] # None => chg[n][q] # None \/ <<n, q>> = <<s, o>>
      BY <3>1 DEF TypeOK, Content
    <3>3. \A n \in Name : delOpt'[n] \subseteq delOpt[n]
      BY <3>1 DEF TypeOK
    <3> QED BY <2>1, <3>1, <3>2, <3>3 DEF Pending
  <2> QED BY <2>2, <2>3
<1>5. ASSUME NEW s \in Sid, NEW o \in Opt, Unset(s, o) PROVE Pending'
  <2>1. /\ phase' # "flush" /\ touched' = touched \cup {<<s, o>>}
        /\ delSec' = delSec /\ chg' = chg
    BY <1>5 DEF Unset, Edit, Overlay, saveVars
  <2>2. CASE creates[s] # NoSection
    BY <1>5, <2>1, <2>2 DEF Unset, Pending, TypeOK
  <2>3. CASE creates[s] = NoSection
    <3>1. /\ s \in Name
          /\ delOpt' = [delOpt EXCEPT ![s] = delOpt[s] \cup {o}]
          /\ creates' = creates
      BY <1>5, <2>3 DEF Unset
    <3> QED BY <2>1, <3>1 DEF Pending, TypeOK
  <2> QED BY <2>2, <2>3
<1>6. CASE Unload /\ phase' # "flush"
  BY <1>6 DEF Unload, Pending, NoCreates, NoChanges, NoDeletes, Blank
<1>7. CASE Save
  BY <1>7 DEF Save, cacheVars, Pending
<1>8. ASSUME NEW p \in Caller, LoadDone(p) \/ LoadLost(p) PROVE Pending'
  BY <1>8 DEF LoadDone, LoadLost, AfterLoad, Pending
<1>9. CASE Reset
  BY <1>6, <1>9 DEF Reset, Overlay, saveVars
<1>10. CASE FlushEnd
  BY <1>6, <1>10 DEF FlushEnd
<1> QED
  BY <1>1, <1>2, <1>3, <1>4, <1>5, <1>7, <1>8, <1>9, <1>10
     DEF Next, TimerLoad, LoadExec, LoadRefused, Exec, ExecAdd, ExecSet,
         ExecDel, Refuse, Foreign, saveVars, callVars, cacheVars, vars

(* A batch touches on the router only what was edited here since the        *)
(* package was last forgotten.                                              *)
THEOREM SaveTouchesOnlyEdits == Spec => OnlyEdited
<1>1. Init => Pending
  BY DEF Init, Pending, NoCreates, NoChanges, NoDeletes, Blank
<1> DEFINE Edited == \A n \in Name, o \in Opt :
             Value(srv', n, o) # Value(srv, n, o) =>
                 <<n, o>> \in touched \/ srv[n] = NoSection
<1>2. ASSUME TypeOK, SaveOrder, Pending, NEW s \in Sid, ExecAdd(s)
      PROVE  Edited
  <2>1. PICK n \in Name :
          /\ IF s \in Name THEN n = s ELSE n \in Drawn /\ srv[n] = NoSection
          /\ srv' = [srv EXCEPT ![n] =
                        IF srv[n] = NoSection THEN req.adds[s]
                        ELSE Merge(srv[n], req.adds[s])]
    BY <1>2 DEF ExecAdd
  <2>2. \A m \in Name : m # n => srv'[m] = srv[m]
    BY <1>2, <2>1 DEF TypeOK, Config
  <2>3. srv[n] = NoSection \/ \A o \in Opt : <<n, o>> \in touched
    BY <1>2, <2>1 DEF ExecAdd, SaveOrder, Pending
  <2> QED BY <2>2, <2>3 DEF Value
<1>3. ASSUME TypeOK, Pending, NEW n \in Name, ExecSet(n)
      PROVE  Edited
  <2>1. \A m \in Name : m # n => srv'[m] = srv[m]
    BY <1>3 DEF ExecSet, TypeOK, Config
  <2>2. srv'[n] = IF srv[n] = NoSection THEN NoSection
                  ELSE Merge(srv[n], req.sets[n])
    BY <1>3 DEF ExecSet, TypeOK, Config
  <2>3. \A o \in Opt : req.sets[n][o] # None => <<n, o>> \in touched
    BY <1>3 DEF ExecSet, Pending
  <2>4. ASSUME NEW o \in Opt, srv[n] # NoSection, req.sets[n][o] = None
        PROVE  Value(srv', n, o) = Value(srv, n, o)
    <3>1. srv[n] \in Content /\ req.sets[n] \in Content
      BY <1>3, <2>4 DEF TypeOK, Config
    <3>2. srv'[n] \in Content
      BY <2>2, <2>4, <3>1, Contents
    <3>3. srv'[n] # NoSection
      BY <3>2, UciAssumption
    <3>4. srv'[n][o] = srv[n][o]
      BY <2>2, <2>4 DEF Merge
    <3> QED BY <2>4, <3>3, <3>4 DEF Value
  <2> QED BY <2>1, <2>3, <2>4 DEF Value
<1>4. ASSUME TypeOK, Pending, NEW n \in Name, ExecDel(n)
      PROVE  Edited
  <2>1. \A m \in Name : m # n => srv'[m] = srv[m]
    BY <1>4 DEF ExecDel, TypeOK, Config
  <2>2. srv'[n] = IF n \in req.dsec \/ srv[n] = NoSection THEN NoSection
                  ELSE Without(srv[n], req.dopt[n])
    BY <1>4 DEF ExecDel, TypeOK, Config
  <2>3. \A o \in Opt : o \in req.dopt[n] \/ n \in req.dsec => <<n, o>> \in touched
    BY <1>4 DEF ExecDel, Pending
  <2>4. ASSUME NEW o \in Opt, srv[n] # NoSection,
               ~(o \in req.dopt[n] \/ n \in req.dsec)
        PROVE  Value(srv', n, o) = Value(srv, n, o)
    <3>1. srv[n] \in Content
      BY <1>4, <2>4 DEF TypeOK, Config
    <3>2. srv'[n] \in Content
      BY <2>2, <2>4, <3>1, Contents
    <3>3. srv'[n] # NoSection
      BY <3>2, UciAssumption
    <3>4. srv'[n][o] = srv[n][o]
      BY <2>2, <2>4 DEF Without
    <3> QED BY <2>4, <3>3, <3>4 DEF Value
  <2> QED BY <2>1, <2>3, <2>4 DEF Value
<1>5. TypeOK /\ SaveOrder /\ Pending /\ [Next]_vars =>
        [(\E s \in Sid : ExecAdd(s)) \/ (\E n \in Name : ExecSet(n) \/ ExecDel(n)) =>
           Edited]_vars
  BY <1>2, <1>3, <1>4
<1> QED BY <1>1, <1>5, CacheTypeCorrect, PendingStep, PTL DEF Spec, OnlyEdited
-----------------------------------------------------------------------------
(* How an edit changes what get() finds in a section of the router.         *)
LEMMA BaseAfterEdit ==
  ASSUME TypeOK, NEW s \in Name, NEW o \in Opt, NEW w \in Val \cup {None},
         Kept(s), loaded' = loaded, values' = values, delSec' = delSec,
         \A n \in Name, q \in Opt : <<n, q>> # <<s, o>> =>
             /\ chg'[n][q] = chg[n][q]
             /\ q \in delOpt'[n] <=> q \in delOpt[n],
         IF w = None THEN o \in delOpt'[s]
         ELSE o \notin delOpt'[s] /\ chg'[s][o] = w
  PROVE  /\ GetBase(s, o)' = w
         /\ \A n \in Name, q \in Opt :
               <<n, q>> # <<s, o>> => GetBase(n, q)' = GetBase(n, q)
         /\ \A n \in Name : Kept(n)' = Kept(n)
BY DEF GetBase, Kept

LEMMA SetBase ==
  ASSUME TypeOK, NEW s \in Sid, NEW o \in Opt, NEW v \in Val, Set(s, o, v),
         creates[s] = NoSection
  PROVE  /\ s \in Name /\ Kept(s) /\ creates' = creates
         /\ GetBase(s, o)' = v
         /\ \A n \in Name, q \in Opt :
               <<n, q>> # <<s, o>> => GetBase(n, q)' = GetBase(n, q)
         /\ \A n \in Name : Kept(n)' = Kept(n)
<1>1. /\ s \in Name /\ Kept(s) /\ creates' = creates
      /\ chg' = [chg EXCEPT ![s] = [chg[s] EXCEPT ![o] = v]]
      /\ delOpt' = [delOpt EXCEPT ![s] = delOpt[s] \ {o}]
      /\ loaded' = loaded /\ values' = values /\ delSec' = delSec
  BY DEF Set, Edit
<1>2. chg[s] \in Content /\ v # None
  BY <1>1, UciAssumption DEF TypeOK
<1>3. chg'[s][o] = v /\ o \notin delOpt'[s]
  BY <1>1, <1>2 DEF TypeOK, Content
<1>4. \A n \in Name, q \in Opt : <<n, q>> # <<s, o>> =>
             /\ chg'[n][q] = chg[n][q]
             /\ q \in delOpt'[n] <=> q \in delOpt[n]
  BY <1>1, <1>2 DEF TypeOK, Content
<1> QED BY <1>1, <1>2, <1>3, <1>4, BaseAfterEdit

LEMMA UnsetBase ==
  ASSUME TypeOK, NEW s \in Sid, NEW o \in Opt, Unset(s, o),
         creates[s] = NoSection
  PROVE  /\ s \in Name /\ Kept(s) /\ creates' = creates
         /\ GetBase(s, o)' = None
         /\ \A n \in Name, q \in Opt :
               <<n, q>> # <<s, o>> => GetBase(n, q)' = GetBase(n, q)
         /\ \A n \in Name : Kept(n)' = Kept(n)
<1>1. /\ s \in Name /\ Kept(s) /\ creates' = creates /\ chg' = chg
      /\ delOpt' = [delOpt EXCEPT ![s] = delOpt[s] \cup {o}]
      /\ loaded' = loaded /\ values' = values /\ delSec' = delSec
  BY DEF Unset, Edit
<1>2. o \in delOpt'[s]
  BY <1>1 DEF TypeOK
<1>3. \A n \in Name, q \in Opt : <<n, q>> # <<s, o>> =>
             /\ chg'[n][q] = chg[n][q]
             /\ q \in delOpt'[n] <=> q \in delOpt[n]
  BY <1>1 DEF TypeOK
<1> QED BY <1>1, <1>2, <1>3, BaseAfterEdit

(* A form reads back what it wrote last, whatever was pending before.       *)
THEOREM ReadsBack == Spec => ReadYourWrites
<1> DEFINE Reads == \A s \in Sid, o \in Opt :
          /\ Unset(s, o) => Get(s, o)' = None
          /\ \A v \in Val : Set(s, o, v) => Get(s, o)' = v
<1>1. ASSUME TypeOK, NEW s \in Sid, NEW o \in Opt, NEW v \in Val, Set(s, o, v)
      PROVE  Get(s, o)' = v
  <2>1. CASE creates[s] # NoSection
    <3>1. creates[s] \in Content
      BY <1>1, <2>1 DEF TypeOK
    <3>2. creates'[s] = [creates[s] EXCEPT ![o] = v]
      BY <1>1, <2>1 DEF Set, TypeOK
    <3>3. creates'[s] \in Content /\ creates'[s][o] = v
      BY <3>1, <3>2 DEF Content
    <3> QED BY <3>3, UciAssumption DEF Get
  <2>2. CASE creates[s] = NoSection
    BY <1>1, <2>2, SetBase DEF Get
  <2> QED BY <2>1, <2>2
<1>2. ASSUME TypeOK, NEW s \in Sid, NEW o \in Opt, Unset(s, o)
      PROVE  Get(s, o)' = None
  <2>1. CASE creates[s] # NoSection
    <3>1. creates[s] \in Content
      BY <1>2, <2>1 DEF TypeOK
    <3>2. creates'[s] = [creates[s] EXCEPT ![o] = None]
      BY <1>2, <2>1 DEF Unset, TypeOK
    <3>3. creates'[s] \in Content /\ creates'[s][o] = None
      BY <3>1, <3>2 DEF Content
    <3> QED BY <3>3, UciAssumption DEF Get
  <2>2. CASE creates[s] = NoSection
    BY <1>2, <2>2, UnsetBase DEF Get
  <2> QED BY <2>1, <2>2
<1>3. TypeOK /\ [Next]_vars => [Reads]_vars
  BY <1>1, <1>2
<1> QED BY <1>3, CacheTypeCorrect, PTL DEF Spec, ReadYourWrites

-----------------------------------------------------------------------------
(* The cache implements the two-layer document.                             *)
LEMMA LayerType == TypeOK => UnderLayer \in Doc!Layer
<1> SUFFICES ASSUME TypeOK PROVE UnderLayer \in Doc!Layer
  OBVIOUS
<1>1. \A n \in Name : Under(n) \in Content \cup {NoSection}
  BY UnderType
<1> QED BY <1>1 DEF UnderLayer, Doc!Layer, Doc!Content, Content

LEMMA KeptLayer ==
  ASSUME TypeOK, NEW s \in Name, Kept(s)
  PROVE  /\ s \in Sid
         /\ UnderLayer[s] = [q \in Opt |-> GetBase(s, q)]
         /\ UnderLayer[s] # NoSection
<1>1. s \in Sid /\ UnderLayer[s] = [q \in Opt |-> GetBase(s, q)]
  BY DEF UnderLayer, Under, Sid
<1>2. UnderLayer[s] # NoSection
  BY <1>1, UnderType, UciAssumption DEF Under, Content, GetBase, TypeOK, Config, Kept
<1> QED BY <1>1, <1>2

(* An edit of one option of a section of the router changes this place of   *)
(* the layer and no other.                                                  *)
LEMMA LayerPut ==
  ASSUME TypeOK, NEW s \in Name, NEW o \in Opt, NEW w \in Val \cup {None},
         Kept(s), GetBase(s, o)' = w,
         \A n \in Name, q \in Opt :
             <<n, q>> # <<s, o>> => GetBase(n, q)' = GetBase(n, q),
         \A n \in Name : Kept(n)' = Kept(n)
  PROVE  /\ UnderLayer[s] # NoSection
         /\ UnderLayer' = [UnderLayer EXCEPT ![s] = [UnderLayer[s] EXCEPT ![o] = w]]
<1>1. s \in Sid /\ UnderLayer[s] = [q \in Opt |-> GetBase(s, q)]
  BY KeptLayer
<1>2. UnderLayer[s] # NoSection
  BY KeptLayer
<1>3. ASSUME NEW n \in Name, n # s PROVE Under(n)' = Under(n)
  <2>1. \A q \in Opt : GetBase(n, q)' = GetBase(n, q)
    BY <1>3
  <2> QED BY <2>1 DEF Under
<1>4. Under(s)' = [UnderLayer[s] EXCEPT ![o] = w]
  BY <1>1 DEF Under
<1> QED BY <1>1, <1>2, <1>3, <1>4 DEF UnderLayer

LEMMA LayerKept ==
  ASSUME UNCHANGED <<loaded, values, chg, delSec, delOpt>>
  PROVE  UnderLayer' = UnderLayer
BY DEF UnderLayer, Under, Kept, GetBase

LEMMA DocStep ==
  TypeOK /\ TypeOK' /\ (UnderLayer \in Doc!Layer)' /\ [Next]_vars
    => [Doc!Next]_<<creates, UnderLayer, epoch>>
<1> SUFFICES ASSUME TypeOK, TypeOK', (UnderLayer \in Doc!Layer)', [Next]_vars
             PROVE  [Doc!Next]_<<creates, UnderLayer, epoch>>
  OBVIOUS
<1>1. CASE UNCHANGED <<loaded, values, creates, chg, delSec, delOpt, epoch>>
  BY <1>1, LayerKept
<1>2. ASSUME NEW s \in Typed \cup Temp, Add(s) PROVE Doc!Next
  <2>1. s \in Sid /\ creates[s] = NoSection /\ epoch' = epoch
        /\ creates' = [creates EXCEPT ![s] = Doc!Blank]
    BY <1>2 DEF Add, Edit, Sid, Name, Blank, Doc!Blank
  <2>2. UnderLayer' = UnderLayer
    BY <1>2, LayerKept DEF Add, Edit
  <2> QED BY <2>1, <2>2 DEF Doc!Next, Doc!Create
<1>3. ASSUME NEW s \in Sid, Remove(s) PROVE Doc!Next
  <2>1. epoch' = epoch /\ loaded' = loaded /\ values' = values
    BY <1>3 DEF Remove, Edit
  <2>2. CASE creates[s] # NoSection
    <3>1. creates' = [creates EXCEPT ![s] = NoSection]
      BY <1>3, <2>2 DEF Remove
    <3>2. UnderLayer' = UnderLayer
      BY <1>3, <2>1, <2>2, LayerKept DEF Remove
    <3> QED BY <2>1, <2>2, <3>1, <3>2 DEF Doc!Next, Doc!Drop
  <2>3. CASE creates[s] = NoSection
    <3>1. /\ s \in Name /\ Kept(s) /\ creates' = creates
          /\ chg' = [chg EXCEPT ![s] = Blank]
          /\ delSec' = delSec \cup {s}
          /\ delOpt' = [delOpt EXCEPT ![s] = {}]
      BY <1>3, <2>3 DEF Remove, Listed
    <3>2. UnderLayer[s] # NoSection
      BY <3>1, KeptLayer
    <3>3. Under(s)' = NoSection
      BY <3>1 DEF Under, Kept
    <3>4. ASSUME NEW n \in Name, n # s PROVE Under(n)' = Under(n)
      BY <2>1, <3>1, <3>4 DEF Under, Kept, GetBase, TypeOK
    <3>5. UnderLayer' = [UnderLayer EXCEPT ![s] = NoSection]
      BY <3>1, <3>3, <3>4 DEF UnderLayer
    <3> QED BY <2>1, <2>3, <3>1, <3>2, <3>5 DEF Doc!Next, Doc!Drop
  <2> QED BY <2>2, <2>3
<1>4. ASSUME NEW s \in Sid, NEW o \in Opt, NEW w \in Val \cup {None},
             creates[s] # NoSection, epoch' = epoch,
             creates' = [creates EXCEPT ![s] = [creates[s] EXCEPT ![o] = w]],
             UnderLayer' = UnderLayer
      PROVE  Doc!Next
  BY <1>4 DEF Doc!Next, Doc!Put
<1>5. ASSUME NEW s \in Sid, NEW o \in Opt, NEW w \in Val \cup {None},
             creates[s] = NoSection, creates' = creates, epoch' = epoch,
             UnderLayer[s] # NoSection,
             UnderLayer' = [UnderLayer EXCEPT ![s] = [UnderLayer[s] EXCEPT ![o] = w]]
      PROVE  Doc!Next
  BY <1>5 DEF Doc!Next, Doc!Put
<1>6. ASSUME NEW s \in Sid, NEW o \in Opt, NEW v \in Val, Set(s, o, v)
      PROVE  Doc!Next
  <2>1. epoch' = epoch /\ loaded' = loaded /\ values' = values /\ delSec' = delSec
    BY <1>6 DEF Set, Edit
  <2>2. CASE creates[s] # NoSection
    <3>1. creates' = [creates EXCEPT ![s] = [creates[s] EXCEPT ![o] = v]]
      BY <1>6, <2>2 DEF Set
    <3>2. UnderLayer' = UnderLayer
      BY <1>6, <2>1, <2>2, LayerKept DEF Set
    <3> QED BY <1>4, <2>1, <2>2, <3>1, <3>2
  <2>3. CASE creates[s] = NoSection
    BY <1>5, <1>6, <2>1, <2>3, SetBase, LayerPut
  <2> QED BY <2>2, <2>3
<1>7. ASSUME NEW s \in Sid, NEW o \in Opt, Unset(s, o) PROVE Doc!Next
  <2>1. epoch' = epoch /\ loaded' = loaded /\ values' = values /\ delSec' = delSec
        /\ chg' = chg
    BY <1>7 DEF Unset, Edit
  <2>2. CASE creates[s] # NoSection
    <3>1. creates' = [creates EXCEPT ![s] = [creates[s] EXCEPT ![o] = None]]
      BY <1>7, <2>2 DEF Unset
    <3>2. UnderLayer' = UnderLayer
      BY <1>7, <2>1, <2>2, LayerKept DEF Unset
    <3> QED BY <1>4, <2>1, <2>2, <3>1, <3>2
  <2>3. CASE creates[s] = NoSection
    BY <1>5, <1>7, <2>1, <2>3, UnsetBase, LayerPut
  <2> QED BY <2>2, <2>3
<1>8. CASE epoch' = epoch + 1
  <2>1. UnderLayer' \in Doc!Layer
    BY DEF Doc!Layer, Doc!Content
  <2>2. creates' \in Doc!Layer
    BY DEF TypeOK, Doc!Layer, Doc!Content, Content
  <2> QED BY <1>8, <2>1, <2>2 DEF Doc!Next, Doc!Fetch
<1> QED
  BY <1>1, <1>2, <1>3, <1>6, <1>7, <1>8
     DEF Next, Reset, TimerLoad, Save, LoadExec, LoadRefused, LoadDone, LoadLost,
         AfterLoad, Exec, ExecAdd, ExecSet, ExecDel, Refuse, FlushEnd, Foreign,
         cacheVars, vars

(* Editing, fetching and saving the cache are steps of ConfigDoc.           *)
THEOREM DocImplemented == Spec => DocSpec
<1>1. Init => Doc!Init
  <2> SUFFICES ASSUME Init PROVE Doc!Init
    OBVIOUS
  <2>1. UnderLayer = [s \in Sid |-> NoSection]
    BY DEF Init, UnderLayer, Under, Kept
  <2> QED BY <2>1 DEF Init, NoCreates, Doc!Init, Doc!Layer
<1>2. Spec => []TypeOK
  BY CacheTypeCorrect, PTL
<1> QED BY <1>1, <1>2, LayerType, DocStep, PTL DEF Spec, DocSpec, Doc!Spec, Doc!docVars
-----------------------------------------------------------------------------
(* What a save without faults leaves on the router.  Before it: edits are   *)
(* pending only for sections the cache has, and no section is added under a *)
(* name that only the router draws.                                         *)
Settled ==
  /\ \A s \in Drawn : creates[s] = NoSection /\ req.adds[s] = NoSection
  /\ ~drift /\ phase # "flush" =>
        \A n \in Name :
            /\ chg[n] # Blank \/ delOpt[n] # {} =>
                   loaded /\ values[n] # NoSection /\ n \notin delSec
            /\ n \in delSec => loaded /\ values[n] # NoSection

LEMMA SettledStep ==
  TypeOK /\ SaveOrder /\ Fresh /\ Settled /\ [Next]_vars => Settled'
<1> SUFFICES ASSUME TypeOK, SaveOrder, Fresh, Settled, [Next]_vars PROVE Settled'
  OBVIOUS
<1>1. CASE UNCHANGED <<cacheVars, phase, req, drift>>
  BY <1>1 DEF Settled, cacheVars
<1>2. ASSUME NEW s \in Typed \cup Temp, Add(s) PROVE Settled'
  <2>1. s \notin Drawn
    BY UciAssumption DEF Name
  <2> QED BY <1>2, <2>1, UciAssumption DEF Add, Edit, saveVars, Settled, TypeOK, Sid, Name
<1>3. ASSUME NEW s \in Sid, Remove(s) PROVE Settled'
  <2>1. loaded' = loaded /\ values' = values /\ phase' = phase /\ req' = req
        /\ drift' = drift
    BY <1>3 DEF Remove, Edit, saveVars
  <2>2. CASE creates[s] # NoSection
    <3>1. /\ creates' = [creates EXCEPT ![s] = NoSection]
          /\ chg' = chg /\ delSec' = delSec /\ delOpt' = delOpt
      BY <1>3, <2>2 DEF Remove
    <3>2. \A d \in Drawn : creates'[d] = NoSection
      BY <3>1 DEF Settled, TypeOK, Sid, Name
    <3> QED BY <2>1, <3>1, <3>2 DEF Settled
  <2>3. CASE creates[s] = NoSection
    <3>1. /\ s \in Name /\ Kept(s) /\ creates' = creates
          /\ chg' = [chg EXCEPT ![s] = Blank]
          /\ delSec' = delSec \cup {s}
          /\ delOpt' = [delOpt EXCEPT ![s] = {}]
      BY <1>3, <2>3 DEF Remove, Listed
    <3> QED BY <2>1, <3>1 DEF Settled, Kept, TypeOK
  <2> QED BY <2>2, <2>3
<1>4. ASSUME NEW s \in Sid, NEW o \in Opt, NEW w \in Val \cup {None},
             \/ w \in Val /\ Set(s, o, w)
             \/ w = None /\ Unset(s, o)
      PROVE  Settled'
  <2>1. loaded' = loaded /\ values' = values /\ phase' = phase /\ req' = req
        /\ drift' = drift /\ delSec' = delSec
    BY <1>4 DEF Set, Unset, Edit, saveVars
  <2>2. CASE creates[s] # NoSection
    <3>1. /\ creates' = [creates EXCEPT ![s] = [creates[s] EXCEPT ![o] = w]]
          /\ chg' = chg /\ delOpt' = delOpt
      BY <1>4, <2>2 DEF Set, Unset
    <3>2. \A d \in Drawn : d # s /\ d \in Sid
      BY <2>2 DEF Settled, Sid, Name
    <3>3. \A d \in Drawn : creates'[d] = NoSection
      BY <3>1, <3>2 DEF Settled, TypeOK
    <3> QED BY <2>1, <3>1, <3>3 DEF Settled
  <2>3. CASE creates[s] = NoSection
    <3>1. s \in Name /\ Kept(s) /\ creates' = creates
      BY <1>4, <2>3 DEF Set, Unset
    <3>2. \A n \in Name : n # s => chg'[n] = chg[n] /\ delOpt'[n] = delOpt[n]
      BY <1>4, <2>3 DEF Set, Unset, TypeOK
    <3> QED BY <2>1, <3>1, <3>2 DEF Settled, Kept
  <2> QED BY <2>2, <2>3
<1>5. ASSUME Unload, req' = req PROVE Settled'
  BY <1>5 DEF Unload, Settled, NoCreates, NoChanges, NoDeletes, Sid, Name
<1>6. CASE Save
  BY <1>6 DEF Save, cacheVars, Settled
<1>7. ASSUME NEW p \in Caller, LoadDone(p) \/ LoadLost(p) PROVE Settled'
  <2>1. /\ UNCHANGED <<creates, chg, delSec, delOpt, drift>>
        /\ req' = req \/ req' = NoReq
        /\ phase # "flush" => phase' # "flush"
        /\ phase' # "flush" => phase # "flush"
    BY <1>7 DEF LoadDone, LoadLost, AfterLoad, SaveOrder, TypeOK
  <2>2. \A s \in Drawn : req'.adds[s] = NoSection
    BY <2>1 DEF Settled, NoReq, NoCreates, Sid, Name
  <2>3. ~drift /\ phase # "flush" /\ loaded => loaded' /\ values' = values
    BY <1>7 DEF LoadDone, LoadLost, Fresh
  <2> QED BY <2>1, <2>2, <2>3 DEF Settled
<1>8. ASSUME NEW p \in Caller, LoadRefused(p) PROVE Settled'
  BY <1>8 DEF LoadRefused, cacheVars, saveVars, Settled
<1>9. ASSUME NEW n \in Name, Foreign(n) PROVE Settled'
  BY <1>9 DEF Foreign, cacheVars, Settled
<1>10. CASE Reset
  BY <1>5, <1>10 DEF Reset, saveVars
<1>11. CASE FlushEnd
  BY <1>5, <1>11 DEF FlushEnd
<1> QED
  BY <1>1, <1>2, <1>3, <1>4, <1>6, <1>7, <1>8, <1>9, <1>10, <1>11
     DEF Next, TimerLoad, LoadExec, Exec, ExecAdd, ExecSet, ExecDel, Refuse,
         saveVars, callVars, vars

(* While the batch runs: what the calls still to come make of a section,    *)
(* and which sections none of them names.                                   *)
AfterSet(n) ==
  IF n \in todo.set /\ srv[n] # NoSection THEN Merge(srv[n], req.sets[n]) ELSE srv[n]

After(n) ==
  IF n \notin todo.del THEN AfterSet(n)
  ELSE IF n \in req.dsec \/ srv[n] = NoSection THEN NoSection
  ELSE Without(AfterSet(n), req.dopt[n])

Untouched(n) == n \notin todo.set /\ n \notin todo.del

OnItsWay ==
  clean /\ phase = "flush" =>
    /\ \A s \in Sid : newName[s] # NoName =>
          /\ s \notin todo.add /\ req.adds[s] # NoSection
          /\ srv[newName[s]] = req.adds[s] /\ Untouched(newName[s])
          /\ IF s \in Name THEN newName[s] = s ELSE newName[s] \in Drawn
    /\ \A s, r \in Sid : newName[s] = newName[r] /\ newName[s] # NoName => s = r
    /\ \A n \in todo.add \cap Name : srv[n] = NoSection /\ Untouched(n)
    /\ \A n \in Name : (\A s \in Sid : newName[s] # n) /\ n \notin todo.add =>
                           After(n) = req.shown[n]
    /\ \A n \in Name : todo.add # {} /\ srv[n] = NoSection => Untouched(n)

LEMMA FlushBegins ==
  TypeOK /\ Fresh /\ Settled /\ Save => OnItsWay'
<1> SUFFICES ASSUME TypeOK, Fresh, Settled, Save, clean' PROVE OnItsWay'
  BY DEF OnItsWay
<1>1. /\ phase = "idle" /\ loaded /\ ~drift /\ values = srv /\ srv' = srv
      /\ \A n \in Name : creates[n] # NoSection => values[n] = NoSection
  BY DEF Save, Overlay, Fresh, TypeOK
<1>2. /\ newName' = NoNames
      /\ req'.adds = creates /\ req'.sets = chg /\ req'.dsec = delSec
      /\ req'.dopt = delOpt /\ req'.shown = [n \in Name |-> Under(n)]
      /\ todo'.add = {s \in Sid : creates[s] # NoSection}
      /\ todo'.set = {n \in Name : chg[n] # Blank}
      /\ todo'.del = delSec \cup {n \in Name : delOpt[n] # {}}
  BY DEF Save
<1>3. ASSUME NEW n \in Name, srv[n] = NoSection PROVE Untouched(n)'
  BY <1>1, <1>2, <1>3 DEF Untouched, Settled
<1>4. ASSUME NEW n \in Name PROVE After(n)' = Under(n)
  <2>1. CASE srv[n] = NoSection
    <3>1. Untouched(n)'
      BY <1>3, <2>1
    <3> QED BY <1>1, <2>1, <3>1 DEF After, AfterSet, Untouched, Under, Kept
  <2>2. CASE srv[n] # NoSection /\ n \in delSec
    BY <1>1, <1>2, <2>2 DEF After, Under, Kept
  <2>3. CASE srv[n] # NoSection /\ n \notin delSec
    <3>1. /\ Kept(n) /\ srv[n] \in Content /\ chg[n] \in Content
          /\ delOpt[n] \in SUBSET Opt
      BY <1>1, <2>3 DEF Kept, TypeOK, Config
    <3>2. Merge(srv[n], chg[n]) \in Content
          /\ Merge(srv[n], chg[n]) = [o \in Opt |-> IF chg[n][o] # None THEN chg[n][o]
                                                ELSE srv[n][o]]
      BY <3>1, Contents DEF Merge
    <3>3. (chg[n] = Blank) => Merge(srv[n], chg[n]) = srv[n]
      BY <3>1, <3>2 DEF Blank, Content
    <3>4. AfterSet(n)' = Merge(srv[n], chg[n])
      BY <1>1, <1>2, <2>3, <3>3 DEF AfterSet
    <3>5. n \in todo'.del <=> delOpt[n] # {}
      BY <1>2, <2>3
    <3>6. After(n)' = IF delOpt[n] # {} THEN Without(Merge(srv[n], chg[n]), delOpt[n])
                      ELSE Merge(srv[n], chg[n])
      BY <1>1, <1>2, <2>3, <3>4, <3>5 DEF After
    <3>7. After(n)' = [o \in Opt |-> IF o \in delOpt[n] THEN None
                                     ELSE IF chg[n][o] # None THEN chg[n][o]
                                     ELSE srv[n][o]]
      BY <3>1, <3>2, <3>6 DEF Without
    <3> QED BY <1>1, <2>3, <3>1, <3>7 DEF Under, GetBase, Kept
  <2> QED BY <2>1, <2>2, <2>3
<1>5. \A s \in Sid : newName'[s] = NoName
  BY <1>2 DEF NoNames
<1> QED
  BY <1>1, <1>2, <1>3, <1>4, <1>5, UciAssumption DEF OnItsWay

LEMMA AddOnItsWay ==
  TypeOK /\ SaveOrder /\ Settled /\ OnItsWay /\ (\E s \in Sid : ExecAdd(s)) => OnItsWay'
<1> SUFFICES ASSUME TypeOK, SaveOrder, Settled, OnItsWay,
                    NEW s \in Sid, ExecAdd(s), clean'
             PROVE  OnItsWay'
  BY DEF OnItsWay
<1>1. /\ clean /\ phase = "flush" /\ s \in todo.add /\ req.adds[s] # NoSection
      /\ req' = req
      /\ todo'.add = todo.add \ {s} /\ todo'.set = todo.set /\ todo'.del = todo.del
  BY DEF ExecAdd, SaveOrder, TypeOK
<1>2. PICK n \in Name :
          /\ IF s \in Name THEN n = s ELSE n \in Drawn /\ srv[n] = NoSection
          /\ srv' = [srv EXCEPT ![n] =
                        IF srv[n] = NoSection THEN req.adds[s]
                        ELSE Merge(srv[n], req.adds[s])]
          /\ newName' = [newName EXCEPT ![s] = n]
  BY DEF ExecAdd
<1>3. s \notin Drawn /\ (s \in Name => s \in Typed)
  BY <1>1 DEF Settled, Name
<1>4. srv[n] = NoSection /\ Untouched(n)
  BY <1>1, <1>2 DEF OnItsWay
<1>5. /\ srv'[n] = req.adds[s]
      /\ \A m \in Name : m # n => srv'[m] = srv[m]
      /\ newName'[s] = n
      /\ \A r \in Sid : r # s => newName'[r] = newName[r]
  BY <1>2, <1>4 DEF TypeOK, Config
<1>6. newName[s] = NoName
  BY <1>1 DEF OnItsWay
<1>7. \A r \in Sid : newName[r] # n
  <2> SUFFICES ASSUME NEW r \in Sid, newName[r] = n PROVE FALSE
    OBVIOUS
  <2>1. newName[r] # NoName
    BY UciAssumption
  <2>2. srv[n] # NoSection
    BY <1>1, <2>1 DEF OnItsWay
  <2> QED BY <1>4, <2>2
<1>8. \A m \in Name : Untouched(m)' <=> Untouched(m)
  BY <1>1 DEF Untouched
<1>9. \A m \in Name : m # n => After(m)' = After(m)
  BY <1>1, <1>5 DEF After, AfterSet
<1>10. ASSUME NEW r \in Sid, newName'[r] # NoName
       PROVE  /\ r \notin todo'.add /\ req'.adds[r] # NoSection
              /\ srv'[newName'[r]] = req'.adds[r]
              /\ newName'[r] \notin todo'.set /\ newName'[r] \notin todo'.del
              /\ IF r \in Name THEN newName'[r] = r ELSE newName'[r] \in Drawn
  <2>1. CASE r = s
    <3>1. newName'[r] = n /\ n \notin todo'.set /\ n \notin todo'.del
      BY <1>1, <1>4, <1>5, <2>1 DEF Untouched
    <3> QED BY <1>1, <1>2, <1>5, <2>1, <3>1
  <2>2. CASE r # s
    <3>1. newName'[r] = newName[r] /\ newName[r] \in Name /\ newName[r] # n
      BY <1>5, <1>7, <1>10, <2>2 DEF TypeOK
    <3>2. /\ r \notin todo.add /\ req.adds[r] # NoSection
          /\ srv[newName[r]] = req.adds[r] /\ Untouched(newName[r])
          /\ IF r \in Name THEN newName[r] = r ELSE newName[r] \in Drawn
      BY <1>1, <1>10, <3>1 DEF OnItsWay
    <3> QED BY <1>1, <1>5, <3>1, <3>2 DEF Untouched
  <2> QED BY <2>1, <2>2
<1>11. \A q, r \in Sid : newName'[q] = newName'[r] /\ newName'[q] # NoName => q = r
  BY <1>1, <1>5, <1>7 DEF OnItsWay
<1>12. ASSUME NEW m \in todo'.add \cap Name
       PROVE  srv'[m] = NoSection /\ Untouched(m)'
  <2>1. m \in todo.add /\ m # s
    BY <1>1
  <2>2. m # n
    <3>1. m \notin Drawn
      BY <2>1 DEF Settled, SaveOrder
    <3> QED BY <1>2, <2>1, <3>1
  <2> QED BY <1>1, <1>5, <1>8, <2>1, <2>2 DEF OnItsWay
<1>13. ASSUME NEW m \in Name, \A r \in Sid : newName'[r] # m, m \notin todo'.add
       PROVE  After(m)' = req'.shown[m]
  <2>1. m # n /\ m # s
    BY <1>2, <1>5, <1>13
  <2>2. \A r \in Sid : newName[r] # m
    BY <1>5, <1>6, <1>13, UciAssumption
  <2> QED BY <1>1, <1>9, <1>13, <2>1, <2>2 DEF OnItsWay
<1>14. \A m \in Name : todo'.add # {} /\ srv'[m] = NoSection => Untouched(m)'
  <2> SUFFICES ASSUME NEW m \in Name, srv'[m] = NoSection PROVE Untouched(m)'
    OBVIOUS
  <2>1. m # n
    BY <1>1, <1>5
  <2> QED BY <1>1, <1>5, <1>8, <2>1 DEF OnItsWay
<1> QED BY <1>10, <1>11, <1>12, <1>13, <1>14 DEF OnItsWay, Untouched

LEMMA SetOnItsWay ==
  TypeOK /\ OnItsWay /\ (\E n \in Name : ExecSet(n) \/ ExecDel(n)) => OnItsWay'
<1> SUFFICES ASSUME TypeOK, OnItsWay, NEW n \in Name, ExecSet(n) \/ ExecDel(n), clean'
             PROVE  OnItsWay'
  BY DEF OnItsWay
<1>1. /\ clean /\ phase = "flush" /\ todo.add = {} /\ todo'.add = {}
      /\ req' = req /\ newName' = newName
  BY DEF ExecSet, ExecDel, TypeOK
<1>2. /\ n \in todo.set \/ n \in todo.del
      /\ \A m \in Name : m # n =>
            /\ m \in todo'.set <=> m \in todo.set
            /\ m \in todo'.del <=> m \in todo.del
  <2>1. CASE ExecSet(n)
    <3>1. n \in todo.set /\ todo'.set = todo.set \ {n} /\ todo'.del = todo.del
      BY <2>1 DEF ExecSet, TypeOK
    <3> QED BY <3>1
  <2>2. CASE ExecDel(n)
    <3>1. n \in todo.del /\ todo'.del = todo.del \ {n} /\ todo'.set = todo.set
      BY <2>2 DEF ExecDel, TypeOK
    <3> QED BY <3>1
  <2> QED BY <2>1, <2>2
<1>3. \A m \in Name : m # n => srv'[m] = srv[m]
  BY DEF ExecSet, ExecDel, TypeOK, Config
<1>4. \A m \in Name : m # n => After(m)' = After(m)
  BY <1>1, <1>2, <1>3 DEF After, AfterSet
<1>5. After(n)' = After(n)
  <2>1. CASE ExecSet(n)
    <3>1. srv'[n] = IF srv[n] = NoSection THEN NoSection
                    ELSE Merge(srv[n], req.sets[n])
      BY <2>1 DEF ExecSet, TypeOK, Config
    <3>2. n \in todo.set /\ n \notin todo'.set /\ todo'.del = todo.del
      BY <2>1 DEF ExecSet, TypeOK
    <3>3. srv[n] # NoSection => Merge(srv[n], req.sets[n]) # NoSection
      <4> SUFFICES ASSUME srv[n] # NoSection
                   PROVE  Merge(srv[n], req.sets[n]) # NoSection
        OBVIOUS
      <4>1. Merge(srv[n], req.sets[n]) \in Content
        BY Contents DEF TypeOK, Config
      <4> QED BY <4>1, UciAssumption
    <3>4. AfterSet(n)' = AfterSet(n)
      BY <3>1, <3>2 DEF AfterSet
    <3> QED BY <1>1, <3>1, <3>2, <3>3, <3>4 DEF After
  <2>2. CASE ExecDel(n)
    <3>1. srv'[n] = IF n \in req.dsec \/ srv[n] = NoSection THEN NoSection
                    ELSE Without(srv[n], req.dopt[n])
      BY <2>2 DEF ExecDel, TypeOK, Config
    <3>2. n \notin todo.set /\ n \notin todo'.set /\ n \in todo.del /\ n \notin todo'.del
      BY <2>2 DEF ExecDel, TypeOK
    <3> QED BY <3>1, <3>2 DEF After, AfterSet
  <2> QED BY <2>1, <2>2
<1>6. \A s \in Sid : newName[s] # NoName => newName[s] \in Name /\ newName[s] # n
  BY <1>1, <1>2 DEF OnItsWay, Untouched, TypeOK
<1>7. \A s \in Sid : newName'[s] # NoName =>
          /\ s \notin todo'.add /\ req'.adds[s] # NoSection
          /\ srv'[newName'[s]] = req'.adds[s]
          /\ newName'[s] \notin todo'.set /\ newName'[s] \notin todo'.del
          /\ IF s \in Name THEN newName'[s] = s ELSE newName'[s] \in Drawn
  BY <1>1, <1>2, <1>3, <1>6 DEF OnItsWay, Untouched
<1>8. \A m \in Name : After(m)' = After(m)
  BY <1>4, <1>5
<1> QED BY <1>1, <1>7, <1>8 DEF OnItsWay, Untouched

LEMMA OnItsWayStep ==
  TypeOK /\ SaveOrder /\ Fresh /\ Settled /\ OnItsWay /\ [Next]_vars => OnItsWay'
<1> SUFFICES ASSUME TypeOK, SaveOrder, Fresh, Settled, OnItsWay, [Next]_vars
             PROVE  OnItsWay'
  OBVIOUS
<1>1. CASE UNCHANGED <<srv, saveVars>>
  BY <1>1 DEF OnItsWay, saveVars, After, AfterSet, Untouched
<1>2. ASSUME NEW p \in Caller, LoadDone(p) \/ LoadLost(p) PROVE OnItsWay'
  BY <1>1, <1>2 DEF LoadDone, LoadLost, AfterLoad, saveVars, OnItsWay
<1>3. CASE FlushEnd \/ Refuse \/ \E n \in Name : Foreign(n)
  BY <1>3 DEF FlushEnd, Refuse, Foreign, OnItsWay
<1> QED
  BY <1>1, <1>2, <1>3, FlushBegins, AddOnItsWay, SetOnItsWay
     DEF Next, Exec, Add, Remove, Set, Unset, Edit, Reset, TimerLoad, LoadExec,
         LoadRefused, vars

(* A save from a page that showed what the router has, with no fault and no *)
(* other writer, stores what the page showed and nothing else.              *)
THEOREM SaveStoresWhatWasShown == Spec => []SaveFaithful
<1>1. Init => Settled /\ OnItsWay /\ SaveFaithful
  BY DEF Init, Settled, OnItsWay, SaveFaithful, NoCreates, NoChanges, NoDeletes,
         NoReq, Sid, Name
<1>2. ASSUME TypeOK, SaveOrder, Fresh, Settled, OnItsWay, SaveFaithful, [Next]_vars
      PROVE  SaveFaithful'
  <2>1. CASE UNCHANGED <<srv, saveVars>>
    BY <1>2, <2>1 DEF SaveFaithful, saveVars, Sent
  <2>2. CASE FlushEnd
    <3> SUFFICES ASSUME clean', NEW n \in Name
                 PROVE  srv[n] = Sent(n)
      BY <2>2 DEF FlushEnd, SaveFaithful, Sent
    <3>1. clean /\ phase = "flush" /\ todo = Nothing
      BY <2>2 DEF FlushEnd
    <3>2. CASE \E s \in Sid : req.adds[s] # NoSection /\ newName[s] = n
      <4> DEFINE s == CHOOSE r \in Sid : req.adds[r] # NoSection /\ newName[r] = n
      <4>1. s \in Sid /\ req.adds[s] # NoSection /\ newName[s] = n
        BY <3>2
      <4> HIDE DEF s
      <4>2. srv[n] = req.adds[s]
        BY <1>2, <3>1, <4>1, UciAssumption DEF OnItsWay
      <4> QED BY <3>2, <4>2 DEF s, Sent
    <3>3. CASE ~ \E s \in Sid : req.adds[s] # NoSection /\ newName[s] = n
      <4>1. \A s \in Sid : newName[s] # n
        BY <1>2, <3>1, <3>3, UciAssumption DEF OnItsWay
      <4>2. n \notin todo.add /\ After(n) = srv[n]
        BY <3>1 DEF Nothing, After, AfterSet
      <4>3. srv[n] = req.shown[n]
        BY <1>2, <3>1, <4>1, <4>2 DEF OnItsWay
      <4> QED BY <3>3, <4>3 DEF Sent
    <3> QED BY <3>2, <3>3
  <2>3. ASSUME NEW p \in Caller, LoadDone(p) \/ LoadLost(p) PROVE SaveFaithful'
    BY <2>1, <2>3, <1>2 DEF LoadDone, LoadLost, AfterLoad, saveVars, SaveFaithful
  <2>4. CASE Save \/ Exec \/ Refuse \/ \E n \in Name : Foreign(n)
    BY <2>4 DEF Save, Exec, ExecAdd, ExecSet, ExecDel, Refuse, Foreign, SaveFaithful
  <2> QED
    BY <1>2, <2>1, <2>2, <2>3, <2>4
       DEF Next, Add, Remove, Set, Unset, Edit, Reset, TimerLoad, LoadExec,
           LoadRefused, vars
<1>3. Init => Fresh
  BY DEF Init, Fresh, Caller
<1> QED
  BY <1>1, <1>2, <1>3, CacheTypeCorrect, FreshStep, SettledStep, OnItsWayStep, PTL
     DEF Spec

-----------------------------------------------------------------------------
(* While a saved package is fetched again nothing is pending: flush has     *)
(* unloaded it and the form takes no input.                                 *)
NothingPending ==
  phase = "reload" => /\ creates = NoCreates /\ chg = NoChanges
                      /\ delSec = {} /\ delOpt = NoDeletes

LEMMA NothingPendingStep == NothingPending /\ [Next]_vars => NothingPending'
<1> SUFFICES ASSUME NothingPending, [Next]_vars PROVE NothingPending'
  OBVIOUS
<1>1. CASE UNCHANGED <<phase, creates, chg, delSec, delOpt>>
  BY <1>1 DEF NothingPending
<1>2. CASE Reset \/ FlushEnd
  BY <1>2 DEF Reset, FlushEnd, Unload, NothingPending
<1>3. CASE Save
  BY <1>3 DEF Save, NothingPending
<1>4. ASSUME NEW p \in Caller, LoadDone(p) \/ LoadLost(p) PROVE NothingPending'
  BY <1>4 DEF LoadDone, LoadLost, AfterLoad, NothingPending
<1>5. ASSUME ~Overlay, phase' = phase PROVE NothingPending'
  BY <1>5 DEF Overlay, NothingPending
<1> QED
  BY <1>1, <1>2, <1>3, <1>4, <1>5
     DEF Next, Add, Remove, Set, Unset, Edit, TimerLoad, LoadExec, LoadRefused,
         Exec, ExecAdd, ExecSet, ExecDel, Refuse, Foreign, saveVars, callVars,
         vars, cacheVars

(* A page with nothing pending shows the sections as they were fetched.     *)
LEMMA ShowsFetched ==
  ASSUME TypeOK', loaded', chg' = NoChanges, delSec' = {}, delOpt' = NoDeletes,
         NEW n \in Name
  PROVE  Under(n)' = values'[n]
<1>1. values'[n] # NoSection => values'[n] \in Content
  BY DEF TypeOK, Config
<1>2. ASSUME NEW o \in Opt, values'[n] # NoSection
      PROVE  GetBase(n, o)' = values'[n][o]
  BY <1>2 DEF GetBase, NoChanges, NoDeletes, Blank
<1> QED BY <1>1, <1>2 DEF Under, Kept, Content

(* What the page shows after a clean save is what it showed when it was     *)
(* saved.                                                                   *)
THEOREM SaveShowsWhatWasSent == Spec => SaveRoundTrip
<1>1. Init => Fresh /\ NothingPending
  BY DEF Init, Fresh, Caller, NothingPending
<1>2. ASSUME TypeOK', SaveOrder, Fresh', NothingPending, SaveFaithful, [Next]_vars,
             clean, phase = "reload", phase' = "idle", loaded', ~drift,
             NEW n \in Name
      PROVE  Under(n)' = Sent(n)
  <2>1. \E p \in Caller : LoadDone(p) \/ LoadLost(p)
    BY <1>2 DEF Next, Add, Remove, Set, Unset, Edit, Reset, TimerLoad, LoadExec,
       LoadRefused, Exec, ExecAdd, ExecSet, ExecDel, Refuse, FlushEnd, Save,
       Foreign, Overlay, saveVars, callVars, vars
  <2>2. UNCHANGED <<srv, creates, chg, delSec, delOpt, drift>>
    BY <2>1 DEF LoadDone, LoadLost, AfterLoad
  <2>3. values'[n] = srv[n]
    BY <1>2, <2>2 DEF Fresh
  <2>4. Under(n)' = values'[n]
    <3>1. chg' = NoChanges /\ delSec' = {} /\ delOpt' = NoDeletes
      BY <1>2, <2>2 DEF NothingPending
    <3> QED BY <1>2, <3>1, ShowsFetched
  <2> QED BY <1>2, <2>3, <2>4 DEF SaveFaithful
<1>3. TypeOK /\ SaveOrder /\ Fresh /\ NothingPending /\ SaveFaithful /\ [Next]_vars =>
        [clean /\ phase = "reload" /\ phase' = "idle" /\ loaded' /\ ~drift =>
           \A n \in Name : Under(n)' = Sent(n)]_vars
  BY <1>2, TypeStep, FreshStep
<1> QED
  BY <1>1, <1>3, CacheTypeCorrect, SaveStoresWhatWasShown, FreshStep,
     NothingPendingStep, PTL DEF Spec, SaveRoundTrip
=============================================================================
