------------------------------- MODULE UciCache -------------------------------
(***************************************************************************)
(* The configuration cache of the web interface (uci.js) over its batched  *)
(* calls (rpc.js): a page loads a package, edits a local copy, and saves   *)
(* it with one batch that the router executes call by call, while another  *)
(* client or a script of the router writes the same package, a refresh     *)
(* timer loads it again, calls are refused and answers are lost.           *)
(*                                                                         *)
(* One package is modelled; packages share nothing but the batch.  swap()  *)
(* is not, so reorder stays empty and reorderSections does nothing.        *)
(***************************************************************************)
EXTENDS Naturals, FiniteSets

CONSTANTS Typed,       \* section names a user types
          Drawn,       \* names the router draws for sections without one
          Temp,        \* the "new......" ids createSID draws
          Opt, Val,    \* options of a section and their values
          None,        \* the option is not there
          NoSection,   \* the section is not there
          NoName,      \* no answer, or the empty one, to an add
          MaxEdits, MaxSaves, MaxLoads, MaxForeign, MaxFaults  \* bounds

Name    == Typed \cup Drawn
Content == [Opt -> Val \cup {None}]
Blank   == [o \in Opt |-> None]
Sid     == Name \cup Temp
Caller  == {"map", "timer", "save"}
Config  == [Name -> Content \cup {NoSection}]

ASSUME UciAssumption ==
    /\ Typed \cap Drawn = {}
    /\ Name \cap Temp = {}
    /\ None \notin Val
    /\ NoSection \notin Content
    /\ NoName \notin Name

VARIABLES
    srv,      \* the package as the router shows it to this session
    loaded,   \* state.values has the package
    values,   \* state.values: the sections as they were fetched
    creates,  \* state.creates: sections added here
    chg,      \* state.changes: options set here
    delSec,   \* state.deletes, entries that are true
    delOpt,   \* state.deletes, entries that are lists of options
    dirty,    \* the package has an entry in creates, changes or deletes
    phase,    \* save(): "idle", "flush" (batch under way), "reload"
    req,      \* the batch as it was sent
    todo,     \* calls of the batch the router has not executed
    newName,  \* answers to the adds
    call,     \* uci.get calls under way, by who waits for them
    got,      \* what the router answered to each of them
    clean,    \* ghost: the save under way met no fault and no other writer
    touched,  \* ghost: places edited since the package was last forgotten
    drift,    \* ghost: another writer, or a load overtaken by an unload
    epoch,    \* loads and unloads so far
    used      \* edits, saves, loads, foreign writes and faults so far

cacheVars == <<loaded, values, creates, chg, delSec, delOpt, dirty>>
saveVars  == <<phase, req, todo, newName, clean>>
callVars  == <<call, got>>
vars == <<srv, cacheVars, saveVars, callVars, touched, drift, epoch, used>>

Bound == [edits |-> MaxEdits, saves |-> MaxSaves, loads |-> MaxLoads,
          foreign |-> MaxForeign, faults |-> MaxFaults]

Count(k) == /\ used[k] < Bound[k]
            /\ used' = [used EXCEPT ![k] = used[k] + 1]

NoConfig  == [n \in Name |-> NoSection]
NoCreates == [s \in Sid |-> NoSection]
NoChanges == [n \in Name |-> Blank]
NoDeletes == [n \in Name |-> {}]
Nothing   == [add |-> {}, set |-> {}, del |-> {}]
NoNames == [s \in Sid |-> NoName]
NoReq == [adds |-> NoCreates, sets |-> NoChanges, dsec |-> {},
          dopt |-> NoDeletes, shown |-> NoConfig]

(* $.extend and the server's set: what b says replaces what a says. *)
Merge(a, b) == [o \in Opt |-> IF b[o] # None THEN b[o] ELSE a[o]]

-----------------------------------------------------------------------------
(* Reading the cache.  An option of a section of the router: deleted here, *)
(* changed here, or as it was fetched.                                     *)
GetBase(n, o) ==
    IF n \in delSec \/ o \in delOpt[n] THEN None
    ELSE IF chg[n][o] # None THEN chg[n][o]
    ELSE IF loaded /\ values[n] # NoSection THEN values[n][o]
    ELSE None

Get(s, o) ==
    IF creates[s] # NoSection THEN creates[s][o]
    ELSE IF s \in Name THEN GetBase(s, o) ELSE None

(* Sections of the router that are still there for the page. *)
Kept(n) == loaded /\ values[n] # NoSection /\ n \notin delSec

(* sections(): nothing before the package is loaded. *)
Listed(s) == loaded /\ (creates[s] # NoSection \/ (s \in Name /\ Kept(s)))

(* The router's sections as the page shows them. *)
Under(n) == IF Kept(n) THEN [o \in Opt |-> GetBase(n, o)] ELSE NoSection

TypeOK ==
    /\ srv \in Config
    /\ loaded \in BOOLEAN
    /\ values \in Config
    /\ creates \in [Sid -> Content \cup {NoSection}]
    /\ chg \in [Name -> Content]
    /\ delSec \in SUBSET Name
    /\ delOpt \in [Name -> SUBSET Opt]
    /\ dirty \in BOOLEAN
    /\ phase \in {"idle", "flush", "reload"}
    /\ req \in [adds : [Sid -> Content \cup {NoSection}],
                sets : [Name -> Content], dsec : SUBSET Name,
                dopt : [Name -> SUBSET Opt], shown : Config]
    /\ todo \in [add : SUBSET Sid, set : SUBSET Name, del : SUBSET Name]
    /\ newName \in [Sid -> Name \cup {NoName}]
    /\ call \in [Caller -> {"none", "sent", "got"}]
    /\ got \in [Caller -> Config]
    /\ clean \in BOOLEAN
    /\ touched \in SUBSET (Sid \X Opt)
    /\ drift \in BOOLEAN
    /\ epoch \in Nat
    /\ used \in [{"edits", "saves", "loads", "foreign", "faults"} -> Nat]

(* Map.insertInto: the form appears when its package has been fetched. *)
Init ==
    /\ srv \in Config
    /\ loaded = FALSE
    /\ values = NoConfig
    /\ creates = NoCreates
    /\ chg = NoChanges
    /\ delSec = {}
    /\ delOpt = NoDeletes
    /\ dirty = FALSE
    /\ phase = "idle"
    /\ req = NoReq
    /\ todo = Nothing
    /\ newName = NoNames
    /\ call = [p \in Caller |-> IF p = "map" THEN "sent" ELSE "none"]
    /\ got = [p \in Caller |-> NoConfig]
    /\ clean = FALSE
    /\ touched = {}
    /\ drift = FALSE
    /\ epoch = 0
    /\ used = [k \in {"edits", "saves", "loads", "foreign", "faults"} |-> 0]

(* L.ui.loading(true): the form takes no input while its package is        *)
(* fetched or saved.  Only one save is under way at a time.                *)
Overlay == phase # "idle" \/ call["map"] # "none"

-----------------------------------------------------------------------------
(* Editing.  handleSID offers a typed name only when get() finds no        *)
(* section of that name; createSID draws until the id is new.              *)
Edit(places) ==
        /\ ~Overlay
        /\ Count("edits")
        /\ dirty' = TRUE
        /\ touched' = touched \cup places
        /\ UNCHANGED <<srv, loaded, values, saveVars, callVars, drift, epoch>>

Add(s) ==
    /\ Edit({s} \X Opt)
    /\ creates[s] = NoSection
    /\ s \in Typed => ~(loaded /\ values[s] # NoSection)
    /\ creates' = [creates EXCEPT ![s] = Blank]
    /\ UNCHANGED <<chg, delSec, delOpt>>

(* Mutant of Remove: without the else, a section of the router goes too.   *)
RemoveBoth(s) ==
    /\ Edit({s} \X Opt)
    /\ Listed(s) /\ s \in Name
    /\ creates' = [creates EXCEPT ![s] = NoSection]
    /\ chg' = [chg EXCEPT ![s] = Blank]
    /\ delSec' = delSec \cup {s}
    /\ delOpt' = [delOpt EXCEPT ![s] = {}]

Remove(s) ==
    /\ Edit({s} \X Opt)
    /\ Listed(s)
    /\ \/ /\ creates[s] # NoSection
          /\ creates' = [creates EXCEPT ![s] = NoSection]
          /\ UNCHANGED <<chg, delSec, delOpt>>
       \/ /\ creates[s] = NoSection
          /\ chg' = [chg EXCEPT ![s] = Blank]
          /\ delSec' = delSec \cup {s}
          /\ delOpt' = [delOpt EXCEPT ![s] = {}]
          /\ UNCHANGED creates

(* Mutant of Set: a pending deletion is not taken back. *)
SetOver(s, o, v) ==
    /\ Edit({<<s, o>>})
    /\ creates[s] = NoSection
    /\ s \in Name /\ Kept(s)
    /\ chg' = [chg EXCEPT ![s] = [chg[s] EXCEPT ![o] = v]]
    /\ UNCHANGED <<creates, delSec, delOpt>>

(* set() with a value: in an added section at once; in a section of the    *)
(* router as a pending change that takes back a pending deletion.          *)
Set(s, o, v) ==
    /\ Edit({<<s, o>>})
    /\ \/ /\ creates[s] # NoSection
          /\ creates' = [creates EXCEPT ![s] = [creates[s] EXCEPT ![o] = v]]
          /\ UNCHANGED <<chg, delOpt>>
       \/ /\ creates[s] = NoSection
          /\ s \in Name /\ Kept(s)
          /\ chg' = [chg EXCEPT ![s] = [chg[s] EXCEPT ![o] = v]]
          /\ delOpt' = [delOpt EXCEPT ![s] = delOpt[s] \ {o}]
          /\ UNCHANGED creates
    /\ UNCHANGED delSec

(* set() without a value; a pending change of the option stays pending. *)
Unset(s, o) ==
    /\ Edit({<<s, o>>})
    /\ \/ /\ creates[s] # NoSection
          /\ creates' = [creates EXCEPT ![s] = [creates[s] EXCEPT ![o] = None]]
          /\ UNCHANGED delOpt
       \/ /\ creates[s] = NoSection
          /\ s \in Name /\ Kept(s)
          /\ delOpt' = [delOpt EXCEPT ![s] = delOpt[s] \cup {o}]
          /\ UNCHANGED creates
    /\ UNCHANGED <<chg, delSec>>

-----------------------------------------------------------------------------
(* Mutant of Unload: pending changes survive. *)
UnloadSome ==
    /\ loaded' = FALSE
    /\ values' = NoConfig
    /\ creates' = NoCreates
    /\ delSec' = {}
    /\ delOpt' = NoDeletes
    /\ dirty' = FALSE
    /\ touched' = {}
    /\ UNCHANGED chg

(* Mutant of Unload: the fetched package survives. *)
UnloadPending ==
    /\ creates' = NoCreates
    /\ chg' = NoChanges
    /\ delSec' = {}
    /\ delOpt' = NoDeletes
    /\ dirty' = FALSE
    /\ touched' = {}
    /\ UNCHANGED <<loaded, values>>

(* unload(): the package and everything pending for it are forgotten. *)
Unload ==
    /\ loaded' = FALSE
    /\ values' = NoConfig
    /\ creates' = NoCreates
    /\ chg' = NoChanges
    /\ delSec' = {}
    /\ delOpt' = NoDeletes
    /\ dirty' = FALSE
    /\ touched' = {}

Late(p) == \E q \in Caller \ {p} : call[q] # "none"

(* Map.reset: revert() and fetch again. *)
Reset ==
    /\ ~Overlay
    /\ Count("loads")
    /\ Unload
    /\ call' = [call EXCEPT !["map"] = "sent"]
    /\ drift' = Late("map")
    /\ epoch' = epoch + 1
    /\ UNCHANGED <<srv, saveVars, got>>

(* load() by the refresh timer of a view: a package that is loaded is not  *)
(* asked for.                                                              *)
TimerLoad ==
    /\ ~loaded
    /\ call["timer"] = "none"
    /\ Count("loads")
    /\ call' = [call EXCEPT !["timer"] = "sent"]
    /\ UNCHANGED <<srv, cacheVars, saveVars, got, touched, drift, epoch>>

LoadExec(p) ==
    /\ call[p] = "sent"
    /\ call' = [call EXCEPT ![p] = "got"]
    /\ got' = [got EXCEPT ![p] = srv]
    /\ UNCHANGED <<srv, cacheVars, saveVars, touched, drift, epoch, used>>

(* A get answered with an error status is a package without sections. *)
LoadRefused(p) ==
    /\ call[p] = "sent"
    /\ Count("faults")
    /\ call' = [call EXCEPT ![p] = "got"]
    /\ got' = [got EXCEPT ![p] = NoConfig]
    /\ drift' = TRUE
    /\ UNCHANGED <<srv, cacheVars, saveVars, touched, epoch>>

AfterLoad(p) ==
    /\ call' = [call EXCEPT ![p] = "none"]
    /\ got' = [got EXCEPT ![p] = NoConfig]
    /\ IF p = "save"
       THEN /\ phase' = "idle"
            /\ req' = NoReq
            /\ newName' = NoNames
            /\ clean' = FALSE
       ELSE UNCHANGED <<phase, req, newName, clean>>
    /\ UNCHANGED <<srv, creates, chg, delSec, delOpt, dirty, todo, touched,
                   drift>>

(* The answer replaces what is cached, whatever was cached meanwhile. *)
LoadDone(p) ==
    /\ call[p] = "got"
    /\ loaded' = TRUE
    /\ values' = got[p]
    /\ epoch' = epoch + 1
    /\ AfterLoad(p)
    /\ UNCHANGED used

(* Mutant of LoadLost: a failed connection runs no callback. *)
LoadStuck(p) ==
    /\ call[p] # "none"
    /\ Count("faults")
    /\ call' = [call EXCEPT ![p] = "lost"]
    /\ UNCHANGED <<srv, cacheVars, saveVars, got, touched, drift, epoch>>

(* A batch that fails resolves with no responses: nothing is cached. *)
LoadLost(p) ==
    /\ call[p] # "none"
    /\ Count("faults")
    /\ AfterLoad(p)
    /\ UNCHANGED <<loaded, values, epoch>>

-----------------------------------------------------------------------------
(* A bound: Drawn stands for a supply of names that never runs out. *)
NamesLeft ==
    Cardinality({s \in Temp : creates[s] # NoSection})
        <= Cardinality({n \in Drawn : srv[n] = NoSection})

(* save(): one batch, the adds first, then the sets, then the deletes. *)
Save ==
    /\ ~Overlay
    /\ dirty /\ NamesLeft
    /\ Count("saves")
    /\ phase' = "flush"
    /\ req' = [adds |-> creates, sets |-> chg, dsec |-> delSec,
               dopt |-> delOpt, shown |-> [n \in Name |-> Under(n)]]
    /\ todo' = [add |-> {s \in Sid : creates[s] # NoSection},
                set |-> {n \in Name : chg[n] # Blank},
                del |-> delSec \cup {n \in Name : delOpt[n] # {}}]
    /\ newName' = NoNames
    /\ clean' = (/\ loaded /\ ~drift
                 /\ \A n \in Name : creates[n] # NoSection => values[n] = NoSection)
    /\ UNCHANGED <<srv, cacheVars, callVars, touched, drift, epoch>>

(* The router executes the calls of the batch in order; an add without a   *)
(* name gets one that is free.                                             *)
ExecAdd(s) ==
    /\ phase = "flush"
    /\ s \in todo.add
    /\ \E n \in Name :
          /\ IF s \in Name THEN n = s ELSE n \in Drawn /\ srv[n] = NoSection
          /\ srv' = [srv EXCEPT ![n] =
                        IF srv[n] = NoSection THEN req.adds[s]
                        ELSE Merge(srv[n], req.adds[s])]
          /\ newName' = [newName EXCEPT ![s] = n]
    /\ todo' = [todo EXCEPT !.add = todo.add \ {s}]
    /\ UNCHANGED <<cacheVars, phase, req, clean, callVars, touched, drift,
                   epoch, used>>

ExecSet(n) ==
    /\ phase = "flush"
    /\ todo.add = {} /\ n \in todo.set
    /\ srv' = [srv EXCEPT ![n] = IF srv[n] = NoSection THEN NoSection
                                 ELSE Merge(srv[n], req.sets[n])]
    /\ todo' = [todo EXCEPT !.set = todo.set \ {n}]
    /\ UNCHANGED <<cacheVars, phase, req, newName, clean, callVars,
                   touched, drift, epoch, used>>

Without(c, os) == [o \in Opt |-> IF o \in os THEN None ELSE c[o]]

(* Mutant of ExecDel: the deletes are sent before the sets. *)
ExecDelFirst(n) ==
    /\ phase = "flush"
    /\ todo.add = {} /\ n \in todo.del
    /\ srv' = [srv EXCEPT ![n] =
                  IF n \in req.dsec \/ srv[n] = NoSection THEN NoSection
                  ELSE Without(srv[n], req.dopt[n])]
    /\ todo' = [todo EXCEPT !.del = todo.del \ {n}]
    /\ UNCHANGED <<cacheVars, phase, req, newName, clean, callVars,
                   touched, drift, epoch, used>>

ExecDel(n) ==
    /\ phase = "flush"
    /\ todo.add = {} /\ todo.set = {} /\ n \in todo.del
    /\ srv' = [srv EXCEPT ![n] =
                  IF n \in req.dsec \/ srv[n] = NoSection THEN NoSection
                  ELSE Without(srv[n], req.dopt[n])]
    /\ todo' = [todo EXCEPT !.del = todo.del \ {n}]
    /\ UNCHANGED <<cacheVars, phase, req, newName, clean, callVars,
                   touched, drift, epoch, used>>

(* A call answered with an error status changes nothing; the responses of  *)
(* sets and deletes are not looked at, that of an add becomes ''.          *)
Refuse ==
    /\ phase = "flush"
    /\ todo # Nothing
    /\ Count("faults")
    /\ \/ \E s \in todo.add : todo' = [todo EXCEPT !.add = todo.add \ {s}]
       \/ /\ todo.add = {}
          /\ \E n \in todo.set : todo' = [todo EXCEPT !.set = todo.set \ {n}]
       \/ /\ todo.add = {} /\ todo.set = {}
          /\ \E n \in todo.del : todo' = [todo EXCEPT !.del = todo.del \ {n}]
    /\ clean' = FALSE
    /\ UNCHANGED <<srv, cacheVars, phase, req, newName, callVars, touched,
                   drift, epoch>>

(* The batch is over: answered in full, or its connection failed and the   *)
(* same callback runs with no responses.  save() forgets what was pending  *)
(* and fetches the package.                                                *)
FlushEnd ==
    /\ phase = "flush"
    /\ \/ /\ todo = Nothing
          /\ UNCHANGED <<clean, used>>
       \/ /\ Count("faults")
          /\ clean' = FALSE
    /\ phase' = "reload"
    /\ todo' = Nothing
    /\ Unload
    /\ call' = [call EXCEPT !["save"] = "sent"]
    /\ drift' = Late("save")
    /\ epoch' = epoch + 1
    /\ UNCHANGED <<srv, req, newName, got>>

(* Another session, or a script of the router, writes the package. *)
Foreign(n) ==
    /\ Count("foreign")
    /\ \E c \in Content \cup {NoSection} :
          /\ c # srv[n]
          /\ n \in Typed \/ srv[n] # NoSection
          /\ srv' = [srv EXCEPT ![n] = c]
    /\ clean' = FALSE
    /\ drift' = TRUE
    /\ UNCHANGED <<cacheVars, phase, req, todo, newName, callVars, touched,
                   epoch>>

-----------------------------------------------------------------------------
Exec == \/ \E s \in Sid : ExecAdd(s)
        \/ \E n \in Name : ExecSet(n) \/ ExecDel(n)

Next ==
    \/ \E s \in Typed \cup Temp : Add(s)
    \/ \E s \in Sid : Remove(s)
    \/ \E s \in Sid, o \in Opt : Unset(s, o) \/ \E v \in Val : Set(s, o, v)
    \/ Reset \/ TimerLoad \/ Save
    \/ \E p \in Caller : LoadExec(p) \/ LoadRefused(p) \/ LoadDone(p) \/ LoadLost(p)
    \/ Exec \/ Refuse \/ FlushEnd
    \/ \E n \in Name : Foreign(n)

(* The router answers every call, or the call ends with the timeout of     *)
(* $.ajax; nothing makes a user or another client act.                     *)
Fairness ==
    /\ WF_vars(Exec)
    /\ WF_vars(FlushEnd)
    /\ \A p \in Caller : WF_vars(LoadExec(p) \/ LoadDone(p))

Spec == Init /\ [][Next]_vars /\ Fairness

-----------------------------------------------------------------------------
(* A save from a page that showed what the router has, and that met no     *)
(* refused call, no lost batch and no other writer,                        *)
(* leaves the router with exactly what the form showed when it was sent:   *)
(* every section of the page with the options it showed, the added ones    *)
(* under the name the router answered, and nothing else.  (save sends the  *)
(* pending tables as adds, sets and deletes, in this order.)               *)
Sent(n) ==
    IF \E s \in Sid : req.adds[s] # NoSection /\ newName[s] = n
    THEN req.adds[CHOOSE s \in Sid : req.adds[s] # NoSection /\ newName[s] = n]
    ELSE req.shown[n]

SaveFaithful ==
    clean /\ phase = "reload" => \A n \in Name : srv[n] = Sent(n)

(* When such a save is over and its package is there again, the page shows *)
(* what it showed when it was saved, the added sections under the names    *)
(* the router answered: no option comes back, none is shown twice or lost, *)
(* whichever of the loads under way ended last.  (save unloads before it   *)
(* loads, so that nothing pending hides what was fetched.)                 *)
SaveRoundTrip ==
    [][clean /\ phase = "reload" /\ phase' = "idle" /\ loaded' /\ ~drift =>
         \A n \in Name : Under(n)' = Sent(n)]_vars

(* Outside a save, and unless another session wrote or an old answer       *)
(* arrived late, what the cache holds is what the router has: also after a *)
(* save that was refused in part or lost.  (save unloads and loads again   *)
(* whatever the batch answered.)                                           *)
CacheFresh == loaded /\ phase = "idle" /\ ~drift => values = srv

Value(c, n, o) == IF c[n] = NoSection THEN None ELSE c[n][o]

(* A batch changes on the router only places this user edited since the    *)
(* package was last fetched or dropped, and fills only sections that were  *)
(* not there: what another session wrote elsewhere stays, and no edit is   *)
(* sent a second time.                                                     *)
OnlyEdited ==
    [][(\E s \in Sid : ExecAdd(s)) \/ (\E n \in Name : ExecSet(n) \/ ExecDel(n)) =>
         \A n \in Name, o \in Opt :
             Value(srv', n, o) # Value(srv, n, o) =>
                 <<n, o>> \in touched \/ srv[n] = NoSection]_vars

(* The cache implements the two-layer document: every edit changes one     *)
(* place of one layer as the form sees it through get() and sections(),    *)
(* and only a fetch or an unload changes more.                             *)
UnderLayer == [s \in Sid |-> IF s \in Name THEN Under(s) ELSE NoSection]

Doc == INSTANCE ConfigDoc WITH fresh <- creates, under <- UnderLayer

DocSpec == Doc!Spec

(* What the form reads back is what was last written, whatever was set,    *)
(* unset and set again before.  (get looks at deletes, changes and values  *)
(* in this order, set and unset keep all three.)                           *)
ReadYourWrites ==
    [][\A s \in Sid, o \in Opt :
          /\ Unset(s, o) => Get(s, o)' = None
          /\ \A v \in Val : Set(s, o, v) => Get(s, o)' = v]_vars

(* The overlay that blocks the page while a package is fetched or saved    *)
(* goes away, also when calls are refused and answers are lost.  (rpc.js   *)
(* runs one callback for answers and failures.)                            *)
OverlayEnds == Overlay ~> ~Overlay
=============================================================================
