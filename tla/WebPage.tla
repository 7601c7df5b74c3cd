------------------------------- MODULE WebPage -------------------------------
(***************************************************************************)
(* A page of the web interface: the form of CbiForm, the chain of calls    *)
(* behind its Save button (Map.send), and the application of staged        *)
(* changes (updateChanges, uci.apply), which the router takes back unless  *)
(* the page confirms it in time.  Applying is not part of the chain: it    *)
(* runs on while the chain, or the user, goes on, and ends in a reload of  *)
(* the page.                                                               *)
(*                                                                         *)
(* What is saved is numbered: a configuration is the set of the saves it   *)
(* contains.  Another session applies in between, answers are lost, and    *)
(* the user reloads the page at any time.                                  *)
(***************************************************************************)
EXTENDS CbiForm, FiniteSets

CONSTANTS MaxSends, MaxOthers, MaxFaults, MaxReloads,  \* bounds
          Slots    \* a bound: pending apply() promises of one page

VARIABLES
    stage,   \* where L.ui.load or Map.send is; "ready": the user has the form,
             \* "dead": the page is covered and nothing uncovers it
    sent,    \* saves so far
    staged,  \* saves in the session's changes on the router
    conf,    \* saves in the router's configuration
    snap,    \* saves in the snapshot of the apply that waits for its confirm
    guard,   \* whose apply this is: "none", "page", "other"
    latest,  \* ghost: saves of the latest apply of this session
    polls,   \* the apply() promises of this page
    batch,   \* ghost: the saves whose fate the answer to a promise tells
    told,    \* the alert shown last on this page: "none", "ok", "error"
    kept,    \* ghost: saves announced as applied
    used     \* others, faults, reloads so far

routerVars == <<staged, conf, snap, guard, latest>>
pollVars   == <<polls, batch, told, kept>>
pageVars   == <<stage, sent, routerVars, pollVars, used>>
vars       == <<formVars, pageVars>>

Saves == 1..MaxSends
Slot  == 1..Slots
Stage == {"boot", "open", "load", "ready", "save", "changes", "commit", "dead"}
Poll  == {"off", "apply", "wait", "yes"}

Bound == [others |-> MaxOthers, faults |-> MaxFaults, reloads |-> MaxReloads]

ASSUME PageAssumption == MaxSends \in Nat /\ Slots \in Nat

Count(k) == /\ used[k] < Bound[k]
            /\ used' = [used EXCEPT ![k] = used[k] + 1]

NoPolls == [i \in Slot |-> "off"]
NoBatch == [i \in Slot |-> {}]

TypeOK ==
    /\ FormTypeOK
    /\ stage \in Stage
    /\ sent \in 0..MaxSends
    /\ staged \in SUBSET Saves
    /\ conf \in SUBSET Saves
    /\ snap \in SUBSET Saves
    /\ guard \in {"none", "page", "other"}
    /\ latest \in SUBSET Saves
    /\ polls \in [Slot -> Poll]
    /\ batch \in [Slot -> SUBSET Saves]
    /\ told \in {"none", "ok", "error"}
    /\ kept \in SUBSET Saves
    /\ used \in [{"others", "faults", "reloads"} -> Nat]

Init ==
    /\ FormInit
    /\ stage = "boot"
    /\ sent = 0
    /\ staged = {}
    /\ conf = {}
    /\ snap = {}
    /\ guard = "none"
    /\ latest = {}
    /\ polls = NoPolls
    /\ batch = NoBatch
    /\ told = "none"
    /\ kept = {}
    /\ used = [k \in {"others", "faults", "reloads"} |-> 0]

-----------------------------------------------------------------------------
(* The user at the form. *)
Type(f, v) ==
    /\ stage = "ready"
    /\ handleValidate(f, v)
    /\ UNCHANGED pageVars

AddSection ==
    /\ stage = "ready"
    /\ handleAdd
    /\ UNCHANGED pageVars

(* Reset, or another view: the form goes, the promises of apply stay. *)
Leave(next) ==
    /\ stage = "ready"
    /\ stage' = next
    /\ redraw(Blank)
    /\ UNCHANGED <<sent, routerVars, pollVars, used>>

Reset      == Leave("load")
changeView == Leave("open")

(* Map.send: a form with errors is only marked; one without is saved into  *)
(* the cache, and the page is blocked until the chain ends.                *)
Send ==
    /\ stage = "ready"
    /\ err' = Errors(form)
    /\ off' = Hidden(form, off)
    /\ IF Accepted(form, off)
       THEN /\ sent < MaxSends
            /\ sent' = sent + 1
            /\ store' = Saved(store, form, off')
            /\ stage' = "save"
            /\ told' = "none"
       ELSE UNCHANGED <<sent, store, stage, told>>
    /\ UNCHANGED <<form, routerVars, polls, batch, kept, used>>

(* uci.save: the batch is staged, or lost with its answer or before.  The  *)
(* form is covered from here on and then drawn anew, whatever it holds.    *)
SaveDone ==
    /\ stage = "save"
    /\ stage' = "changes"
    /\ \/ /\ staged' = staged \cup {sent}
          /\ UNCHANGED used
       \/ /\ Count("faults")
          /\ UNCHANGED staged
    /\ redraw(Blank)
    /\ UNCHANGED <<sent, conf, snap, guard, latest, pollVars>>

(* updateChanges: staged changes are applied, and nothing waits for that.  *)
(* An answer that is lost reads as no changes.                             *)
Apply ==
    \E i \in Slot :
        /\ polls[i] = "off" /\ \A j \in 1..(i-1) : polls[j] # "off"
        /\ polls' = [polls EXCEPT ![i] = "apply"]

(* Mutant: the chain waits for the promise of apply. *)
WaitForApply(next) ==
    /\ \/ /\ staged = {}
          /\ \A i \in Slot : polls[i] = "off"
          /\ stage' = next
          /\ UNCHANGED <<polls, used>>
       \/ /\ staged # {}
          /\ \A i \in Slot : polls[i] = "off"
          /\ Apply
          /\ UNCHANGED <<stage, used>>
       \/ /\ Count("faults")
          /\ stage' = next
          /\ UNCHANGED polls
    /\ UNCHANGED <<formVars, sent, routerVars, batch, told, kept>>

updateChanges(next) ==
    /\ stage' = next
    /\ \/ /\ staged = {}
          /\ UNCHANGED <<polls, used>>
       \/ /\ staged # {}
          /\ Apply
          /\ UNCHANGED used
       \/ /\ Count("faults")
          /\ UNCHANGED polls
    /\ UNCHANGED <<formVars, sent, routerVars, batch, told, kept>>

(* Mutant: only a save applies. *)
BootOnly == stage = "boot" /\ stage' = "open"
            /\ UNCHANGED <<formVars, sent, routerVars, pollVars, used>>

(* L.ui.load does so each time the page is loaded, Map.send after a save;  *)
(* send then runs commit() of the view, most often a script of the router. *)
BootChanges == stage = "boot" /\ updateChanges("open")
SendChanges == stage = "changes" /\ updateChanges("commit")

Commit ==
    /\ stage = "commit"
    /\ stage' = "load"
    /\ UNCHANGED <<formVars, sent, routerVars, pollVars, used>>

(* The script and the template of a view are fetched, at boot the network  *)
(* cache before them.  None of these has a callback for a failed           *)
(* connection: the page stays covered.                                     *)
Open ==
    /\ stage = "open"
    /\ \/ /\ stage' = "load"
          /\ UNCHANGED used
       \/ /\ Count("faults")
          /\ stage' = "dead"
    /\ UNCHANGED <<formVars, sent, routerVars, pollVars>>

(* The package is there again, with whatever was stored meanwhile. *)
Load ==
    /\ stage = "load"
    /\ stage' = "ready"
    /\ \E s \in Content : redraw(s)
    /\ UNCHANGED <<sent, routerVars, pollVars, used>>

-----------------------------------------------------------------------------
(* The page is loaded anew: its promises and what was typed are gone. *)
Restart ==
    /\ stage' = "boot"
    /\ polls' = NoPolls
    /\ batch' = NoBatch
    /\ redraw(Blank)
    /\ UNCHANGED <<sent, routerVars>>

Reload ==
    /\ Count("reloads")
    /\ Restart
    /\ told' = "none"
    /\ UNCHANGED kept

(* Mutant: a refused apply drops what was staged. *)
RevertOnError(i) ==
    /\ polls[i] = "apply"
    /\ polls' = [polls EXCEPT ![i] = IF guard = "none" THEN "wait" ELSE "off"]
    /\ told' = IF guard = "none" THEN told ELSE "error"
    /\ staged' = {}
    /\ IF guard = "none"
       THEN /\ conf' = conf \cup staged
            /\ snap' = conf
            /\ latest' = staged
            /\ guard' = "page"
       ELSE UNCHANGED <<conf, snap, latest, guard>>
    /\ UNCHANGED <<formVars, stage, sent, batch, kept, used>>

(* The router accepts an apply when no other waits for its confirm; an     *)
(* answer that is lost reads as a refusal.                                 *)
ApplyExec(i) ==
    /\ polls[i] = "apply"
    /\ \/ /\ guard = "none"
          /\ conf' = conf \cup staged
          /\ snap' = conf
          /\ latest' = staged
          /\ staged' = {}
          /\ guard' = "page"
          /\ \/ /\ polls' = [polls EXCEPT ![i] = "wait"]
                /\ UNCHANGED <<told, used>>
             \/ /\ Count("faults")
                /\ polls' = [polls EXCEPT ![i] = "off"]
                /\ told' = "error"
       \/ /\ \/ guard # "none" /\ UNCHANGED used
             \/ Count("faults")
          /\ polls' = [polls EXCEPT ![i] = "off"]
          /\ told' = "error"
          /\ UNCHANGED routerVars
    /\ UNCHANGED <<formVars, stage, sent, batch, kept>>

(* Mutant: the answer to the confirm is not looked at. *)
BlindConfirm(i) ==
    /\ polls[i] = "wait"
    /\ guard' = IF guard = "page" THEN "none" ELSE guard
    /\ polls' = [polls EXCEPT ![i] = "yes"]
    /\ batch' = [batch EXCEPT ![i] = latest]
    /\ UNCHANGED <<formVars, stage, sent, staged, conf, snap, latest, told, kept,
                   used>>

(* try_confirm: asked after a second and then four times a second; the     *)
(* router accepts it while an apply of this session waits.                 *)
Confirm(i) ==
    /\ polls[i] = "wait"
    /\ guard = "page"
    /\ guard' = "none"
    /\ \/ /\ polls' = [polls EXCEPT ![i] = "yes"]
          /\ batch' = [batch EXCEPT ![i] = latest]
          /\ UNCHANGED used
       \/ Count("faults") /\ UNCHANGED <<polls, batch>>
    /\ UNCHANGED <<formVars, stage, sent, staged, conf, snap, latest, told, kept>>

(* The promise resolves: an alert, and the page is loaded again. *)
Resolve(i) ==
    /\ polls[i] = "yes"
    /\ kept' = kept \cup batch[i]
    /\ told' = "ok"
    /\ Restart
    /\ UNCHANGED used

(* No confirm in time: the configuration of before is back, and what was   *)
(* applied is staged again.                                                *)
Rollback ==
    /\ guard # "none"
    /\ guard' = "none"
    /\ conf' = snap
    /\ staged' = IF guard = "page" THEN staged \cup latest ELSE staged
    /\ UNCHANGED <<formVars, stage, sent, snap, latest, pollVars, used>>

(* Another session applies, and confirms. *)
OtherApply ==
    /\ guard = "none"
    /\ Count("others")
    /\ guard' = "other"
    /\ snap' = conf
    /\ UNCHANGED <<formVars, stage, sent, staged, conf, latest, pollVars>>

OtherConfirm ==
    /\ guard = "other"
    /\ guard' = "none"
    /\ UNCHANGED <<formVars, stage, sent, staged, conf, snap, latest, pollVars,
                   used>>

-----------------------------------------------------------------------------
Chain == SaveDone \/ BootChanges \/ SendChanges \/ Commit \/ Open \/ Load

Next ==
    \/ \E f \in Field : \E v \in Offer[f] : Type(f, v)
    \/ AddSection \/ Reset \/ changeView \/ Send \/ Chain \/ Reload
    \/ \E i \in Slot : ApplyExec(i) \/ Confirm(i) \/ Resolve(i)
    \/ Rollback \/ OtherApply \/ OtherConfirm

(* Every call is answered or times out and the promises run their          *)
(* callbacks; the router's timer ends every apply that nobody confirms.    *)
Fairness ==
    /\ WF_vars(Chain)
    /\ \A i \in Slot : WF_vars(ApplyExec(i)) /\ WF_vars(Resolve(i))
    /\ \A i \in Slot : WF_vars(Confirm(i))
    /\ WF_vars(Rollback \/ OtherConfirm)

Spec == Init /\ [][Next]_vars /\ Fairness

-----------------------------------------------------------------------------
(* A field is shown exactly when what the page holds meets its             *)
(* dependencies, whatever was typed, added, loaded or sent before, unless  *)
(* a field it depends on shows an error.  (Only a valid field toggles      *)
(* those that depend on it, and these theirs.)                             *)
DepsShown ==
    \A f \in Field :
        Deps[f] # {} /\ (\A g \in Controls[f] : ~err[g]) =>
            (off[f] <=> ~Holds(form, f))

(* What leaves the page is valid and is what the user saw: every field     *)
(* shown is accepted by its datatype and is in the cache as shown; only a  *)
(* field emptied over an initial value is stored as nothing.               *)
(* (validate before save; handleAdd has saved without validation.)         *)
SentValid ==
    stage = "save" =>
        \A f \in Field : ~off[f] =>
            /\ form[f] \in Valid[f]
            /\ ucivalue(store, f) = form[f] \/ (form[f] = None /\ store[f] = None)

(* Save sends the fields the user sees: validating all of them once more   *)
(* neither hides nor shows one, unless a field it depends on is in error,  *)
(* and then that field is hidden, or the save would be refused.  (validate *)
(* and toggle run for every field after the user's last change.)           *)
SeenIsSent ==
    [][stage = "ready" /\ stage' = "save" =>
         \A f \in Field : off'[f] # off[f] =>
             \E g \in Controls[f] : err[g] /\ off'[g]]_vars

(* Adding a section loses nothing the user has typed in a field he sees,   *)
(* accepted by its datatype or not: only a field he emptied shows its      *)
(* initial value again.  (handleAdd saves all fields before it draws.)     *)
AddKeeps ==
    [][AddSection =>
         \A f \in Field :
             ~off[f] /\ ~(form[f] = None /\ Initial[f] # None) =>
                 form'[f] = form[f]]_vars

(* A save that has reached the router is not lost: it is staged or in the  *)
(* configuration, whatever is refused, rolled back, confirmed late or      *)
(* applied by another session, and wherever the user goes meanwhile.       *)
(* (apply and try_confirm leave what is staged alone.)                     *)
StagedKept ==
    [][staged \cup conf \subseteq staged' \cup conf']_vars

(* Saves announced as applied stay in the configuration: no later rollback *)
(* takes them back, that of another session or of a save whose page was    *)
(* left included.  (An apply resolves only on an accepted confirm.)        *)
AnnouncedKept == kept \subseteq conf

(* The page is never blocked for ever, although an apply may poll without  *)
(* end and calls are lost, unless what is lost is a part of the view that  *)
(* is being opened.  (updateChanges does not return the promise of apply;  *)
(* every other call of the chain gets on without its answer.)              *)
ChainEnds == stage # "ready" ~> stage \in {"ready", "dead"}

(* Without faults, the changes of every save are applied, or the user is   *)
(* told that they were not, also when the page is loaded again between     *)
(* the two steps.  (Each load of the page applies what is staged.)         *)
StagedApplied ==
    \A n \in Saves : n \in staged ~> \/ n \in latest
                                     \/ told = "error"
                                     \/ used["faults"] > 0
=============================================================================
