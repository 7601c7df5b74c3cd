--------------------------- MODULE WebPage_proofs ---------------------------
(***************************************************************************)
(* Proofs about the form and the page of WebPage: what the form shows,     *)
(* what a save sends, and what an announcement of the page is worth.       *)
(***************************************************************************)
EXTENDS WebPage, TLAPS

-----------------------------------------------------------------------------
(* The form.                                                               *)

(* What is put together field by field out of what the fields offer is a   *)
(* content of the form.                                                    *)
LEMMA ContentByField ==
    ASSUME NEW s, s = [f \in Field |-> s[f]],
           \A f \in Field : s[f] \in Offer[f]
    PROVE  s \in Content
<1>1. \A f \in Field : s[f] \in UNION {Offer[g] : g \in Field}
  OBVIOUS
<1> QED BY <1>1 DEF Content

LEMMA ContentOffered ==
    ASSUME NEW s \in Content
    PROVE  /\ s \in [Field -> UNION {Offer[g] : g \in Field}]
           /\ s = [f \in Field |-> s[f]]
           /\ \A f \in Field : s[f] \in Offer[f]
BY DEF Content

LEMMA BlankContent == Blank \in Content
<1>1. \A f \in Field : Blank[f] \in Offer[f]
  BY FormAssumption DEF Blank
<1>2. Blank = [f \in Field |-> Blank[f]]
  BY DEF Blank
<1> QED BY <1>1, <1>2, ContentByField

LEMMA ShownContent ==
    ASSUME NEW s \in Content
    PROVE  Shown(s) \in Content
<1>1. \A f \in Field : Shown(s)[f] \in Offer[f]
  BY FormAssumption, ContentOffered DEF Shown, ucivalue
<1>2. Shown(s) = [f \in Field |-> Shown(s)[f]]
  BY DEF Shown
<1> QED BY <1>1, <1>2, ContentByField

LEMMA SavedContent ==
    ASSUME NEW s \in Content, NEW w \in Content, NEW hid
    PROVE  Saved(s, w, hid) \in Content
<1>1. \A f \in Field : Saved(s, w, hid)[f] \in Offer[f]
  BY FormAssumption, ContentOffered DEF Saved
<1>2. Saved(s, w, hid) = [f \in Field |-> Saved(s, w, hid)[f]]
  BY DEF Saved
<1> QED BY <1>1, <1>2, ContentByField

LEMMA ErrorsType ==
    ASSUME NEW w
    PROVE  /\ Errors(w) \in [Field -> BOOLEAN]
           /\ \A f \in Field : Errors(w)[f] <=> Wrong(w, f)
BY DEF Errors, Wrong

LEMMA HoldsBoolean ==
    ASSUME NEW w, NEW f
    PROVE  Holds(w, f) \in BOOLEAN
BY DEF Holds

LEMMA HiddenType ==
    ASSUME NEW w, NEW hid \in [Field -> BOOLEAN]
    PROVE  Hidden(w, hid) \in [Field -> BOOLEAN]
BY HoldsBoolean DEF Hidden

(* A field with dependencies has fields to depend on, declared before it.  *)
LEMMA ControlsOther ==
    ASSUME NEW f \in Field
    PROVE  /\ Controls[f] \subseteq Field
           /\ f \notin Controls[f]
           /\ Deps[f] # {} => Controls[f] # {}
           /\ \A a \in Deps[f] : DOMAIN a \subseteq Controls[f]
<1>1. Controls[f] \subseteq Field /\ f \notin Controls[f]
  BY FormAssumption
<1>2. \A a \in Deps[f] : DOMAIN a \subseteq Controls[f]
  BY DEF Controls
<1>3. ASSUME Deps[f] # {} PROVE Controls[f] # {}
  <2>1. PICK a \in Deps[f] : DOMAIN a # {}
    BY <1>3, FormAssumption
  <2> QED BY <1>2, <2>1
<1> QED BY <1>1, <1>2, <1>3

(* Whether a field's dependencies are met is a matter of its controls.     *)
LEMMA HoldsByControls ==
    ASSUME NEW f \in Field, NEW w, NEW x, \A g \in Controls[f] : w[g] = x[g]
    PROVE  Holds(w, f) <=> Holds(x, f)
BY ControlsOther DEF Holds

(* A cascade reaches the field it starts at, and with every field without  *)
(* an error the fields that depend on it.                                  *)
LEMMA CascadeClosed ==
    ASSUME NEW w, NEW f \in Field
    PROVE  /\ f \in Cascade(w, f)
           /\ Cascade(w, f) \subseteq Field
           /\ \A g \in Cascade(w, f) :
                ~Wrong(w, g) => Dependents[g] \subseteq Cascade(w, f)
<1>1. f \in Cascade(w, f) /\ Cascade(w, f) \subseteq Field
  BY DEF Cascade
<1>2. ASSUME NEW g \in Cascade(w, f), ~Wrong(w, g), NEW h \in Dependents[g]
      PROVE  h \in Cascade(w, f)
  <2>1. g \in Field /\ h \in Field
    BY <1>1, <1>2 DEF Dependents
  <2>2. SUFFICES ASSUME NEW S \in SUBSET Field, f \in S,
                        \A k \in S : ~Wrong(w, k) => Dependents[k] \subseteq S
                 PROVE  h \in S
    BY <2>1 DEF Cascade
  <2>3. g \in S
    BY <2>2 DEF Cascade
  <2> QED BY <1>2, <2>2, <2>3
<1> QED BY <1>1, <1>2

(* Errors are shown where there are some, and then DepsShown.              *)
FormInv ==
    /\ FormTypeOK
    /\ \A f \in Field : err[f] <=> Wrong(form, f)
    /\ DepsShown

LEMMA RedrawForm ==
    ASSUME NEW s \in Content, redraw(s)
    PROVE  FormInv'
<1> DEFINE none == [f \in Field |-> FALSE]
<1>1. none \in [Field -> BOOLEAN]
  OBVIOUS
<1>2. FormTypeOK'
  BY <1>1, ShownContent, ErrorsType, HiddenType DEF FormTypeOK, redraw
<1>3. \A f \in Field : err'[f] <=> Wrong(form', f)
  BY ErrorsType DEF redraw
<1>4. ASSUME NEW f \in Field, Deps[f] # {}, \A g \in Controls[f] : ~err'[g]
      PROVE  off'[f] <=> ~Holds(form', f)
  <2>1. \E g \in Controls[f] : ~Wrong(form', g)
    BY <1>3, <1>4, ControlsOther
  <2>2. off'[f] = Hidden(form', none)[f]
    BY DEF redraw
  <2> QED BY <2>1, <2>2 DEF Hidden
<1> QED BY <1>2, <1>3, <1>4 DEF FormInv, DepsShown

LEMMA ValidateForm ==
    ASSUME FormInv, NEW f \in Field, NEW v \in Offer[f], handleValidate(f, v)
    PROVE  FormInv'
<1> DEFINE reached == Cascade(form', f)
<1>1. /\ form \in Content /\ store' = store
      /\ err \in [Field -> BOOLEAN] /\ off \in [Field -> BOOLEAN]
  BY DEF FormInv, FormTypeOK, handleValidate
<1>2. form' = [form EXCEPT ![f] = v] /\ DOMAIN form = Field
  BY <1>1, ContentOffered DEF handleValidate
<1>3. /\ err' = [g \in Field |-> IF g \in reached THEN Wrong(form', g)
                                 ELSE err[g]]
      /\ off' = [g \in Field |-> IF g \in reached \ {f} THEN ~Holds(form', g)
                                 ELSE off[g]]
  BY DEF handleValidate
<1>4. FormTypeOK'
  <2>1. \A g \in Field : form'[g] \in Offer[g]
    BY <1>1, <1>2, ContentOffered
  <2>2. form' = [g \in Field |-> form'[g]]
    BY <1>2
  <2>3. form' \in Content
    BY <2>1, <2>2, ContentByField
  <2>4. err' \in [Field -> BOOLEAN]
    BY <1>1, <1>3 DEF Wrong
  <2>5. off' \in [Field -> BOOLEAN]
    BY <1>1, <1>3, HoldsBoolean
  <2> QED BY <1>1, <2>3, <2>4, <2>5 DEF FormInv, FormTypeOK
<1>5. ASSUME NEW g \in Field PROVE err'[g] <=> Wrong(form', g)
  <2>1. CASE g \in reached
    BY <1>3, <2>1
  <2>2. CASE g \notin reached
    <3>1. g # f
      BY <2>2, CascadeClosed
    <3>2. form'[g] = form[g]
      BY <1>2, <3>1
    <3>3. err'[g] = err[g]
      BY <1>3, <2>2
    <3> QED BY <3>2, <3>3 DEF FormInv, Wrong
  <2> QED BY <2>1, <2>2
<1>6. ASSUME NEW h \in Field, Deps[h] # {}, \A g \in Controls[h] : ~err'[g]
      PROVE  off'[h] <=> ~Holds(form', h)
  <2>1. CASE h \in reached \ {f}
    BY <1>3, <2>1
  <2>2. CASE h \notin reached \ {f}
    <3>1. f \notin Controls[h]
      <4>1. CASE h = f
        BY <4>1, ControlsOther
      <4>2. CASE h # f
        <5>1. SUFFICES ASSUME f \in Controls[h] PROVE FALSE
          OBVIOUS
        <5>2. ~Wrong(form', f)
          BY <1>5, <1>6, <5>1
        <5>3. h \in Dependents[f]
          BY <5>1 DEF Dependents
        <5> QED BY <2>2, <4>2, <5>2, <5>3, CascadeClosed
      <4> QED BY <4>1, <4>2
    <3>2. \A g \in Controls[h] : g \in Field /\ form'[g] = form[g]
      BY <1>2, <3>1, ControlsOther
    <3>3. \A g \in Controls[h] : ~err[g]
      BY <1>5, <1>6, <3>2 DEF FormInv, Wrong
    <3>4. off[h] <=> ~Holds(form, h)
      BY <1>6, <3>3 DEF FormInv, DepsShown
    <3>5. Holds(form', h) <=> Holds(form, h)
      BY <3>2, HoldsByControls
    <3>6. off'[h] = off[h]
      BY <1>3, <2>2
    <3> QED BY <3>4, <3>5, <3>6
  <2> QED BY <2>1, <2>2
<1> QED BY <1>4, <1>5, <1>6 DEF FormInv, DepsShown

(* The second validation of a save changes what is shown only where a       *)
(* field in error controls it.                                             *)
LEMMA SendShows ==
    ASSUME FormInv, Send, stage' # stage, NEW f \in Field, off'[f] # off[f]
    PROVE  \E g \in Controls[f] : err[g] /\ off'[g]
<1>1. /\ Accepted(form, off) /\ off' = Hidden(form, off)
      /\ off \in [Field -> BOOLEAN] /\ off' \in [Field -> BOOLEAN]
  BY HiddenType DEF Send, FormInv, FormTypeOK
<1>2. PICK g \in Controls[f] : ~Wrong(form, g)
  BY <1>1 DEF Hidden
<1>3. off'[f] <=> ~Holds(form, f)
  BY <1>1, <1>2 DEF Hidden
<1>4. Deps[f] # {}
  BY <1>2 DEF Controls
<1>5. PICK h \in Controls[f] : err[h]
  BY <1>1, <1>3, <1>4 DEF FormInv, DepsShown
<1>6. h \in Field
  BY <1>5, ControlsOther
<1>7. Wrong(form, h)
  BY <1>5, <1>6 DEF FormInv
<1> QED BY <1>1, <1>5, <1>6, <1>7 DEF Accepted

(* What was saved from a field the user sees is what is drawn again.       *)
LEMMA AddShows ==
    ASSUME FormInv, handleAdd, NEW f \in Field, ~off[f],
           ~(form[f] = None /\ Initial[f] # None)
    PROVE  form'[f] = form[f]
<1>1. form'[f] = ucivalue(Saved(store, form, off), f)
  BY DEF handleAdd, redraw, Shown
<1>2. CASE form[f] = ucivalue(store, f)
  BY <1>1, <1>2 DEF Saved, ucivalue
<1>3. CASE form[f] # ucivalue(store, f)
  BY <1>1, <1>3 DEF Saved, ucivalue
<1> QED BY <1>2, <1>3

LEMMA SendForm ==
    ASSUME FormInv, Send
    PROVE  /\ FormInv'
           /\ stage' = "save" => stage = "save" \/ SentValid'
<1>1. /\ store \in Content /\ form \in Content /\ form' = form
      /\ off \in [Field -> BOOLEAN]
      /\ err' = Errors(form) /\ off' = Hidden(form, off)
  BY DEF FormInv, FormTypeOK, Send
<1>2. \/ /\ Accepted(form, off)
         /\ store' = Saved(store, form, off')
      \/ store' = store /\ stage' = stage
  BY DEF Send
<1>3. FormTypeOK'
  BY <1>1, <1>2, SavedContent, ErrorsType, HiddenType DEF FormTypeOK
<1>4. \A f \in Field : err'[f] <=> Wrong(form', f)
  BY <1>1, ErrorsType
<1>5. ASSUME NEW f \in Field, Deps[f] # {}, \A g \in Controls[f] : ~err'[g]
      PROVE  off'[f] <=> ~Holds(form', f)
  <2>1. \E g \in Controls[f] : ~Wrong(form, g)
    BY <1>1, <1>4, <1>5, ControlsOther
  <2> QED BY <1>1, <2>1 DEF Hidden
<1>6. ASSUME stage' = "save", stage # "save"
      PROVE  SentValid'
  <2>1. Accepted(form, off) /\ store' = Saved(store, form, off')
    BY <1>2, <1>6
  <2>2. SUFFICES ASSUME NEW f \in Field, ~off'[f]
                 PROVE  /\ form[f] \in Valid[f]
                        /\ \/ ucivalue(store', f) = form[f]
                           \/ form[f] = None /\ store'[f] = None
    BY <1>1 DEF SentValid
  <2>3. form[f] \in Valid[f]
    BY <1>1, <2>1, <2>2 DEF Accepted, Wrong
  <2>4. CASE form[f] = ucivalue(store, f)
    <3>1. store'[f] = store[f]
      BY <2>1, <2>2, <2>4 DEF Saved
    <3> QED BY <2>3, <2>4, <3>1 DEF ucivalue
  <2>5. CASE form[f] # ucivalue(store, f)
    <3>1. store'[f] = form[f]
      BY <2>1, <2>2, <2>5 DEF Saved
    <3> QED BY <2>3, <3>1 DEF ucivalue
  <2> QED BY <2>4, <2>5
<1> QED BY <1>3, <1>4, <1>5, <1>6 DEF FormInv, DepsShown

-----------------------------------------------------------------------------
(* The page.                                                               *)
PageTypeOK ==
    /\ stage \in Stage
    /\ sent \in 0..MaxSends
    /\ staged \in SUBSET Saves
    /\ conf \in SUBSET Saves
    /\ snap \in SUBSET Saves
    /\ guard \in {"none", "page", "other"}
    /\ latest \in SUBSET Saves
    /\ polls \in [Slot -> Poll]
    /\ batch \in [Slot -> SUBSET Saves]
    /\ told \in {"none", "ok", "error"}
    /\ kept \in SUBSET Saves
    /\ used \in [{"others", "faults", "reloads"} -> Nat]

(* What is announced, or about to be, is in the configuration and in what  *)
(* a rollback would put back; what waits for a confirm of this session is  *)
(* in the configuration.                                                   *)
KeptInv ==
    /\ kept \subseteq conf
    /\ guard # "none" => kept \subseteq snap
    /\ guard = "page" => latest \subseteq conf
    /\ \A i \in Slot : polls[i] = "yes" =>
         /\ batch[i] \subseteq conf
         /\ guard # "none" => batch[i] \subseteq snap

SaveNumbered == stage = "save" => sent \in Saves

IInv == FormInv /\ PageTypeOK /\ SentValid /\ KeptInv /\ SaveNumbered

LEMMA TypeSplit == TypeOK <=> FormTypeOK /\ PageTypeOK
BY DEF TypeOK, PageTypeOK

LEMMA CountType ==
    ASSUME used \in [{"others", "faults", "reloads"} -> Nat],
           NEW k \in {"others", "faults", "reloads"}, Count(k)
    PROVE  used' \in [{"others", "faults", "reloads"} -> Nat]
BY DEF Count

LEMMA InitInv == Init => IInv
<1> SUFFICES ASSUME Init PROVE IInv
  OBVIOUS
<1> DEFINE none == [f \in Field |-> FALSE]
<1>1. /\ store = Blank /\ form = Shown(Blank) /\ err = Errors(form)
      /\ off = Hidden(form, none) /\ none \in [Field -> BOOLEAN]
  BY DEF Init, FormInit
<1>2. FormTypeOK
  BY <1>1, BlankContent, ShownContent, ErrorsType, HiddenType DEF FormTypeOK
<1>3. \A f \in Field : err[f] <=> Wrong(form, f)
  BY <1>1, ErrorsType
<1>4. ASSUME NEW f \in Field, Deps[f] # {}, \A g \in Controls[f] : ~err[g]
      PROVE  off[f] <=> ~Holds(form, f)
  <2>1. \E g \in Controls[f] : ~Wrong(form, g)
    BY <1>3, <1>4, ControlsOther
  <2> QED BY <1>1, <2>1 DEF Hidden
<1>5. FormInv
  BY <1>2, <1>3, <1>4 DEF FormInv, DepsShown
<1>6. PageTypeOK
  BY PageAssumption DEF Init, PageTypeOK, Stage, Poll, NoPolls, NoBatch
<1>7. SentValid /\ KeptInv /\ SaveNumbered
  BY DEF Init, SentValid, KeptInv, NoPolls, SaveNumbered
<1> QED BY <1>5, <1>6, <1>7 DEF IInv

(* A step that leaves the form and the stage alone.                        *)
LEMMA SameForm ==
    ASSUME FormInv, SentValid, SaveNumbered,
           UNCHANGED <<store, form, off, err, stage, sent>>
    PROVE  FormInv' /\ SentValid' /\ SaveNumbered'
BY DEF FormInv, FormTypeOK, DepsShown, SentValid, SaveNumbered

(* A step that draws the form anew and does not end in a save.             *)
LEMMA NewForm ==
    ASSUME NEW s \in Content, redraw(s), stage' # "save"
    PROVE  FormInv' /\ SentValid' /\ SaveNumbered'
BY RedrawForm DEF SentValid, SaveNumbered

LEMMA TypeStep ==
    ASSUME IInv, NEW f \in Field, NEW v \in Offer[f], Type(f, v)
    PROVE  IInv'
<1>1. FormInv'
  BY ValidateForm DEF IInv, Type
<1>2. SentValid' /\ SaveNumbered'
  BY DEF Type, SentValid, SaveNumbered, pageVars
<1>3. PageTypeOK' /\ KeptInv'
  BY DEF IInv, Type, PageTypeOK, KeptInv, pageVars, routerVars, pollVars
<1> QED BY <1>1, <1>2, <1>3 DEF IInv

LEMMA AddStep ==
    ASSUME IInv, AddSection
    PROVE  IInv'
<1>1. Saved(store, form, off) \in Content
  BY SavedContent DEF IInv, FormInv, FormTypeOK
<1>2. FormInv' /\ SentValid' /\ SaveNumbered'
  BY <1>1, NewForm DEF AddSection, handleAdd, pageVars
<1>3. PageTypeOK' /\ KeptInv'
  BY DEF IInv, AddSection, PageTypeOK, KeptInv, pageVars, routerVars, pollVars
<1> QED BY <1>2, <1>3 DEF IInv

LEMMA LeaveStep ==
    ASSUME IInv, NEW next \in {"load", "open"}, Leave(next)
    PROVE  IInv'
<1>1. FormInv' /\ SentValid' /\ SaveNumbered'
  <2>1. redraw(Blank) /\ stage' # "save"
    BY DEF Leave
  <2> QED BY <2>1, BlankContent, NewForm
<1>2. PageTypeOK' /\ KeptInv'
  BY DEF IInv, Leave, PageTypeOK, KeptInv, Stage, routerVars, pollVars
<1> QED BY <1>1, <1>2 DEF IInv

LEMMA SendStep ==
    ASSUME IInv, Send
    PROVE  IInv'
<1>1. FormInv'
  BY SendForm DEF IInv
<1>2. SentValid'
  <2>1. stage = "ready"
    BY DEF Send
  <2> QED BY <2>1, SendForm DEF IInv, SentValid
<1>3. PageTypeOK'
  BY PageAssumption
     DEF IInv, Send, PageTypeOK, Stage, routerVars
<1>4. KeptInv' /\ SaveNumbered'
  BY PageAssumption
     DEF IInv, Send, KeptInv, routerVars, SaveNumbered, Saves, PageTypeOK
<1> QED BY <1>1, <1>2, <1>3, <1>4 DEF IInv

LEMMA SaveDoneStep ==
    ASSUME IInv, SaveDone
    PROVE  IInv'
<1>1. FormInv' /\ SentValid' /\ SaveNumbered'
  BY BlankContent, NewForm DEF SaveDone
<1>2. staged' \in SUBSET Saves
  BY DEF IInv, PageTypeOK, SaveDone, SaveNumbered
<1>3. PageTypeOK' /\ KeptInv'
  BY <1>2, CountType DEF IInv, SaveDone, PageTypeOK, KeptInv, Stage, pollVars
<1> QED BY <1>1, <1>3 DEF IInv

LEMMA ChangesStep ==
    ASSUME IInv, NEW next \in {"open", "commit"}, updateChanges(next)
    PROVE  IInv'
<1>1. stage' # "save"
  BY DEF updateChanges
<1>2. FormInv' /\ SentValid' /\ SaveNumbered'
  BY <1>1 DEF IInv, updateChanges, formVars, FormInv, FormTypeOK, DepsShown,
              SentValid, SaveNumbered
<1>3. /\ polls' \in [Slot -> Poll]
      /\ \A i \in Slot : polls'[i] = "yes" => polls[i] = "yes"
  BY DEF IInv, PageTypeOK, updateChanges, Apply, Poll
<1>4. used' \in [{"others", "faults", "reloads"} -> Nat]
  BY CountType DEF IInv, PageTypeOK, updateChanges
<1>5. PageTypeOK'
  BY <1>3, <1>4 DEF IInv, updateChanges, PageTypeOK, Stage, routerVars
<1>6. KeptInv'
  BY <1>3 DEF IInv, updateChanges, KeptInv, routerVars
<1> QED BY <1>2, <1>5, <1>6 DEF IInv

LEMMA CommitStep ==
    ASSUME IInv, Commit
    PROVE  IInv'
<1>1. FormInv' /\ SentValid' /\ SaveNumbered'
  BY DEF IInv, Commit, formVars, FormInv, FormTypeOK, DepsShown, SentValid,
         SaveNumbered
<1>2. PageTypeOK' /\ KeptInv'
  BY DEF IInv, Commit, PageTypeOK, KeptInv, Stage, routerVars, pollVars
<1> QED BY <1>1, <1>2 DEF IInv

LEMMA OpenStep ==
    ASSUME IInv, Open
    PROVE  IInv'
<1>1. FormInv' /\ SentValid' /\ SaveNumbered'
  BY DEF IInv, Open, formVars, FormInv, FormTypeOK, DepsShown, SentValid,
         SaveNumbered
<1>2. used' \in [{"others", "faults", "reloads"} -> Nat]
  BY CountType DEF IInv, PageTypeOK, Open
<1>3. PageTypeOK' /\ KeptInv'
  BY <1>2 DEF IInv, Open, PageTypeOK, KeptInv, Stage, routerVars, pollVars
<1> QED BY <1>1, <1>3 DEF IInv

LEMMA LoadStep ==
    ASSUME IInv, Load
    PROVE  IInv'
<1>1. PICK s \in Content : redraw(s)
  BY DEF Load
<1>2. FormInv' /\ SentValid' /\ SaveNumbered'
  BY <1>1, NewForm DEF Load
<1>3. PageTypeOK' /\ KeptInv'
  BY DEF IInv, Load, PageTypeOK, KeptInv, Stage, routerVars, pollVars
<1> QED BY <1>2, <1>3 DEF IInv

LEMMA RestartStep ==
    ASSUME IInv, Restart,
           kept' = kept \/ \E i \in Slot : polls[i] = "yes" /\ kept' = kept \cup batch[i],
           told' \in {"none", "ok", "error"},
           used' \in [{"others", "faults", "reloads"} -> Nat]
    PROVE  IInv'
<1>1. FormInv' /\ SentValid' /\ SaveNumbered'
  BY BlankContent, NewForm DEF Restart
<1>2. kept' \in SUBSET Saves
  BY DEF IInv, PageTypeOK
<1>3. PageTypeOK'
  BY <1>2 DEF IInv, Restart, PageTypeOK, Stage, Poll, NoPolls, NoBatch, routerVars
<1>4. KeptInv'
  BY DEF IInv, KeptInv, Restart, NoPolls, routerVars
<1> QED BY <1>1, <1>3, <1>4 DEF IInv

LEMMA ReloadStep ==
    ASSUME IInv, Reload
    PROVE  IInv'
<1>1. used' \in [{"others", "faults", "reloads"} -> Nat]
  BY CountType DEF IInv, PageTypeOK, Reload
<1> QED BY <1>1, RestartStep DEF Reload

LEMMA ResolveStep ==
    ASSUME IInv, NEW i \in Slot, Resolve(i)
    PROVE  IInv'
<1>1. used' \in [{"others", "faults", "reloads"} -> Nat]
  BY DEF IInv, PageTypeOK, Resolve
<1> QED BY <1>1, RestartStep DEF Resolve

LEMMA ApplyExecStep ==
    ASSUME IInv, NEW i \in Slot, ApplyExec(i)
    PROVE  IInv'
<1>1. FormInv' /\ SentValid' /\ SaveNumbered'
  BY SameForm DEF IInv, ApplyExec, formVars
<1>2. /\ used' \in [{"others", "faults", "reloads"} -> Nat]
      /\ told' \in {"none", "ok", "error"}
      /\ polls' \in [Slot -> Poll]
      /\ \A j \in Slot : polls'[j] = "yes" => polls[j] = "yes"
  BY CountType DEF IInv, PageTypeOK, ApplyExec, Poll
<1>3. \/ /\ guard = "none" /\ guard' = "page"
         /\ conf' = conf \cup staged /\ snap' = conf
         /\ latest' = staged /\ staged' = {}
      \/ UNCHANGED routerVars
  BY DEF ApplyExec
<1>4. PageTypeOK'
  BY <1>2, <1>3 DEF IInv, ApplyExec, PageTypeOK, routerVars
<1>5. KeptInv'
  BY <1>2, <1>3 DEF IInv, ApplyExec, KeptInv, routerVars
<1> QED BY <1>1, <1>4, <1>5 DEF IInv

LEMMA ConfirmStep ==
    ASSUME IInv, NEW i \in Slot, Confirm(i)
    PROVE  IInv'
<1>1. FormInv' /\ SentValid' /\ SaveNumbered'
  BY SameForm DEF IInv, Confirm, formVars
<1>2. /\ used' \in [{"others", "faults", "reloads"} -> Nat]
      /\ polls' \in [Slot -> Poll]
      /\ batch' \in [Slot -> SUBSET Saves]
  BY CountType DEF IInv, PageTypeOK, Confirm, Poll
<1>3. PageTypeOK'
  BY <1>2 DEF IInv, Confirm, PageTypeOK
<1>4. \A j \in Slot : polls'[j] = "yes" =>
        \/ polls[j] = "yes" /\ batch'[j] = batch[j]
        \/ batch'[j] = latest
  BY DEF IInv, PageTypeOK, Confirm
<1>5. KeptInv'
  BY <1>4 DEF IInv, Confirm, KeptInv
<1> QED BY <1>1, <1>3, <1>5 DEF IInv

(* The steps of the router that no call of this page causes.               *)
LEMMA RouterStep ==
    ASSUME IInv, Rollback \/ OtherApply \/ OtherConfirm
    PROVE  IInv'
<1>1. FormInv' /\ SentValid' /\ SaveNumbered'
  BY SameForm DEF IInv, Rollback, OtherApply, OtherConfirm, formVars
<1>2. used' \in [{"others", "faults", "reloads"} -> Nat]
  BY CountType DEF IInv, PageTypeOK, Rollback, OtherApply, OtherConfirm
<1>3. PageTypeOK'
  BY <1>2 DEF IInv, Rollback, OtherApply, OtherConfirm, PageTypeOK, pollVars
<1>4. KeptInv'
  BY DEF IInv, Rollback, OtherApply, OtherConfirm, KeptInv, pollVars
<1> QED BY <1>1, <1>3, <1>4 DEF IInv

LEMMA NextInv == IInv /\ [Next]_vars => IInv'
<1> SUFFICES ASSUME IInv, [Next]_vars PROVE IInv'
  OBVIOUS
<1>1. CASE \E f \in Field : \E v \in Offer[f] : Type(f, v)
  BY <1>1, TypeStep
<1>2. CASE AddSection \/ Reset \/ changeView \/ Send
  BY <1>2, AddStep, LeaveStep, SendStep DEF Reset, changeView
<1>3. CASE Chain
  BY <1>3, SaveDoneStep, ChangesStep, CommitStep, OpenStep, LoadStep
     DEF Chain, BootChanges, SendChanges
<1>4. CASE Reload
  BY <1>4, ReloadStep
<1>5. CASE \E i \in Slot : ApplyExec(i) \/ Confirm(i) \/ Resolve(i)
  BY <1>5, ApplyExecStep, ConfirmStep, ResolveStep
<1>6. CASE Rollback \/ OtherApply \/ OtherConfirm
  BY <1>6, RouterStep
<1>7. CASE UNCHANGED vars
  BY <1>7 DEF vars, formVars, pageVars, routerVars, pollVars, IInv, FormInv,
              FormTypeOK, DepsShown, PageTypeOK, SentValid, KeptInv,
              SaveNumbered
<1> QED BY <1>1, <1>2, <1>3, <1>4, <1>5, <1>6, <1>7 DEF Next

THEOREM PageInvariant == Spec => []IInv
<1>1. Init => IInv
  BY InitInv
<1>2. IInv /\ [Next]_vars => IInv'
  BY NextInv
<1> QED BY <1>1, <1>2, PTL DEF Spec

-----------------------------------------------------------------------------
(* The variables keep their types (cbi.js, ui.js, uci.js).                 *)
THEOREM PageTypeCorrect == Spec => []TypeOK
<1>1. IInv => TypeOK
  BY TypeSplit DEF IInv, FormInv
<1> QED BY <1>1, PageInvariant, PTL

(* A field is shown exactly when its dependencies are met, for every set   *)
(* of fields and every graph of dependencies that depends() can build      *)
(* (handleValidate, toggle).                                               *)
THEOREM FormShowsDeps == Spec => []DepsShown
<1>1. IInv => DepsShown
  BY DEF IInv, FormInv
<1> QED BY <1>1, PageInvariant, PTL

(* What leaves the page is valid and is what the user saw (Map.send).      *)
THEOREM OnlyValidSent == Spec => []SentValid
<1>1. IInv => SentValid
  BY DEF IInv
<1> QED BY <1>1, PageInvariant, PTL

(* A save announced as applied is never taken back (uci.apply), for any    *)
(* number of saves, promises, reloads, lost answers and other sessions.    *)
THEOREM AnnouncementsHold == Spec => []AnnouncedKept
<1>1. IInv => AnnouncedKept
  BY DEF IInv, KeptInv, AnnouncedKept
<1> QED BY <1>1, PageInvariant, PTL

-----------------------------------------------------------------------------
(* A save shows and sends what the user saw when he pressed the button     *)
(* (Map.send, validate).                                                   *)
THEOREM SendsWhatIsSeen == Spec => SeenIsSent
<1> DEFINE Seen == \A f \in Field : off'[f] # off[f] =>
                     \E g \in Controls[f] : err[g] /\ off'[g]
<1>1. IInv /\ [Next]_vars => [stage = "ready" /\ stage' = "save" => Seen]_vars
  <2> SUFFICES ASSUME IInv, Next, stage = "ready", stage' = "save" PROVE Seen
    BY DEF vars, pageVars
  <2>1. Send
    BY DEF Next, Type, AddSection, Reset, changeView, Leave, Chain, SaveDone,
           BootChanges, SendChanges, updateChanges, Commit, Open, Load, Reload,
           Restart, ApplyExec, Confirm, Resolve, Rollback, OtherApply,
           OtherConfirm, pageVars
  <2> QED BY <2>1, SendShows DEF IInv
<1> QED BY <1>1, PageInvariant, PTL DEF Spec, SeenIsSent

(* Adding a section keeps what the user typed where he sees it (handleAdd). *)
THEOREM AddingKeepsInput == Spec => AddKeeps
<1> DEFINE Keeps == \A f \in Field :
             ~off[f] /\ ~(form[f] = None /\ Initial[f] # None) =>
                 form'[f] = form[f]
<1>1. IInv /\ [Next]_vars => [AddSection => Keeps]_vars
  BY AddShows DEF IInv, AddSection
<1> QED BY <1>1, PageInvariant, PTL DEF Spec, AddKeeps

(* Saving what is saved already changes nothing: the save of handleAdd and  *)
(* that of send may follow each other (save of a field).                   *)
THEOREM SavedTwice ==
    ASSUME NEW s \in Content, NEW w \in Content, NEW hid \in [Field -> BOOLEAN]
    PROVE  Saved(Saved(s, w, hid), w, hid) = Saved(s, w, hid)
<1>1. ASSUME NEW f \in Field
      PROVE  Saved(Saved(s, w, hid), w, hid)[f] = Saved(s, w, hid)[f]
  <2>1. CASE hid[f]
    BY <2>1 DEF Saved
  <2>2. CASE ~hid[f] /\ w[f] = ucivalue(s, f)
    BY <2>2 DEF Saved, ucivalue
  <2>3. CASE ~hid[f] /\ w[f] # ucivalue(s, f)
    BY <2>3 DEF Saved
  <2> QED BY <2>1, <2>2, <2>3
<1> QED BY <1>1 DEF Saved

-----------------------------------------------------------------------------
(* Until the router's timer ends, an apply of this session is the snapshot *)
(* and what was staged, and one of another session is the snapshot.        *)
StagedInv ==
    /\ guard = "page" => conf \subseteq snap \cup latest
    /\ guard = "other" => conf \subseteq snap

LEMMA StagedStep ==
    ASSUME IInv, StagedInv, [Next]_vars
    PROVE  StagedInv' /\ staged \cup conf \subseteq staged' \cup conf'
<1>1. CASE UNCHANGED <<conf, snap, guard, latest>> /\ staged \subseteq staged'
  BY <1>1 DEF StagedInv
<1>2. ASSUME NEW i \in Slot, ApplyExec(i)
      PROVE  StagedInv' /\ staged \cup conf \subseteq staged' \cup conf'
  <2>1. CASE UNCHANGED routerVars
    BY <1>1, <2>1 DEF routerVars
  <2>2. CASE guard = "none" /\ guard' = "page" /\ conf' = conf \cup staged
             /\ snap' = conf /\ latest' = staged
    BY <2>2 DEF StagedInv
  <2> QED BY <1>2, <2>1, <2>2 DEF ApplyExec
<1>3. CASE Rollback
  <2>1. conf \subseteq conf' \cup staged' /\ staged \subseteq staged'
    BY <1>3 DEF Rollback, StagedInv, IInv, PageTypeOK
  <2> QED BY <1>3, <2>1 DEF Rollback, StagedInv
<1>4. CASE OtherApply \/ OtherConfirm \/ \E i \in Slot : Confirm(i)
  BY <1>4 DEF OtherApply, OtherConfirm, Confirm, StagedInv
<1>5. CASE SaveDone
  BY <1>1, <1>5 DEF SaveDone
<1> QED
  BY <1>1, <1>2, <1>3, <1>4, <1>5
     DEF Next, Type, AddSection, Reset, changeView, Leave, Send, Chain,
         BootChanges, SendChanges, updateChanges, Commit, Open, Load, Reload,
         Resolve, Restart, pageVars, routerVars, vars

(* What has reached the router is not lost (uci.apply, updateChanges).      *)
THEOREM NothingStagedIsLost == Spec => StagedKept
<1>1. Init => StagedInv
  BY DEF Init, StagedInv
<1>2. IInv /\ StagedInv /\ [Next]_vars =>
        StagedInv' /\ [staged \cup conf \subseteq staged' \cup conf']_vars
  BY StagedStep
<1> QED BY <1>1, <1>2, PageInvariant, PTL DEF Spec, StagedKept
=============================================================================
