------------------------------- MODULE CbiForm -------------------------------
(***************************************************************************)
(* A form of the web interface (cbi.js): the fields of one section, shown  *)
(* or hidden by the values of other fields, validated as the user types    *)
(* and once more before anything is sent, and saved field by field into    *)
(* the configuration cache.                                                *)
(*                                                                         *)
(* A handler of a field calls the handlers of its dependents, and these    *)
(* theirs.  What such a cascade reaches is a closure (Cascade), and since  *)
(* it changes no value, the order in which it gets there is of no matter.  *)
(***************************************************************************)
EXTENDS Naturals

CONSTANTS Field,     \* the fields of the section
          None,      \* an empty field, an option that is not there
          Offer,     \* what each field can hold: typed, chosen or loaded
          Valid,     \* what the datatype of each field accepts
          Deps,      \* alternatives under which a field is shown: each maps
                     \* some other fields to the values they may have
          Initial,   \* options.initial, or None
          Keep,      \* fields with options.keep
          Decl       \* the order in which the fields are declared

Content == {s \in [Field -> UNION {Offer[f] : f \in Field}] :
                \A f \in Field : s[f] \in Offer[f]}

Controls   == [f \in Field |-> UNION {DOMAIN a : a \in Deps[f]}]
Dependents == [f \in Field |-> {g \in Field : f \in Controls[g]}]

(* depends() drops a field that is not declared yet, and an alternative    *)
(* without fields.                                                         *)
ASSUME FormAssumption ==
    /\ \A f \in Field : /\ None \in Offer[f]
                        /\ Valid[f] \subseteq Offer[f]
                        /\ Initial[f] \in Offer[f]
    /\ Keep \subseteq Field
    /\ Decl \in [Field -> Nat]
    /\ \A f \in Field : \A a \in Deps[f] : DOMAIN a # {}
    /\ \A f \in Field : \A g \in Controls[f] : g \in Field /\ Decl[g] < Decl[f]

VARIABLES
    store,   \* what the configuration cache has for the fields
    form,    \* what the elements of the page hold
    off,     \* instance.disabled: the field is hidden
    err      \* the field shows an error

formVars == <<store, form, off, err>>

FormTypeOK ==
    /\ store \in Content
    /\ form \in Content
    /\ off \in [Field -> BOOLEAN]
    /\ err \in [Field -> BOOLEAN]

-----------------------------------------------------------------------------
(* toggle(): one alternative must be met in full by what the other fields  *)
(* hold, hidden or not.                                                    *)
Holds(w, f) ==
    \/ Deps[f] = {}
    \/ \E a \in Deps[f] : \A g \in DOMAIN a : w[g] \in a[g]

Wrong(w, f) == w[f] \notin Valid[f]

(* The fields whose handlers run when f's does: a field without an error   *)
(* toggles and validates its dependents.                                   *)
Cascade(w, f) ==
    {g \in Field :
        \A S \in SUBSET Field :
            f \in S /\ (\A h \in S : ~Wrong(w, h) => Dependents[h] \subseteq S)
                => g \in S}

(* Mutant: the handler runs on the key before the element has the value. *)
EarlyValidate(f, v) ==
    /\ ~off[f]
    /\ form' = [form EXCEPT ![f] = v]
    /\ LET reached == Cascade(form, f) IN
         /\ err' = [g \in Field |-> IF g \in reached THEN Wrong(form, g)
                                    ELSE err[g]]
         /\ off' = [g \in Field |-> IF g \in reached \ {f} THEN ~Holds(form, g)
                                    ELSE off[g]]
    /\ UNCHANGED store

(* The user changes a field he can see. *)
handleValidate(f, v) ==
    /\ ~off[f]
    /\ form' = [form EXCEPT ![f] = v]
    /\ LET reached == Cascade(form', f) IN
         /\ err' = [g \in Field |-> IF g \in reached THEN Wrong(form', g)
                                    ELSE err[g]]
         /\ off' = [g \in Field |-> IF g \in reached \ {f} THEN ~Holds(form', g)
                                    ELSE off[g]]
    /\ UNCHANGED store

(* validate() of a section runs every handler; hid says what was hidden.   *)
Errors(w)     == [f \in Field |-> Wrong(w, f)]
Hidden(w, hid) ==
    [f \in Field |-> IF \E g \in Controls[f] : ~Wrong(w, g) THEN ~Holds(w, f)
                     ELSE hid[f]]

(* Mutant: send does not look at what validate returns. *)
AcceptAny(w, hid) == TRUE

(* An error in a hidden field does not count. *)
Accepted(w, hid) == \A f \in Field : Wrong(w, f) => Hidden(w, hid)[f]

-----------------------------------------------------------------------------
(* What a field shows of the cache, and what save() of it leaves there.    *)
ucivalue(s, f) == IF s[f] = None THEN Initial[f] ELSE s[f]

(* Mutant: a hidden field is stored as false. *)
SaveFalse(s, w, hid) ==
    [f \in Field |->
        IF hid[f] THEN IF f \in Keep THEN s[f] ELSE FALSE
        ELSE IF w[f] = ucivalue(s, f) THEN s[f] ELSE w[f]]

Saved(s, w, hid) ==
    [f \in Field |->
        IF hid[f] THEN IF f \in Keep THEN s[f] ELSE None
        ELSE IF w[f] = ucivalue(s, f) THEN s[f] ELSE w[f]]

Shown(s) == [f \in Field |-> ucivalue(s, f)]

(* Rendering makes every field new, shown and without error; finish() then *)
(* validates all of them.                                                  *)
redraw(s) ==
    /\ store' = s
    /\ form' = Shown(s)
    /\ err' = Errors(Shown(s))
    /\ off' = Hidden(Shown(s), [f \in Field |-> FALSE])

(* Mutant: the page is drawn again without saving. *)
AddOnly == redraw(store)

(* Adding or removing a section saves the fields of all of them, valid or  *)
(* not, and draws the page again.                                          *)
handleAdd == redraw(Saved(store, form, off))

(* A page whose package is not loaded yet. *)
Blank == [f \in Field |-> None]

FormInit ==
    /\ store = Blank
    /\ form = Shown(Blank)
    /\ err = Errors(Shown(Blank))
    /\ off = Hidden(Shown(Blank), [f \in Field |-> FALSE])
=============================================================================
