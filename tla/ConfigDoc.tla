------------------------------ MODULE ConfigDoc ------------------------------
(***************************************************************************)
(* What the editing calls of the web interface's configuration cache       *)
(* promise to a form: a document of two layers, the sections of the router *)
(* (under) and the sections added here and not yet sent (fresh).  An edit  *)
(* changes one place of one layer; everything may change only when a       *)
(* package is fetched or dropped (epoch).                                  *)
(***************************************************************************)
EXTENDS Naturals

CONSTANTS Sid,        \* section ids, of the router and of this page
          Opt, Val,   \* options of a section and their values
          None,       \* the option is not there
          NoSection   \* the section is not there

VARIABLES fresh, under, epoch

docVars == <<fresh, under, epoch>>

Content == [Opt -> Val \cup {None}]
Blank   == [o \in Opt |-> None]
Layer   == [Sid -> Content \cup {NoSection}]

Init ==
    /\ fresh = [s \in Sid |-> NoSection]
    /\ under \in Layer
    /\ epoch = 0

(* An option of a section gets a value or loses it; an added section       *)
(* hides one of the router that has its name.                              *)
Put(s, o, v) ==
    /\ \/ /\ fresh[s] # NoSection
          /\ fresh' = [fresh EXCEPT ![s] = [fresh[s] EXCEPT ![o] = v]]
          /\ UNCHANGED under
       \/ /\ fresh[s] = NoSection
          /\ under[s] # NoSection
          /\ under' = [under EXCEPT ![s] = [under[s] EXCEPT ![o] = v]]
          /\ UNCHANGED fresh
    /\ UNCHANGED epoch

Create(s) ==
    /\ fresh[s] = NoSection
    /\ fresh' = [fresh EXCEPT ![s] = Blank]
    /\ UNCHANGED <<under, epoch>>

Drop(s) ==
    /\ \/ /\ fresh[s] # NoSection
          /\ fresh' = [fresh EXCEPT ![s] = NoSection]
          /\ UNCHANGED under
       \/ /\ fresh[s] = NoSection
          /\ under[s] # NoSection
          /\ under' = [under EXCEPT ![s] = NoSection]
          /\ UNCHANGED fresh
    /\ UNCHANGED epoch

Fetch ==
    /\ epoch' = epoch + 1
    /\ fresh' \in Layer
    /\ under' \in Layer

Next ==
    \/ \E s \in Sid : Create(s) \/ Drop(s)
    \/ \E s \in Sid, o \in Opt, v \in Val \cup {None} : Put(s, o, v)
    \/ Fetch

Spec == Init /\ [][Next]_docVars
=============================================================================
