---------------------------- MODULE RecoveryLadder ----------------------------
(***************************************************************************)
(* What the action manager promises: woken by an outage, it waits for the  *)
(* link to come back by itself and then makes the attempts it is given,    *)
(* one level after the other, until the status is up or none is left.      *)
(* Nothing is said of queues, files, polls or loop counters.               *)
(***************************************************************************)
EXTENDS Naturals

CONSTANTS
  Levels,   \* 1..n
  Given     \* Given[l]: attempts given to level l

VARIABLES
  phase,    \* "idle", "waiting" or "acting"
  made,     \* made[l]: attempts made on level l in this run
  up        \* is the interface recorded as up

vars == <<phase, made, up>>

NoneMade == [l \in Levels |-> 0]

Init == phase = "idle" /\ made = NoneMade /\ up = FALSE

Wake == phase = "idle" /\ phase' = "waiting" /\ UNCHANGED <<made, up>>

(* The wait ends without a recovery.                                        *)
Act == phase = "waiting" /\ phase' = "acting" /\ UNCHANGED <<made, up>>

(* The next attempt is on the lowest level that has one left.               *)
Attempt(l) ==
  /\ phase = "acting"
  /\ made[l] < Given[l]
  /\ \A k \in Levels : k < l => made[k] = Given[k]
  /\ made' = [made EXCEPT ![l] = @ + 1]
  /\ UNCHANGED <<phase, up>>

(* During the wait a recovery may be noticed before it is recorded; once    *)
(* attempts are made, only the record counts.                               *)
Recovered ==
  /\ phase = "waiting" \/ (phase = "acting" /\ up)
  /\ phase' = "idle" /\ made' = NoneMade
  /\ UNCHANGED up

GiveUp ==
  /\ phase = "acting" /\ made = Given
  /\ phase' = "idle" /\ made' = NoneMade
  /\ UNCHANGED up

Report == up' \in BOOLEAN /\ UNCHANGED <<phase, made>>

Next == \/ Wake \/ Act \/ Recovered \/ GiveUp \/ Report
        \/ \E l \in Levels : Attempt(l)

Spec == Init /\ [][Next]_vars
=============================================================================
