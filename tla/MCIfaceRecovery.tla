--------------------------- MODULE MCIfaceRecovery ---------------------------
(* Instances of IfaceRecovery for TLC.                                      *)
EXTENDS IfaceRecovery

(* The ladder of /etc/config/modem: ModemRecycle, SimSwitch, BoardRecycle.  *)
ShippedCmd == [r \in Rungs |-> CASE r = 1 -> "ModemRecycle"
                                 [] r = 2 -> "SimSwitch"
                                 [] r = 3 -> "BoardRecycle"]
TwoTries == [r \in Rungs |-> IF r = 1 THEN 2 ELSE 1]
OneTry   == [r \in Rungs |-> 1]
OnePoll  == [r \in Rungs |-> 1]
MixedPolls == [r \in Rungs |-> IF r = 1 THEN 2 ELSE 1]
=============================================================================
