------------------------------ MODULE MCDataCap ------------------------------
(* Instances of DataCap for TLC.                                            *)
EXTENDS DataCap

Limits == [s \in Sims |-> 3]
=============================================================================
