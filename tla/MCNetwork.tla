------------------------------ MODULE MCNetwork ------------------------------
(* Model-checking values for Network.                                      *)
EXTENDS Network

Pay == [ip |-> 1, port |-> 8]
=============================================================================
