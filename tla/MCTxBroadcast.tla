---------------------------- MODULE MCTxBroadcast ----------------------------
(* Three calls for one transaction, and one whose transaction is broken. *)
EXTENDS TxBroadcast

MCTxOf == [c \in {"s1", "s2", "c1", "c2"} |-> IF c = "c2" THEN "broken" ELSE "t"]
=============================================================================
