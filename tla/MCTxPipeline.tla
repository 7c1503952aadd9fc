----------------------------- MODULE MCTxPipeline -----------------------------
(* A payment of one person, and a contract another one may change. *)
EXTENDS TxPipeline

MCMessages ==
  {[kind |-> "cash/send", owner |-> "bert", participants |-> {}],
   [kind |-> "multisig/update", owner |-> "alice", participants |-> {}]}
=============================================================================
