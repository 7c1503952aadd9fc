----------------------------- MODULE MCProposals -----------------------------
(* Single messages, batches over the funds of two rules, and one batch of  *)
(* every kind that a batch can carry through to the executor.              *)
EXTENDS Proposals

Msg(k, o) == [kind |-> k, owner |-> o]
Single(k, o) == [batch |-> FALSE, msgs |-> <<Msg(k, o)>>]

InOrder ==
  <<"cash/send", "escrow/release", "escrow/updateParties", "validators/applyDiff",
    "distribution/create", "distribution/distribute", "distribution/reset",
    "gov/updateElectorate", "gov/updateElectionRule", "gov/createTextResolution">>

MCPayloads ==
  {Single("multisig/update", "r1"), Single("aswap/release", "r1"),
   Single("distribution/reset", "r1"),
   [batch |-> TRUE, msgs |-> [i \in DOMAIN InOrder |-> Msg(InOrder[i], "r1")]],
   [batch |-> TRUE, msgs |-> <<Msg("cash/send", "r1"), Msg("currency/create", "r1"), Msg("escrow/release", "r1")>>],
   [batch |-> TRUE, msgs |-> <<Msg("distribution/reset", "r1"), Msg("cash/send", "r2")>>]}
=============================================================================
