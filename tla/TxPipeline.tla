------------------------------ MODULE TxPipeline ------------------------------
(***************************************************************************)
(* Transactions made on the command line (cmd/grafaincli).  A command      *)
(* reads transactions and writes one; people keep copies of what the       *)
(* commands wrote, pass them on and sign them one after the other, and     *)
(* somebody submits one of the copies.  A signature is for a content and   *)
(* for the next sequence number of its key at the time of signing.         *)
(***************************************************************************)
EXTENDS Naturals, Sequences, FiniteSets

CONSTANTS
  Keys,       \* private keys; the account of a key has its name
  Messages,   \* what the creating commands write: [kind, owner, participants]
  Batchable,  \* kinds the switch of as-batch names
  Options,    \* kinds as-proposal takes
  Contracts,  \* multisig contracts
  MaxFiles    \* bound: copies that are kept

PlainMessage == [kind : {m.kind : m \in Messages}, owner : Keys, participants : SUBSET Keys]

ASSUME TxPipelineAssumption == MaxFiles \in Nat /\ Messages \subseteq PlainMessage

VARIABLES
  files,  \* transactions somebody has
  seq     \* chain: next sequence number, by key

pipelineVars == <<files, seq>>

(* A new transaction: no fee, no contract, no signature. *)
Bare(form, msgs) == [form |-> form, msgs |-> msgs, fee |-> FALSE, multisig |-> {}, sigs |-> << >>]

Content(tx) == [tx EXCEPT !.sigs = << >>]

(* Mutant: the signatures a transaction has are signed too. *)
GetSignBytesOfAll(tx) == tx

(* Mutant: the message is signed, not the fee and the contracts. *)
GetSignBytesOfMsg(tx) == <<tx.form, tx.msgs>>

GetSignBytes(tx) == Content(tx)

PipelineInit ==
  /\ files = {}
  /\ seq = [k \in Keys |-> 0]

(* writeTx, into a new file; the transactions that were read remain. *)
Command(tx) ==
  /\ Cardinality(files) < MaxFiles /\ tx \notin files
  /\ files' = files \cup {tx}
  /\ UNCHANGED seq

(* send-tokens, release-escrow, create-artifact and their like. *)
Create(m) == Command(Bare("single", <<m>>))

(* with-fee, with-multisig, with-multisig-participant keep the signatures. *)
WithFee(tx) == Command([tx EXCEPT !.fee = TRUE])
WithMultisig(tx, c) == Command([tx EXCEPT !.multisig = @ \cup {c}])
WithParticipant(tx, a) ==
  /\ tx.form = "single" /\ tx.msgs[1].kind = "multisig/update"
  /\ Command([tx EXCEPT !.msgs[1].participants = @ \cup {a}])

(* as-batch and as-proposal drop them. *)
AsBatch(tx, ty) ==
  /\ \A t \in {tx, ty} : t.form = "single" /\ t.msgs[1].kind \in Batchable
  /\ Command(Bare("batch", tx.msgs \o ty.msgs))
AsProposal(tx) ==
  /\ tx.form = "batch" \/ (tx.form = "single" /\ tx.msgs[1].kind \in Options)
  /\ Command(Bare("proposal", tx.msgs))

(* A signature; had is history, what the transaction said to its signer. *)
Signature(tx, k, n) == [key |-> k, over |-> GetSignBytes(tx), seq |-> n, had |-> Content(tx)]

(* sign: a Nonce of its own, hence the committed sequence. *)
Sign(tx, k) == Command([tx EXCEPT !.sigs = Append(@, Signature(tx, k, seq[k]))])

(* The chain's view of a transaction: every signature fits, in their       *)
(* order, and somebody may send what it says: the owners of the messages,  *)
(* anybody a proposal.                                                     *)
Times(tx, k, n) == Cardinality({i \in 1 .. n : tx.sigs[i].key = k})
Verified(tx) ==
  \A i \in DOMAIN tx.sigs :
    /\ tx.sigs[i].over = GetSignBytes(tx)
    /\ tx.sigs[i].seq = seq[tx.sigs[i].key] + Times(tx, tx.sigs[i].key, i - 1)
Signers(tx) == {tx.sigs[i].key : i \in DOMAIN tx.sigs}
Consented(tx) ==
  IF tx.form = "proposal" THEN Signers(tx) # {}
  ELSE \A i \in DOMAIN tx.msgs : tx.msgs[i].owner \in Signers(tx)

Accepted(tx) == Verified(tx) /\ Consented(tx)

(* submit waits for the block; a transaction that is refused changes nothing. *)
Submit(tx) ==
  /\ Accepted(tx)
  /\ seq' = [k \in Keys |-> seq[k] + Times(tx, k, Len(tx.sigs))]
  /\ UNCHANGED files

PipelineNext ==
  \/ \E m \in Messages : Create(m)
  \/ \E tx \in files :
       \/ WithFee(tx) \/ AsProposal(tx) \/ Submit(tx)
       \/ \E c \in Contracts : WithMultisig(tx, c)
       \/ \E k \in Keys : Sign(tx, k) \/ WithParticipant(tx, k)
       \/ \E ty \in files : AsBatch(tx, ty)

PipelineSpec == PipelineInit /\ [][PipelineNext]_pipelineVars
-----------------------------------------------------------------------------
(* What the chain accepts is what its signers had before them, the         *)
(* messages, but also the fee and the contracts, and the owners of the     *)
(* messages are among them, whatever commands ran in between.              *)
AcceptedAsSigned ==
  \A tx \in files : Accepted(tx) =>
    /\ \A i \in DOMAIN tx.sigs : tx.sigs[i].had = Content(tx)
    /\ tx.form # "proposal" =>
         \A i \in DOMAIN tx.msgs : \E j \in DOMAIN tx.sigs : tx.sigs[j].key = tx.msgs[i].owner

(* A transaction is refused only if its content was changed after it was   *)
(* signed, a signer has had another transaction accepted since, one key    *)
(* signed it twice, or an owner has not signed it.  In particular people   *)
(* can sign one after the other.                                           *)
RefusedForCause ==
  \A tx \in files : ~Accepted(tx) =>
    \/ \E i \in DOMAIN tx.sigs :
         tx.sigs[i].had # Content(tx) \/ tx.sigs[i].seq < seq[tx.sigs[i].key]
    \/ \E i, j \in DOMAIN tx.sigs : i # j /\ tx.sigs[i].key = tx.sigs[j].key
    \/ ~Consented(tx)
=============================================================================
