------------------------------ MODULE TxStack ------------------------------
(***************************************************************************)
(* What one transaction does to a store: the decorator chain of            *)
(* pkg/app/app.go Chain (signatures, multisig, rbac authentication, rbac   *)
(* authorization, savepoint, batch) and the handlers of Router for         *)
(* artifacts and for multisig updates, as operators on a store and a       *)
(* transaction.                                                            *)
(*                                                                         *)
(* A store holds the next sequence number of every key (x/sigs), the       *)
(* artifact bucket and the multisig contracts.  Roles and bindings have no *)
(* handler: they are what genesis wrote, and constant here.  Fees are not  *)
(* modelled: the fee decorators only contribute the savepoint of Deliver.  *)
(* sigs, multisig, batch and utils.Savepoint are code of the weave         *)
(* library, modelled from the way Chain and the handlers rely on them.     *)
(***************************************************************************)
EXTENDS Permissions, RoleGraph, Integers, FiniteSets

CONSTANTS
  Keys,             \* signing keys; a key and its address are one
  Contracts,        \* addresses of multisig contracts
  Images, Checksums,
  NoArtifact,
  RoleStore,        \* the role bucket
  RolePermissions,  \* Role.Permissions, by role id
  Binds             \* the role binding bucket

(* An address is that of a key, a contract or (RoleCondition) a role. *)
Addresses == Keys \cup Contracts \cup RoleIds

Artifact == [checksum : Checksums, owner : Addresses]
Contract == [participants : SUBSET Addresses, activation : Nat, admin : Nat]
Store == [nonces : [Keys -> Nat],
          artifacts : [Images -> Artifact \cup {NoArtifact}],
          contracts : [Contracts -> Contract]]

(* Messages; valid is the verdict of Validate, which LoadMsg asks for. *)
CreateArtifactMsg ==
  [op : {"create"}, image : Images, checksum : Checksums, owner : Addresses,
   valid : BOOLEAN]
DeleteArtifactMsg == [op : {"delete"}, image : Images, valid : BOOLEAN]
UpdateMsg == [op : {"update"}, contract : Contracts, new : Contract, valid : BOOLEAN]
HandlerMsg == CreateArtifactMsg \cup DeleteArtifactMsg \cup UpdateMsg

(* Two messages stand for any number; artifacts are not among those that a *)
(* batch can carry.  valid is the verdict about the batch as a whole.      *)
ExecuteBatchMsg ==
  [op : {"batch"}, first : UpdateMsg, second : UpdateMsg, valid : BOOLEAN]

Path == [create |-> <<"artifacts", Slash, "create">>,
         delete |-> <<"artifacts", Slash, "delete">>,
         update |-> <<"multisig", Slash, "update">>,
         batch |-> <<"batch", Slash, "execute">>]

(* genuine: the signature was made by the key over the bytes GetSignBytes  *)
(* returns for this very transaction.                                      *)
StdSignature == [key : Keys, sequence : Nat, genuine : BOOLEAN]
Tx == [signatures : Seq(StdSignature), multisig : Seq(Contracts),
       msg : HandlerMsg \cup ExecuteBatchMsg]

ASSUME TxStackAssumption ==
  /\ IsFiniteSet(Keys) /\ IsFiniteSet(Contracts) /\ IsFiniteSet(RoleIds)
  /\ NoArtifact \notin Artifact
  /\ IsStore(RoleStore)
  /\ Binds \subseteq (Keys \cup Contracts) \X RoleIds
-----------------------------------------------------------------------------
(* sigs.Decorator: signatures in order; each must carry the sequence its   *)
(* key has reached, and advances it in the store at once.                  *)
Fits(nonces, sigs, i) ==
  /\ sigs[i].genuine
  /\ sigs[i].sequence =
       nonces[sigs[i].key] + Cardinality({j \in 1 .. i - 1 : sigs[j].key = sigs[i].key})

(* The signatures before the first that does not fit. *)
Verified(nonces, sigs) == {i \in DOMAIN sigs : \A j \in 1 .. i : Fits(nonces, sigs, j)}

AfterSignatures(st, tx) ==
  LET ok == Verified(st.nonces, tx.signatures)
      uses(k) == {i \in ok : tx.signatures[i].key = k}
  IN [st EXCEPT !.nonces = [k \in Keys |-> st.nonces[k] + Cardinality(uses(k))]]

Signed(st, tx) ==
  tx.signatures # << >> /\ Verified(st.nonces, tx.signatures) = DOMAIN tx.signatures

Signers(tx) == {tx.signatures[i].key : i \in DOMAIN tx.signatures}

(* multisig.Decorator: each contract the transaction lists needs enough    *)
(* participants among the signers and the contracts listed before it.      *)
(* Every participant weighs one.  Role conditions are not known yet.       *)
Activated(st, tx) ==
  \A i \in DOMAIN tx.multisig :
    LET c == st.contracts[tx.multisig[i]]
        present == Signers(tx) \cup {tx.multisig[j] : j \in 1 .. i - 1}
    IN Cardinality(c.participants \cap present) >= c.activation

(* Authenticator() below the rbac decorators: signatures and multisig. *)
Conditions(tx) == Signers(tx) \cup {tx.multisig[i] : i \in DOMAIN tx.multisig}

(* AuthNDecorator; RbacAuth models the walk that computes it, and that     *)
(* fails the transaction if it meets a role that is not stored.            *)
HeldRoles(conds) ==
  Reach(RoleStore, {r \in RoleIds : \E a \in conds : <<a, r>> \in Binds})

RolesStored(conds) == HeldRoles(conds) \subseteq DOMAIN RoleStore

(* AuthZDecorator: permission for the path of the message; of a batch that *)
(* is its own, and the messages in it are not looked at.                   *)
Permitted(conds, op) ==
  HasPermission(UNION {RolePermissions[r] : r \in HeldRoles(conds)},
                resolvePermission(Path[op]))

(* HasAddress of the chained authenticators, as the handlers see it. *)
HasAddress(tx, a) == a \in Conditions(tx) \cup HeldRoles(Conditions(tx))
-----------------------------------------------------------------------------
(* Mutant: whoever may delete at all may delete any artifact. *)
DeletableByAnyone(st, tx, msg) == st.artifacts[msg.image] # NoArtifact

(* DeleteArtifactHandler.validate. *)
Deletable(st, tx, msg) ==
  /\ st.artifacts[msg.image] # NoArtifact
  /\ HasAddress(tx, st.artifacts[msg.image].owner)

(* CreateArtifactHandler.validate: nothing is asked of an artifact that is *)
(* already there.                                                          *)
Creatable(tx, msg) == HasAddress(tx, msg.owner)

(* The update handler of x/multisig: admins of the contract as it is now. *)
Updatable(st, tx, msg) ==
  LET c == st.contracts[msg.contract]
  IN Cardinality({a \in c.participants : HasAddress(tx, a)}) >= c.admin

Valid(st, tx, msg) ==
  /\ msg.valid
  /\ msg.op = "create" => Creatable(tx, msg)
  /\ msg.op = "delete" => Deletable(st, tx, msg)
  /\ msg.op = "update" => Updatable(st, tx, msg)

(* What the Deliver methods of the handlers store. *)
Handle(st, msg) ==
  CASE msg.op = "create" ->
         [st EXCEPT !.artifacts[msg.image] =
            [checksum |-> msg.checksum, owner |-> msg.owner]]
    [] msg.op = "delete" -> [st EXCEPT !.artifacts[msg.image] = NoArtifact]
    [] OTHER -> [st EXCEPT !.contracts[msg.contract] = msg.new]

(* batch.Decorator hands the messages down one after the other; on Check   *)
(* the handlers write nothing, so that each is judged by the same store.   *)
ValidOnCheck(st, tx) ==
  IF tx.msg.op # "batch" THEN Valid(st, tx, tx.msg)
  ELSE tx.msg.valid /\ Valid(st, tx, tx.msg.first) /\ Valid(st, tx, tx.msg.second)

(* On Deliver the second message finds what the first has stored. *)
ValidOnDeliver(st, tx) ==
  IF tx.msg.op # "batch" THEN Valid(st, tx, tx.msg)
  ELSE /\ tx.msg.valid /\ Valid(st, tx, tx.msg.first)
       /\ Valid(Handle(st, tx.msg.first), tx, tx.msg.second)

Execute(st, msg) ==
  IF msg.op # "batch" THEN Handle(st, msg) ELSE Handle(Handle(st, msg.first), msg.second)

(* The decorators up to AuthZ let the transaction through. *)
Admitted(st, tx) ==
  /\ Signed(st, tx)
  /\ Activated(st, tx)
  /\ RolesStored(Conditions(tx))
  /\ Permitted(Conditions(tx), tx.msg.op)

PassesCheck(st, tx) == Admitted(st, tx) /\ ValidOnCheck(st, tx)

Accepts(st, tx) == Admitted(st, tx) /\ ValidOnDeliver(st, tx)

(* Mutant: Check runs the handler's Deliver. *)
CheckedByDelivering(st, tx) ==
  IF Accepts(st, tx) THEN Execute(AfterSignatures(st, tx), tx.msg) ELSE st

(* CheckTx: Savepoint().OnCheck() undoes everything on error; the handlers *)
(* write nothing on Check.                                                 *)
Checked(st, tx) == IF PassesCheck(st, tx) THEN AfterSignatures(st, tx) ELSE st

(* Mutant: the savepoint of Deliver is taken above the signatures. *)
DeliveredAllOrNothing(st, tx) ==
  IF Accepts(st, tx) THEN Execute(AfterSignatures(st, tx), tx.msg) ELSE st

(* Mutant: the savepoint of Deliver is taken below the batch decorator. *)
DeliveredPiecemeal(st, tx) ==
  LET after == AfterSignatures(st, tx)
      msg == tx.msg
  IN CASE Accepts(st, tx) -> Execute(after, msg)
       [] /\ ~Accepts(st, tx) /\ Admitted(st, tx)
          /\ msg.op = "batch" /\ msg.valid /\ Valid(st, tx, msg.first) -> Handle(after, msg.first)
       [] OTHER -> after

(* DeliverTx: the savepoint of Deliver is taken below the authentication   *)
(* and authorization, so that a failure keeps the sequences advanced, and  *)
(* above the batch, so that a failing message undoes those before it.      *)
Delivered(st, tx) ==
  IF Accepts(st, tx) THEN Execute(AfterSignatures(st, tx), tx.msg)
                     ELSE AfterSignatures(st, tx)
=============================================================================
