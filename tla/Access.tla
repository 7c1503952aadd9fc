------------------------------- MODULE Access --------------------------------
(***************************************************************************)
(* Who may do what, from the genesis file to the decision: Genesis fills   *)
(* the buckets of pkg/rbac, the only ones to write them, and then one      *)
(* transaction after the other goes through the two decorators of          *)
(* RbacAuth.  A store may also have been filled past the initializer, the  *)
(* way decorator_test.go does, with roles genesis would refuse.            *)
(***************************************************************************)
EXTENDS RbacAuth, Genesis

authVars == <<signed, path, conds, roleIDs, stack, processed, costs, granted, pc>>
fileVars == <<file, signatures, artifacts, stage, at>>
all == <<roles, binds, authVars, fileVars>>

NoFile == [roles |-> << >>, principals |-> << >>, bindings |-> << >>, artifacts |-> << >>]

(* Roles and bindings are put into the buckets by hand. *)
Bypassed ==
  /\ roles \in InitialStores
  /\ binds \in SUBSET (Addresses \X DOMAIN roles)
  /\ file = NoFile /\ stage = "bypassed" /\ at = 0
  /\ signatures = << >> /\ artifacts = << >>

Idle ==
  /\ signed = {} /\ path = << >> /\ conds = {} /\ roleIDs = {} /\ stack = << >>
  /\ processed = {} /\ costs = 0 /\ granted = {} /\ pc = "idle"

AccessInit == (GenesisInit \/ Bypassed) /\ Idle

Load == GenesisNext /\ UNCHANGED authVars

(* Mutant: what was loaded for the transaction before is still there. *)
TransactionKeepsRoles ==
  /\ stage \in {"done", "bypassed"} /\ pc \in {"idle", "allowed", "refused", "failed"}
  /\ signed' \in SUBSET Addresses /\ path' \in Paths
  /\ conds' = signed' /\ roleIDs' = {} /\ stack' = << >>
  /\ costs' = 0 /\ granted' = {} /\ pc' = "authn"
  /\ UNCHANGED <<processed, roles, binds, fileVars>>

(* A transaction that passed the signature and multisig decorators: the    *)
(* context and roleIdsProcessed are new with each.                         *)
Transaction ==
  /\ stage \in {"done", "bypassed"} /\ pc \in {"idle", "allowed", "refused", "failed"}
  /\ signed' \in SUBSET Addresses /\ path' \in Paths
  /\ conds' = signed' /\ roleIDs' = {} /\ stack' = << >> /\ processed' = {}
  /\ costs' = 0 /\ granted' = {} /\ pc' = "authn"
  /\ UNCHANGED <<roles, binds, fileVars>>

Decorate == pc # "idle" /\ Next /\ UNCHANGED fileVars

AccessNext == Load \/ Transaction \/ Decorate

AccessSpec == AccessInit /\ [][AccessNext]_all

(* A decorator that was called runs on. *)
FairAccessSpec == AccessSpec /\ WF_all(Decorate)
-----------------------------------------------------------------------------
(* The roles that the file gives the signers, said of the file alone. *)
GivenByFile(signers) ==
  Reach(RolesOf(file), {b[2] : b \in {c \in BindingsOf(file) : c[1] \in signers}})

(* What a transaction may do is what the genesis file says: the decision   *)
(* follows the roles the file gives its signers, however the file was read *)
(* and whatever was decided before, and no transaction fails on a store    *)
(* that genesis wrote (init.go, decorator.go).                             *)
AccessFollowsFile ==
  LET wanted == resolvePermission(path)
      given == \E r \in GivenByFile(signed) : HasPermission(RolePermissions[r], wanted)
  IN stage # "bypassed" =>
       /\ pc # "failed"
       /\ pc = "allowed" => given
       /\ pc = "refused" => ~given
=============================================================================
