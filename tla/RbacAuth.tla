------------------------------ MODULE RbacAuth ------------------------------
(***************************************************************************)
(* One pass of a transaction through AuthNDecorator and AuthZDecorator     *)
(* (pkg/rbac/decorator.go): authRoles looks up the role bindings of every  *)
(* condition the signature and multisig decorators left in the context,    *)
(* loadRoles walks from each bound role through the roles it names, and    *)
(* withRBAC puts the permissions of what was loaded into the context for   *)
(* HasPermission.                                                          *)
(*                                                                         *)
(* The recursion of loadRoles is an explicit stack: a frame is the set of  *)
(* the role's RoleIds the loop has still to visit.  The order of the       *)
(* conditions, of the bindings of one address and of the ids of a role is  *)
(* left open; the code uses some order.  A role's permissions depend on    *)
(* its id alone.                                                           *)
(***************************************************************************)
EXTENDS Permissions, RbacStore, Naturals, FiniteSets

CONSTANTS
  RolePermissions,   \* Role.Permissions, by role id
  Paths,             \* message paths that are asked for
  InitialStores,     \* role stores to start from
  GasCost            \* roleParticipantGasCost

ASSUME RbacAuthAssumption ==
  /\ \A s \in InitialStores : IsStore(s)
  /\ GasCost \in Nat

VARIABLES
  signed,     \* GetConditions(ctx): addresses authenticated before rbac
  path,       \* tx.GetMsg().Path()
  conds,      \* conditions authRoles has still to visit
  roleIDs,    \* bindings of the condition in hand still to load
  stack,      \* active calls of loadRoles
  processed,  \* keys of roleIdsProcessed
  costs,
  granted,    \* permissions in the context
  pc

vars == <<roles, binds, signed, path, conds, roleIDs, stack, processed,
          costs, granted, pc>>
input == <<roles, binds, signed, path>>

Init ==
  /\ roles \in InitialStores
  /\ binds \in SUBSET (Addresses \X DOMAIN roles)
  /\ signed \in SUBSET Addresses
  /\ path \in Paths
  /\ conds = signed
  /\ roleIDs = {}
  /\ stack = << >>
  /\ processed = {}
  /\ costs = 0
  /\ granted = {}
  /\ pc = "authn"

(* FindRoleIDsByAddress: the prefix scan over the binding keys. *)
FindRoleIDsByAddress(a) == {r \in RoleIds : <<a, r>> \in binds}

(* Mutant: the roles to visit are kept in one list, and a role that was    *)
(* processed before goes through it again.                                 *)
EnterLoadRolesAgain(r, frames) ==
  \/ /\ r \in DOMAIN roles
     /\ processed' = processed \cup {r}
     /\ stack' = <<roles[r] \cup UNION {frames[i] : i \in DOMAIN frames}>>
     /\ UNCHANGED pc
  \/ /\ r \notin DOMAIN roles
     /\ stack' = << >>
     /\ pc' = "failed"
     /\ UNCHANGED processed

(* Mutant: the roles a role names are not visited. *)
EnterLoadRolesFlat(r, frames) ==
  \/ /\ r \in DOMAIN roles
     /\ processed' = processed \cup {r}
     /\ stack' = frames
     /\ UNCHANGED pc
  \/ /\ r \notin DOMAIN roles
     /\ stack' = << >>
     /\ pc' = "failed"
     /\ UNCHANGED processed

(* Mutant: a role that is not stored is taken for an empty one. *)
EnterLoadRolesLenient(r, frames) ==
  \/ /\ r \in processed
     /\ stack' = frames
     /\ UNCHANGED <<processed, pc>>
  \/ /\ r \notin processed
     /\ processed' = processed \cup {r}
     /\ stack' = <<Named(roles, r)>> \o frames
     /\ UNCHANGED pc

(* The entry of loadRoles for role id r, with the caller's frames left on  *)
(* the stack.                                                              *)
EnterLoadRoles(r, frames) ==
  \/ /\ r \in processed
     /\ stack' = frames
     /\ UNCHANGED <<processed, pc>>
  \/ /\ r \notin processed
     /\ r \in DOMAIN roles
     /\ processed' = processed \cup {r}
     /\ stack' = <<roles[r]>> \o frames
     /\ UNCHANGED pc
  \/ /\ r \notin processed
     /\ r \notin DOMAIN roles
     /\ stack' = << >>
     /\ pc' = "failed"
     /\ UNCHANGED processed

(* The outer loop of authRoles. *)
NextCondition ==
  /\ pc = "authn" /\ stack = << >> /\ roleIDs = {}
  /\ \E c \in conds :
       /\ conds' = conds \ {c}
       /\ roleIDs' = FindRoleIDsByAddress(c)
  /\ UNCHANGED <<input, stack, processed, costs, granted, pc>>

(* The inner loop of authRoles; an error drops the gas counted so far. *)
NextBinding ==
  /\ pc = "authn" /\ stack = << >>
  /\ \E r \in roleIDs :
       /\ roleIDs' = roleIDs \ {r}
       /\ EnterLoadRoles(r, << >>)
  /\ costs' = IF pc' = "failed" THEN 0 ELSE costs + GasCost
  /\ UNCHANGED <<input, conds, granted>>

(* The loop of loadRoles visits the next id of the role on top. *)
NextNamedRole ==
  /\ pc = "authn" /\ stack # << >>
  /\ \E r \in Head(stack) : EnterLoadRoles(r, <<Head(stack) \ {r}>> \o Tail(stack))
  /\ costs' = IF pc' = "failed" THEN 0 ELSE costs
  /\ UNCHANGED <<input, conds, roleIDs, granted>>

(* loadRoles returns to its caller. *)
ReturnFromLoadRoles ==
  /\ pc = "authn" /\ stack # << >> /\ Head(stack) = {}
  /\ stack' = Tail(stack)
  /\ UNCHANGED <<input, conds, roleIDs, processed, costs, granted, pc>>

(* Mutant: only the roles bound to a condition grant their permissions. *)
withRBACBoundOnly ==
  /\ pc = "authn" /\ stack = << >> /\ roleIDs = {} /\ conds = {}
  /\ granted' = UNION {RolePermissions[r] :
                         r \in {x \in processed : \E a \in signed : <<a, x>> \in binds}}
  /\ pc' = "authz"
  /\ UNCHANGED <<input, conds, roleIDs, stack, processed, costs>>

(* withRBAC: the union of the permissions of all loaded roles. *)
withRBAC ==
  /\ pc = "authn" /\ stack = << >> /\ roleIDs = {} /\ conds = {}
  /\ granted' = UNION {RolePermissions[r] : r \in processed}
  /\ pc' = "authz"
  /\ UNCHANGED <<input, conds, roleIDs, stack, processed, costs>>

(* AuthZDecorator: the next handler is called or the message refused. *)
Authorize ==
  /\ pc = "authz"
  /\ pc' = IF HasPermission(granted, resolvePermission(path))
             THEN "allowed" ELSE "refused"
  /\ UNCHANGED <<input, conds, roleIDs, stack, processed, costs, granted>>

Decided == pc \in {"allowed", "refused", "failed"} /\ UNCHANGED vars

Next ==
  \/ NextCondition \/ NextBinding \/ NextNamedRole \/ ReturnFromLoadRoles
  \/ withRBAC \/ Authorize \/ Decided

Spec == Init /\ [][Next]_vars
-----------------------------------------------------------------------------
TypeOK ==
  /\ IsStore(roles)
  /\ binds \subseteq Addresses \X RoleIds
  /\ signed \subseteq Addresses
  /\ conds \subseteq signed
  /\ roleIDs \subseteq RoleIds
  /\ stack \in Seq(SUBSET RoleIds)
  /\ processed \subseteq DOMAIN roles
  /\ costs \in Nat
  /\ pc \in {"authn", "authz", "allowed", "refused", "failed"}

Bound == {r \in RoleIds : \E a \in signed : <<a, r>> \in binds}

(* The roles in the context are exactly those the bindings of the signing  *)
(* conditions lead to, whatever the order of the walk and however roles    *)
(* share or repeat the roles they name (decorator.go authRoles, loadRoles).*)
LoadedExactly ==
  pc \in {"authz", "allowed", "refused"} => processed = Reach(roles, Bound)

(* The message is let through only if some role the signers hold, directly *)
(* or through other roles, has a permission for it; and it is let through  *)
(* whenever one has and no role is missing (AuthZDecorator).               *)
DecidedByHeldRoles ==
  LET wanted == resolvePermission(path)
      holds == \E r \in Reach(roles, Bound) : HasPermission(RolePermissions[r], wanted)
  IN /\ pc = "allowed" => holds
     /\ pc = "refused" => ~holds

(* A held role that is not in the bucket fails the transaction, never      *)
(* silently narrows or widens what it may do; and nothing else fails it    *)
(* (decorator.go:83-85, 65-68).                                            *)
FailsOnMissingRole ==
  LET missing == Reach(roles, Bound) \ DOMAIN roles
  IN /\ pc = "failed" => missing # {}
     /\ pc \in {"authz", "allowed", "refused"} => missing = {}

(* Every transaction gets a decision: the walk ends on every store, also   *)
(* one whose roles name each other, because loadRoles marks a role before  *)
(* it visits the roles it names.                                           *)
Terminates == pc = "authn" ~> pc \in {"allowed", "refused", "failed"}
=============================================================================
