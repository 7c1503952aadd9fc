------------------------------ MODULE RoleGraph ------------------------------
(***************************************************************************)
(* Roles of pkg/rbac reference other roles by id (Role.RoleIds).  This     *)
(* module says, without an algorithm, which roles a set of roles brings    *)
(* along.                                                                  *)
(*                                                                         *)
(* A role store is a function from the ids that are stored to the ids the  *)
(* stored role names; a named id need not be stored.                       *)
(***************************************************************************)
CONSTANT RoleIds

IsStore(store) ==
  /\ store = [r \in DOMAIN store |-> store[r]]
  /\ DOMAIN store \subseteq RoleIds
  /\ \A r \in DOMAIN store : store[r] \subseteq RoleIds

(* The ids that role r of the store names. *)
Named(store, r) == IF r \in DOMAIN store THEN store[r] ELSE {}

Closed(store, S) == \A r \in S : Named(store, r) \subseteq S

(* The least closed set of ids that contains R. *)
Reach(store, R) ==
  {r \in RoleIds :
     \A S \in SUBSET RoleIds : R \subseteq S /\ Closed(store, S) => r \in S}
=============================================================================
