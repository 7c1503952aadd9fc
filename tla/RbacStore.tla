----------------------------- MODULE RbacStore ------------------------------
(* The buckets of pkg/rbac that genesis fills and every transaction reads. *)
EXTENDS RoleGraph

CONSTANT Addresses  \* addresses of signatures and of multisig contracts

VARIABLES
  roles,  \* the role bucket: id -> the ids it names
  binds   \* the role binding bucket: keys <<address, role id>>
=============================================================================
