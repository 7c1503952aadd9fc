------------------------------ MODULE MCAccess ------------------------------
(* Genesis files for TLC: every list is varied while the others hold still, *)
(* and principals and bindings are varied together.  Stores filled by hand  *)
(* have the cycles and the missing roles that genesis refuses.              *)
EXTENDS Access, SequencesExt

MCRoleIds == 0 .. 4
MCAddresses == {"alice", "bert"}
MCImages == {"app:v1", "app:v2"}

MCLower ==
  [s \in {"artifacts", "Artifacts", "create", "delete"} |->
     IF s = "Artifacts" THEN "artifacts" ELSE s]

MCRolePermissions ==
  [r \in MCRoleIds |->
     CASE r = 1 -> {<<"_grafain", ".", "artifacts", ".", "create">>}
       [] r = 2 -> {<<"_grafain", ".", "artifacts", ".", "delete">>,
                    <<"_grafain", ".", "artifacts">>}
       [] OTHER -> {<<"_grafain", ".", "artifacts", ".", "*">>}]

MCPaths == {<<"Artifacts", "/", "create">>, <<"artifacts", "/", "delete">>}

AtMost(S, n) == UNION {[1 .. k -> S] : k \in 0 .. n}

RoleLists ==
  AtMost([ids : SUBSET (0 .. 3), valid : {TRUE}], 2) \cup
  [1 .. 3 -> [ids : SUBSET (1 .. 3), valid : {TRUE}]] \cup
  {<<[ids |-> {}, valid |-> FALSE]>>}
PrincipalLists ==
  AtMost({p \in [signatures : SUBSET MCAddresses, twice : BOOLEAN, valid : BOOLEAN] :
            p.twice => p.signatures # {}}, 2)
BindingLists == AtMost([role : 1 .. 2, signature : MCAddresses], 2)
ArtifactLists == AtMost([image : MCImages, valid : BOOLEAN], 3)

TwoRoles == <<[ids |-> {}, valid |-> TRUE], [ids |-> {1}, valid |-> TRUE]>>
Both == <<[signatures |-> {"alice"}, twice |-> FALSE, valid |-> TRUE],
          [signatures |-> {"bert"}, twice |-> FALSE, valid |-> TRUE]>>
OneBinding == <<[role |-> 2, signature |-> "alice"]>>
LastAndFirst == <<[role |-> 3, signature |-> "alice"], [role |-> 1, signature |-> "bert"],
                  [role |-> 2, signature |-> "alice"]>>

MCFiles ==
  [roles : RoleLists, principals : {Both}, bindings : {OneBinding, LastAndFirst},
   artifacts : {<< >>}]
  \cup
  [roles : {TwoRoles, Tail(TwoRoles), <<TwoRoles[1]>>}, principals : PrincipalLists,
   bindings : BindingLists, artifacts : {<< >>}]
  \cup
  [roles : {TwoRoles}, principals : {Both}, bindings : {OneBinding},
   artifacts : ArtifactLists]

(* A role may name itself, later roles, or roles that do not exist. *)
MCStores ==
  {g \in [{1, 2} -> SUBSET (1 .. 3)] : Cardinality(g[1]) <= 2} \cup
  {[r \in 1 .. 3 |-> {(r % 3) + 1}], [r \in 1 .. 3 |-> 1 .. 3]}
=============================================================================
