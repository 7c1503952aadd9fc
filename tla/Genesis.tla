------------------------------- MODULE Genesis -------------------------------
(***************************************************************************)
(* Loading of the genesis file into the empty store: the rbac initializer  *)
(* (pkg/rbac/init.go) and, last in the chain of DecorateApp, the artifact  *)
(* initializer (pkg/artifact/init.go).  Each list is read in order, entry  *)
(* by entry, and the first error ends the load: the node does not start.   *)
(*                                                                         *)
(* An entry carries what later steps tell apart; "valid" stands for the    *)
(* verdict of its Validate method (owner address, permission syntax, name  *)
(* lengths, checksum), "twice" for a principal that lists one of its       *)
(* signatures more than once.  Role ids come from a sequence that starts   *)
(* at 1.                                                                   *)
(***************************************************************************)
EXTENDS RbacStore, Naturals, Sequences, FiniteSets, Functions

CONSTANTS
  Images,        \* image names
  GenesisFiles   \* the files to load

RoleEntry == [ids : SUBSET RoleIds, valid : BOOLEAN]
PrincipalEntry == [signatures : SUBSET Addresses, twice : BOOLEAN, valid : BOOLEAN]
BindingEntry == [role : RoleIds, signature : Addresses]
ArtifactEntry == [image : Images, valid : BOOLEAN]

File == [roles : Seq(RoleEntry), principals : Seq(PrincipalEntry),
         bindings : Seq(BindingEntry), artifacts : Seq(ArtifactEntry)]

(* Role ids are uint64: a file has fewer roles than there are ids. *)
ASSUME GenesisAssumption ==
  /\ RoleIds \subseteq Nat
  /\ GenesisFiles \subseteq File
  /\ \A f \in GenesisFiles : 1 .. Len(f.roles) \subseteq RoleIds

VARIABLES
  file,
  signatures,  \* unique signature index of the principal bucket: address -> key
  artifacts,   \* the artifact bucket: image -> index of the entry stored
  stage,       \* the list being read
  at           \* entries of it that are done

genesisVars == <<file, roles, signatures, binds, artifacts, stage, at>>

GenesisInit ==
  /\ file \in GenesisFiles
  /\ roles = [r \in {} |-> {}]
  /\ signatures = [a \in {} |-> 0]
  /\ binds = {}
  /\ artifacts = [x \in {} |-> 0]
  /\ stage = "roles"
  /\ at = 0

(* f with f[x] = y, also when x was not in its domain. *)
Put(f, x, y) == [z \in DOMAIN f \cup {x} |-> IF z = x THEN y ELSE f[z]]

Reading(list) == stage = list /\ at < Len(file[list])
Entry == file[stage][at + 1]

Fail == stage' = "failed" /\ at' = 0

(* Mutant: dependencies are looked up after the role got its id. *)
HasDependenciesSelf == Entry.ids \subseteq DOMAIN roles \cup {at + 1}

(* addRoles: every named role must already be in the bucket. *)
HasDependencies == Entry.ids \subseteq DOMAIN roles

addRoles ==
  /\ Reading("roles")
  /\ \/ /\ HasDependencies /\ Entry.valid
        /\ roles' = Put(roles, at + 1, Entry.ids)
        /\ at' = at + 1 /\ UNCHANGED stage
     \/ /\ ~(HasDependencies /\ Entry.valid)
        /\ Fail /\ UNCHANGED roles
  /\ UNCHANGED <<file, signatures, binds, artifacts>>

(* Mutant: a signature may be listed again, the index keeps the last one. *)
SignaturesFreeAlways == TRUE

(* The unique index refuses a signature it has, be it of another principal *)
(* or of this one: the signatures are entered one by one.                  *)
SignaturesFree == Entry.signatures \cap DOMAIN signatures = {} /\ ~Entry.twice

addPrincipals ==
  /\ Reading("principals")
  /\ \/ /\ SignaturesFree /\ Entry.valid
        /\ signatures' = [a \in DOMAIN signatures \cup Entry.signatures |->
                            IF a \in Entry.signatures THEN at + 1 ELSE signatures[a]]
        /\ at' = at + 1 /\ UNCHANGED stage
     \/ /\ ~(SignaturesFree /\ Entry.valid)
        /\ Fail /\ UNCHANGED signatures
  /\ UNCHANGED <<file, roles, binds, artifacts>>

(* addRoleBindings: both ends of the binding must exist. *)
Bindable == Entry.role \in DOMAIN roles /\ Entry.signature \in DOMAIN signatures

addRoleBindings ==
  /\ Reading("bindings")
  /\ \/ /\ Bindable
        /\ binds' = binds \cup {<<Entry.signature, Entry.role>>}
        /\ at' = at + 1 /\ UNCHANGED stage
     \/ ~Bindable /\ Fail /\ UNCHANGED binds
  /\ UNCHANGED <<file, roles, signatures, artifacts>>

(* The loop of the artifact initializer.  When Has finds the image, err is *)
(* nil and errors.Wrapf(nil, ...) is nil too: FromGenesis returns success. *)
addArtifacts ==
  /\ Reading("artifacts")
  /\ \/ /\ Entry.valid /\ Entry.image \notin DOMAIN artifacts
        /\ artifacts' = Put(artifacts, Entry.image, at + 1)
        /\ at' = at + 1 /\ UNCHANGED stage
     \/ /\ Entry.valid /\ Entry.image \in DOMAIN artifacts
        /\ stage' = "done" /\ at' = 0 /\ UNCHANGED artifacts
     \/ /\ ~Entry.valid
        /\ Fail /\ UNCHANGED artifacts
  /\ UNCHANGED <<file, roles, signatures, binds>>

Lists == {"roles", "principals", "bindings", "artifacts"}
After == [roles |-> "principals", principals |-> "bindings",
          bindings |-> "artifacts", artifacts |-> "done"]

(* The end of a list: the next step of FromGenesis, or of the chain of     *)
(* initializers.                                                           *)
EndOfList ==
  /\ stage \in Lists /\ at = Len(file[stage])
  /\ stage' = After[stage] /\ at' = 0
  /\ UNCHANGED <<file, roles, signatures, binds, artifacts>>

GenesisOver == stage \in {"done", "failed"} /\ UNCHANGED genesisVars

GenesisNext ==
  addRoles \/ addPrincipals \/ addRoleBindings \/ addArtifacts \/ EndOfList \/ GenesisOver

GenesisSpec == GenesisInit /\ [][GenesisNext]_genesisVars
-----------------------------------------------------------------------------
GenesisTypeOK ==
  /\ file \in GenesisFiles
  /\ IsStore(roles)
  /\ DOMAIN signatures \subseteq Addresses
  /\ binds \subseteq Addresses \X RoleIds
  /\ DOMAIN artifacts \subseteq Images
  /\ stage \in Lists \cup {"done", "failed"}
  /\ at \in Nat
  /\ stage \in Lists => at <= Len(file[stage])

ByGenesis == stage \in Lists \cup {"done", "failed"}

(* No stored role leads back to itself, at any point of the load: the walk *)
(* of AuthNDecorator over a store that genesis wrote meets no cycle.       *)
RolesAcyclic ==
  ByGenesis => \A r \in DOMAIN roles : r \notin Reach(roles, roles[r])

(* What the store names is in the store: roles named by roles, roles and   *)
(* signatures named by bindings (the look-ups of init.go).                 *)
NothingDangles ==
  ByGenesis =>
    /\ \A r \in DOMAIN roles : roles[r] \subseteq DOMAIN roles
    /\ \A b \in binds : b[1] \in DOMAIN signatures /\ b[2] \in DOMAIN roles

(* A file the rbac part of which is consistent, said of the whole file and *)
(* not of the order in which it is read.                                   *)
WellFormed(f) ==
  /\ \A i \in DOMAIN f.roles : f.roles[i].valid /\ f.roles[i].ids \subseteq 1 .. i - 1
  /\ \A i \in DOMAIN f.principals :
       /\ f.principals[i].valid /\ ~f.principals[i].twice
       /\ \A j \in DOMAIN f.principals \ {i} :
            f.principals[i].signatures \cap f.principals[j].signatures = {}
  /\ \A i \in DOMAIN f.bindings :
       /\ f.bindings[i].role \in DOMAIN f.roles
       /\ \E j \in DOMAIN f.principals :
            f.bindings[i].signature \in f.principals[j].signatures

RolesOf(f) == [i \in DOMAIN f.roles |-> f.roles[i].ids]
BindingsOf(f) == {<<b.signature, b.role>> : b \in Range(f.bindings)}

(* The load gets past the rbac part exactly for the well-formed files, and *)
(* then the roles and bindings of the file are the ones in the store.      *)
LoadsWellFormed ==
  /\ stage \in {"artifacts", "done"} =>
       /\ WellFormed(file)
       /\ roles = RolesOf(file) /\ binds = BindingsOf(file)
  /\ stage = "failed" =>
       ~WellFormed(file) \/ \E i \in DOMAIN file.artifacts : ~file.artifacts[i].valid

(* init.go:41 gives "image must not exist" as the error for an image that  *)
(* is listed twice: an accepted file has each of its artifacts stored.     *)
AcceptedMeansStored ==
  stage = "done" =>
    \A i \in DOMAIN file.artifacts :
      /\ file.artifacts[i].image \in DOMAIN artifacts
      /\ artifacts[file.artifacts[i].image] = i
=============================================================================
