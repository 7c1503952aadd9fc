--------------------------- MODULE Access_proofs ---------------------------
(***************************************************************************)
(* Genesis and the walk of authRoles and loadRoles, for every genesis      *)
(* file, every role store, every set of bindings and every set of signers: *)
(* partial correctness.  That the walk ends is left to the model checker.  *)
(* First what Reach is, then what genesis writes, then the walk, and at    *)
(* the end the walk after the genesis that wrote the store.                *)
(***************************************************************************)
EXTENDS Access, TLAPS

-----------------------------------------------------------------------------
(* Reach really is the least closed set that contains its argument. *)

(* What is asked for is reached (the role of every binding is loaded). *)
LEMMA ReachContains ==
  ASSUME NEW store, NEW R \in SUBSET RoleIds
  PROVE  R \subseteq Reach(store, R)
BY DEF Reach

(* A reached role's own roles are reached (the recursion of loadRoles). *)
LEMMA ReachClosed ==
  ASSUME NEW store, IsStore(store), NEW R
  PROVE  Closed(store, Reach(store, R))
<1> SUFFICES ASSUME NEW r \in Reach(store, R), NEW x \in Named(store, r)
             PROVE  x \in Reach(store, R)
  BY DEF Closed
<1>1. x \in RoleIds
  BY DEF Named, IsStore
<1>2. ASSUME NEW S \in SUBSET RoleIds, R \subseteq S, Closed(store, S)
      PROVE  x \in S
  <2>1. r \in S
    BY <1>2 DEF Reach
  <2>2. QED
    BY <1>2, <2>1 DEF Closed
<1>3. QED
  BY <1>1, <1>2 DEF Reach

(* Nothing else is reached (loadRoles grants no role on the side). *)
LEMMA ReachLeast ==
  ASSUME NEW store, NEW R, NEW S \in SUBSET RoleIds,
         R \subseteq S, Closed(store, S)
  PROVE  Reach(store, R) \subseteq S
BY DEF Reach

(* Closed sets that contain the start and are reached are the reached set: *)
(* how a walk shows that it has found all of it.                           *)
LEMMA ReachUnique ==
  ASSUME NEW store, NEW R, NEW S \in SUBSET RoleIds,
         R \subseteq S, Closed(store, S), S \subseteq Reach(store, R)
  PROVE  S = Reach(store, R)
BY ReachLeast

-----------------------------------------------------------------------------
(***************************************************************************)
(* What genesis writes about roles is free of cycles and of dangling       *)
(* references, for every genesis file.  The inductive invariant adds to    *)
(* the types that a role names only roles with smaller ids, which is how   *)
(* the order of the file rules cycles out.                                 *)
(***************************************************************************)

USE DEF Lists, ByGenesis

(* Ids are handed out in the order of the file; names point backwards. *)
IdsInOrder ==
  /\ stage = "roles" => DOMAIN roles = 1 .. at
  /\ \A r \in DOMAIN roles : \A x \in roles[r] : x < r

GenesisInv == GenesisTypeOK /\ IdsInOrder /\ NothingDangles

LEMMA EntryType ==
  ASSUME GenesisTypeOK, stage \in Lists, at < Len(file[stage])
  PROVE  /\ at + 1 \in DOMAIN file[stage]
         /\ stage = "roles" => Entry \in RoleEntry
         /\ stage = "principals" => Entry \in PrincipalEntry
         /\ stage = "bindings" => Entry \in BindingEntry
         /\ stage = "artifacts" => Entry \in ArtifactEntry
<1>1. file \in File /\ at \in Nat
  BY GenesisAssumption DEF GenesisTypeOK
<1>2. CASE stage = "roles"
  <2>1. file[stage] \in Seq(RoleEntry)
    BY <1>1, <1>2 DEF File
  <2>2. QED
    BY <1>1, <1>2, <2>1 DEF Entry
<1>3. CASE stage = "principals"
  <2>1. file[stage] \in Seq(PrincipalEntry)
    BY <1>1, <1>3 DEF File
  <2>2. QED
    BY <1>1, <1>3, <2>1 DEF Entry
<1>4. CASE stage = "bindings"
  <2>1. file[stage] \in Seq(BindingEntry)
    BY <1>1, <1>4 DEF File
  <2>2. QED
    BY <1>1, <1>4, <2>1 DEF Entry
<1>5. CASE stage = "artifacts"
  <2>1. file[stage] \in Seq(ArtifactEntry)
    BY <1>1, <1>5 DEF File
  <2>2. QED
    BY <1>1, <1>5, <2>1 DEF Entry
<1>6. QED
  BY <1>2, <1>3, <1>4, <1>5

LEMMA GenesisInvInit == GenesisInit => GenesisInv
<1> SUFFICES ASSUME GenesisInit PROVE GenesisInv
  OBVIOUS
<1>1. file \in File
  BY GenesisAssumption DEF GenesisInit
<1>2. Len(file.roles) \in Nat /\ file["roles"] = file.roles
  BY <1>1 DEF File
<1>3. QED
  BY <1>2 DEF GenesisInit, GenesisInv, GenesisTypeOK, IdsInOrder, NothingDangles, IsStore

LEMMA GenesisInvStep == GenesisInv /\ [GenesisNext]_genesisVars => GenesisInv'
<1> SUFFICES ASSUME GenesisInv, [GenesisNext]_genesisVars PROVE GenesisInv'
  OBVIOUS
<1>f. file \in File /\ at \in Nat /\ RoleIds \subseteq Nat
  BY GenesisAssumption DEF GenesisInv, GenesisTypeOK
<1>l. ASSUME NEW list \in Lists
      PROVE  Len(file[list]) \in Nat
  <2>1. /\ Len(file.roles) \in Nat /\ Len(file.principals) \in Nat
        /\ Len(file.bindings) \in Nat /\ Len(file.artifacts) \in Nat
    BY <1>f DEF File
  <2>2. /\ file["roles"] = file.roles /\ file["principals"] = file.principals
        /\ file["bindings"] = file.bindings /\ file["artifacts"] = file.artifacts
    OBVIOUS
  <2>3. QED
    BY <2>1, <2>2
<1>1. CASE addRoles
  <2>1. stage = "roles" /\ Entry \in RoleEntry /\ at + 1 \in 1 .. Len(file.roles)
    BY <1>1, EntryType DEF addRoles, Reading, GenesisInv
  <2>2. CASE HasDependencies /\ Entry.valid
    <3>1. /\ roles' = Put(roles, at + 1, Entry.ids) /\ at' = at + 1
          /\ UNCHANGED <<file, stage, signatures, binds, artifacts>>
      BY <1>1, <2>2 DEF addRoles
    <3>2. DOMAIN roles' = DOMAIN roles \cup {at + 1}
      BY <3>1 DEF Put
    <3>3. /\ roles'[at + 1] = Entry.ids
          /\ \A r \in DOMAIN roles : r # at + 1 => roles'[r] = roles[r]
      BY <3>1 DEF Put
    <3>4. DOMAIN roles = 1 .. at /\ Entry.ids \subseteq 1 .. at
      BY <2>1, <2>2 DEF GenesisInv, IdsInOrder, HasDependencies
    <3>5. at + 1 \in RoleIds /\ Entry.ids \subseteq RoleIds
      BY <2>1, GenesisAssumption DEF GenesisInv, GenesisTypeOK, RoleEntry
    <3>6. GenesisTypeOK'
      <4>1. IsStore(roles)'
        BY <3>1, <3>2, <3>3, <3>5 DEF GenesisInv, GenesisTypeOK, IsStore, Put
      <4>2. QED
        BY <4>1, <3>1, <2>1, <1>f DEF GenesisInv, GenesisTypeOK
    <3>7. IdsInOrder'
      <4>1. DOMAIN roles' = 1 .. at'
        <5>1. 1 .. at + 1 = (1 .. at) \cup {at + 1}
          BY <1>f
        <5>2. at' = at + 1
          BY <3>1
        <5>3. QED
          BY <3>2, <3>4, <5>1, <5>2
      <4>2. \A r \in DOMAIN roles' : \A x \in roles'[r] : x < r
        <5> TAKE r \in DOMAIN roles'
        <5>1. CASE r = at + 1
          BY <5>1, <3>3, <3>4, <1>f
        <5>2. CASE r # at + 1
          BY <5>2, <3>2, <3>3 DEF GenesisInv, IdsInOrder
        <5>3. QED
          BY <5>1, <5>2
      <4>3. QED
        BY <4>1, <4>2 DEF IdsInOrder
    <3>8. NothingDangles'
      BY <3>1, <3>2, <3>3, <3>4, <1>f DEF GenesisInv, NothingDangles
    <3>9. QED
      BY <3>6, <3>7, <3>8 DEF GenesisInv
  <2>3. CASE ~(HasDependencies /\ Entry.valid)
    BY <1>1, <2>3 DEF addRoles, Fail, GenesisInv, GenesisTypeOK, IdsInOrder, NothingDangles
  <2>4. QED
    BY <2>2, <2>3
<1>2. CASE addPrincipals
  <2>1. stage = "principals" /\ Entry \in PrincipalEntry /\ at < Len(file[stage])
    BY <1>2, EntryType DEF addPrincipals, Reading, GenesisInv
  <2>2. CASE SignaturesFree /\ Entry.valid
    <3>1. /\ DOMAIN signatures' = DOMAIN signatures \cup Entry.signatures
          /\ at' = at + 1
          /\ UNCHANGED <<file, stage, roles, binds, artifacts>>
      BY <1>2, <2>2 DEF addPrincipals
    <3>2. GenesisTypeOK'
      BY <1>f, <1>l, <2>1, <3>1 DEF GenesisInv, GenesisTypeOK, PrincipalEntry
    <3>3. QED
      BY <2>1, <3>1, <3>2 DEF GenesisInv, IdsInOrder, NothingDangles
  <2>3. CASE ~(SignaturesFree /\ Entry.valid)
    BY <1>2, <2>3 DEF addPrincipals, Fail, GenesisInv, GenesisTypeOK, IdsInOrder, NothingDangles
  <2>4. QED
    BY <2>2, <2>3
<1>3. CASE addRoleBindings
  <2>1. stage = "bindings" /\ Entry \in BindingEntry /\ at < Len(file[stage])
    BY <1>3, EntryType DEF addRoleBindings, Reading, GenesisInv
  <2>2. CASE Bindable
    <3>1. /\ binds' = binds \cup {<<Entry.signature, Entry.role>>}
          /\ at' = at + 1
          /\ UNCHANGED <<file, stage, roles, signatures, artifacts>>
      BY <1>3, <2>2 DEF addRoleBindings
    <3>2. GenesisTypeOK'
      BY <1>f, <1>l, <2>1, <3>1 DEF GenesisInv, GenesisTypeOK, BindingEntry
    <3>3. QED
      BY <2>1, <2>2, <3>1, <3>2 DEF GenesisInv, IdsInOrder, NothingDangles, Bindable
  <2>3. CASE ~Bindable
    BY <1>3, <2>3 DEF addRoleBindings, Fail, GenesisInv, GenesisTypeOK, IdsInOrder, NothingDangles
  <2>4. QED
    BY <2>2, <2>3
<1>4. CASE addArtifacts
  <2>1. stage = "artifacts" /\ Entry \in ArtifactEntry /\ at < Len(file[stage])
    BY <1>4, EntryType DEF addArtifacts, Reading, GenesisInv
  <2>2. UNCHANGED <<file, roles, signatures, binds>>
    BY <1>4 DEF addArtifacts
  <2>3. /\ DOMAIN artifacts' \subseteq Images
        /\ \/ stage' = stage /\ at' = at + 1
           \/ stage' \in {"done", "failed"} /\ at' = 0
    BY <1>4, <2>1 DEF addArtifacts, Fail, Put, ArtifactEntry, GenesisInv, GenesisTypeOK
  <2>4. GenesisTypeOK'
    BY <1>f, <1>l, <2>1, <2>2, <2>3 DEF GenesisInv, GenesisTypeOK
  <2>5. QED
    BY <2>1, <2>2, <2>3, <2>4 DEF GenesisInv, IdsInOrder, NothingDangles
<1>5. CASE EndOfList
  <2>1. /\ stage' \in {"principals", "bindings", "artifacts", "done"} /\ at' = 0
        /\ UNCHANGED <<file, roles, signatures, binds, artifacts>>
    BY <1>5 DEF EndOfList, After
  <2>2. QED
    BY <1>l, <2>1 DEF GenesisInv, GenesisTypeOK, IdsInOrder, NothingDangles
<1>6. CASE UNCHANGED genesisVars
  BY <1>6 DEF GenesisInv, GenesisTypeOK, IdsInOrder, NothingDangles, genesisVars
<1>7. QED
  BY <1>1, <1>2, <1>3, <1>4, <1>5, <1>6 DEF GenesisNext, GenesisOver

-----------------------------------------------------------------------------
(* What has been read of each list is in its bucket, and is well-formed.   *)
RolesDone == IF stage = "roles" THEN at ELSE Len(file.roles)
PrincipalsDone ==
  IF stage = "roles" THEN 0 ELSE IF stage = "principals" THEN at ELSE Len(file.principals)
BindingsDone ==
  IF stage \in {"roles", "principals"} THEN 0
  ELSE IF stage = "bindings" THEN at ELSE Len(file.bindings)

RolesRead ==
  /\ DOMAIN roles = 1 .. RolesDone
  /\ \A i \in 1 .. RolesDone :
       /\ roles[i] = file.roles[i].ids
       /\ file.roles[i].valid /\ file.roles[i].ids \subseteq 1 .. i - 1

PrincipalsRead ==
  /\ \A j \in 1 .. PrincipalsDone : file.principals[j].signatures \subseteq DOMAIN signatures
  /\ \A a \in DOMAIN signatures :
       \E j \in 1 .. PrincipalsDone : a \in file.principals[j].signatures
  /\ \A i \in 1 .. PrincipalsDone : file.principals[i].valid /\ ~file.principals[i].twice
  /\ \A i, j \in 1 .. PrincipalsDone :
       i # j => file.principals[i].signatures \cap file.principals[j].signatures = {}

Key(b) == <<b.signature, b.role>>

BindingsRead ==
  /\ \A b \in binds : \E i \in 1 .. BindingsDone : b = Key(file.bindings[i])
  /\ \A i \in 1 .. BindingsDone :
       /\ Key(file.bindings[i]) \in binds
       /\ file.bindings[i].role \in DOMAIN roles
       /\ file.bindings[i].signature \in DOMAIN signatures

FailedForCause ==
  stage = "failed" => ~WellFormed(file) \/ \E i \in DOMAIN file.artifacts : ~file.artifacts[i].valid

ReadInv ==
  /\ stage # "failed" => RolesRead /\ PrincipalsRead /\ BindingsRead
  /\ FailedForCause

LEMMA FileType ==
  ASSUME GenesisTypeOK
  PROVE  /\ at \in Nat
         /\ Len(file.roles) \in Nat /\ DOMAIN file.roles = 1 .. Len(file.roles)
         /\ Len(file.principals) \in Nat /\ DOMAIN file.principals = 1 .. Len(file.principals)
         /\ Len(file.bindings) \in Nat /\ DOMAIN file.bindings = 1 .. Len(file.bindings)
         /\ Len(file.artifacts) \in Nat /\ DOMAIN file.artifacts = 1 .. Len(file.artifacts)
         /\ file["roles"] = file.roles /\ file["principals"] = file.principals
         /\ file["bindings"] = file.bindings /\ file["artifacts"] = file.artifacts
<1>1. file \in File /\ at \in Nat
  BY GenesisAssumption DEF GenesisTypeOK
<1>2. QED
  BY <1>1 DEF File

LEMMA ReadInvInit == GenesisInit => ReadInv
<1> SUFFICES ASSUME GenesisInit PROVE ReadInv
  OBVIOUS
<1>1. RolesDone = 0 /\ PrincipalsDone = 0 /\ BindingsDone = 0 /\ stage = "roles"
  BY DEF GenesisInit, RolesDone, PrincipalsDone, BindingsDone
<1>2. DOMAIN roles = {} /\ DOMAIN signatures = {} /\ binds = {} /\ 1 .. 0 = {}
  BY DEF GenesisInit
<1>3. QED
  BY <1>1, <1>2 DEF ReadInv, RolesRead, PrincipalsRead, BindingsRead, FailedForCause

LEMMA ReadInvStep == GenesisInv /\ ReadInv /\ [GenesisNext]_genesisVars => ReadInv'
<1> SUFFICES ASSUME GenesisInv, ReadInv, [GenesisNext]_genesisVars PROVE ReadInv'
  OBVIOUS
<1>f. GenesisTypeOK /\ at \in Nat
  BY FileType DEF GenesisInv
<1>1. CASE addRoles
  <2>1. /\ stage = "roles" /\ Entry \in RoleEntry /\ Entry = file.roles[at + 1]
        /\ at + 1 \in DOMAIN file.roles /\ UNCHANGED <<file, signatures, binds, artifacts>>
    BY <1>1, <1>f, EntryType, FileType DEF addRoles, Reading, Entry
  <2>2. /\ RolesRead /\ PrincipalsRead /\ BindingsRead
        /\ DOMAIN roles = 1 .. at /\ PrincipalsDone = 0 /\ BindingsDone = 0
    BY <2>1 DEF ReadInv, RolesRead, RolesDone, PrincipalsDone, BindingsDone
  <2>3. CASE HasDependencies /\ Entry.valid
    <3>1. /\ roles' = Put(roles, at + 1, Entry.ids) /\ at' = at + 1 /\ stage' = stage
      BY <1>1, <2>3 DEF addRoles
    <3>2. /\ RolesDone = at /\ RolesDone' = at + 1 /\ 1 .. at + 1 = (1 .. at) \cup {at + 1}
          /\ PrincipalsDone' = 0 /\ BindingsDone' = 0 /\ (at + 1) - 1 = at
      BY <2>1, <3>1, <1>f DEF RolesDone, PrincipalsDone, BindingsDone
    <3>3. RolesRead'
      <4>1. DOMAIN roles' = 1 .. RolesDone'
        BY <2>2, <3>1, <3>2 DEF Put
      <4>2. ASSUME NEW i \in 1 .. at + 1
            PROVE  /\ roles'[i] = file.roles[i].ids
                   /\ file.roles[i].valid /\ file.roles[i].ids \subseteq 1 .. i - 1
        <5>1. CASE i = at + 1
          BY <5>1, <2>1, <2>2, <2>3, <3>1, <3>2 DEF Put, HasDependencies
        <5>2. CASE i # at + 1
          <6>1. i \in 1 .. at /\ i \in DOMAIN roles /\ roles'[i] = roles[i]
            BY <5>2, <2>2, <3>1, <3>2 DEF Put
          <6>2. QED
            BY <6>1, <2>2, <3>2 DEF RolesRead
        <5>3. QED
          BY <5>1, <5>2
      <4>3. QED
        BY <4>1, <4>2, <3>2, <2>1 DEF RolesRead
    <3>4. QED
      BY <2>1, <2>2, <3>1, <3>2, <3>3 DEF ReadInv, PrincipalsRead, BindingsRead, FailedForCause
  <2>4. CASE ~(HasDependencies /\ Entry.valid)
    <3>1. stage' = "failed"
      BY <1>1, <2>4 DEF addRoles, Fail
    <3>2. (at + 1) - 1 = at
      BY <1>f
    <3>3. ~WellFormed(file)
      BY <2>1, <2>2, <2>4, <3>2 DEF WellFormed, HasDependencies
    <3>4. QED
      BY <2>1, <3>1, <3>3 DEF ReadInv, FailedForCause
  <2>5. QED
    BY <2>3, <2>4
<1>2. CASE addPrincipals
  <2>1. /\ stage = "principals" /\ Entry \in PrincipalEntry /\ Entry = file.principals[at + 1]
        /\ at + 1 \in DOMAIN file.principals /\ UNCHANGED <<file, roles, binds, artifacts>>
    BY <1>2, <1>f, EntryType, FileType DEF addPrincipals, Reading, Entry
  <2>2. /\ RolesRead /\ PrincipalsRead /\ BindingsRead
        /\ PrincipalsDone = at /\ BindingsDone = 0 /\ RolesDone = Len(file.roles)
    BY <2>1 DEF ReadInv, RolesDone, PrincipalsDone, BindingsDone
  <2>3. CASE SignaturesFree /\ Entry.valid
    <3>1. /\ DOMAIN signatures' = DOMAIN signatures \cup Entry.signatures
          /\ at' = at + 1 /\ stage' = stage
      BY <1>2, <2>3 DEF addPrincipals
    <3>2. /\ PrincipalsDone' = at + 1 /\ 1 .. at + 1 = (1 .. at) \cup {at + 1} /\ at + 1 \notin 1 .. at
          /\ RolesDone' = RolesDone /\ BindingsDone' = 0 /\ 1 .. 0 = {}
      BY <2>1, <2>2, <3>1, <1>f DEF RolesDone, PrincipalsDone, BindingsDone
    <3>3. PrincipalsRead'
      <4>1. \A j \in 1 .. at + 1 : file.principals[j].signatures \subseteq DOMAIN signatures'
        BY <2>1, <2>2, <3>1, <3>2 DEF PrincipalsRead
      <4>2. \A a \in DOMAIN signatures' :
              \E j \in 1 .. at + 1 : a \in file.principals[j].signatures
        BY <2>1, <2>2, <3>1, <3>2 DEF PrincipalsRead
      <4>3. \A i \in 1 .. at + 1 : file.principals[i].valid /\ ~file.principals[i].twice
        BY <2>1, <2>2, <2>3, <3>2 DEF PrincipalsRead, SignaturesFree
      <4>4. ASSUME NEW i \in 1 .. at + 1, NEW j \in 1 .. at + 1, i # j
            PROVE  file.principals[i].signatures \cap file.principals[j].signatures = {}
        <5>1. CASE i = at + 1
          BY <5>1, <4>4, <2>1, <2>2, <2>3, <3>2 DEF PrincipalsRead, SignaturesFree
        <5>2. CASE j = at + 1
          BY <5>2, <4>4, <2>1, <2>2, <2>3, <3>2 DEF PrincipalsRead, SignaturesFree
        <5>3. CASE i # at + 1 /\ j # at + 1
          BY <5>3, <4>4, <2>2, <3>2 DEF PrincipalsRead
        <5>4. QED
          BY <5>1, <5>2, <5>3
      <4>5. QED
        BY <4>1, <4>2, <4>3, <4>4, <3>2, <2>1 DEF PrincipalsRead
    <3>4. QED
      BY <2>1, <2>2, <3>1, <3>2, <3>3 DEF ReadInv, RolesRead, BindingsRead, FailedForCause
  <2>4. CASE ~(SignaturesFree /\ Entry.valid)
    <3>1. stage' = "failed"
      BY <1>2, <2>4 DEF addPrincipals, Fail
    <3>2. ~WellFormed(file)
      <4>1. CASE ~Entry.valid \/ Entry.twice
        BY <4>1, <2>1 DEF WellFormed
      <4>2. CASE ~SignaturesFree /\ ~Entry.twice
        <5>1. PICK a : a \in Entry.signatures /\ a \in DOMAIN signatures
          BY <4>2 DEF SignaturesFree
        <5>2. PICK j \in 1 .. at : a \in file.principals[j].signatures
          BY <5>1, <2>2 DEF PrincipalsRead
        <5>3. j \in DOMAIN file.principals \ {at + 1}
          BY <2>1, <1>f, FileType
        <5>4. QED
          BY <5>1, <5>2, <5>3, <2>1 DEF WellFormed
      <4>3. QED
        BY <4>1, <4>2, <2>4
    <3>3. QED
      BY <2>1, <3>1, <3>2 DEF ReadInv, FailedForCause
  <2>5. QED
    BY <2>3, <2>4
<1>3. CASE addRoleBindings
  <2>1. /\ stage = "bindings" /\ Entry \in BindingEntry /\ Entry = file.bindings[at + 1]
        /\ at + 1 \in DOMAIN file.bindings /\ UNCHANGED <<file, roles, signatures, artifacts>>
    BY <1>3, <1>f, EntryType, FileType DEF addRoleBindings, Reading, Entry
  <2>2. /\ RolesRead /\ PrincipalsRead /\ BindingsRead
        /\ BindingsDone = at /\ RolesDone = Len(file.roles)
        /\ PrincipalsDone = Len(file.principals)
    BY <2>1 DEF ReadInv, RolesDone, PrincipalsDone, BindingsDone
  <2>3. CASE Bindable
    <3>1. binds' = binds \cup {Key(Entry)} /\ at' = at + 1 /\ stage' = stage
      BY <1>3, <2>3 DEF addRoleBindings, Key
    <3>2. /\ BindingsDone' = at + 1 /\ 1 .. at + 1 = (1 .. at) \cup {at + 1}
          /\ RolesDone' = RolesDone /\ PrincipalsDone' = PrincipalsDone
      BY <2>1, <2>2, <3>1, <1>f DEF RolesDone, PrincipalsDone, BindingsDone
    <3>3. BindingsRead'
      BY <2>1, <2>2, <2>3, <3>1, <3>2 DEF BindingsRead, Bindable
    <3>4. QED
      BY <2>1, <2>2, <3>1, <3>2, <3>3 DEF ReadInv, RolesRead, PrincipalsRead, FailedForCause
  <2>4. CASE ~Bindable
    <3>1. stage' = "failed"
      BY <1>3, <2>4 DEF addRoleBindings, Fail
    <3>2. ~WellFormed(file)
      <4>1. DOMAIN roles = DOMAIN file.roles /\ PrincipalsDone = Len(file.principals)
        BY <2>2, <1>f, FileType DEF RolesRead
      <4>2. \A j \in DOMAIN file.principals : file.principals[j].signatures \subseteq DOMAIN signatures
        BY <4>1, <2>2, <1>f, FileType DEF PrincipalsRead
      <4>3. QED
        BY <4>1, <4>2, <2>1, <2>4 DEF WellFormed, Bindable
    <3>3. QED
      BY <2>1, <3>1, <3>2 DEF ReadInv, FailedForCause
  <2>5. QED
    BY <2>3, <2>4
<1>4. CASE addArtifacts
  <2>1. /\ stage = "artifacts" /\ Entry = file.artifacts[at + 1]
        /\ at + 1 \in DOMAIN file.artifacts /\ UNCHANGED <<file, roles, signatures, binds>>
    BY <1>4, <1>f, EntryType, FileType DEF addArtifacts, Reading, Entry
  <2>2. stage' \in {"artifacts", "done"} \/ (stage' = "failed" /\ ~Entry.valid)
    BY <1>4, <2>1 DEF addArtifacts, Fail
  <2>3. CASE stage' \in {"artifacts", "done"}
    BY <2>1, <2>3 DEF ReadInv, RolesRead, PrincipalsRead, BindingsRead, FailedForCause,
       RolesDone, PrincipalsDone, BindingsDone
  <2>4. CASE stage' = "failed" /\ ~Entry.valid
    BY <2>1, <2>4 DEF ReadInv, FailedForCause
  <2>5. QED
    BY <2>2, <2>3, <2>4
<1>5. CASE EndOfList
  <2>1. /\ UNCHANGED <<file, roles, signatures, binds, artifacts>> /\ stage \in Lists
        /\ at = Len(file[stage]) /\ at' = 0 /\ stage' = After[stage]
    BY <1>5 DEF EndOfList
  <2>2. UNCHANGED <<RolesDone, PrincipalsDone, BindingsDone>> /\ stage' # "failed"
    BY <2>1, <1>f, FileType DEF After, RolesDone, PrincipalsDone, BindingsDone
  <2>3. QED
    BY <2>1, <2>2 DEF ReadInv, RolesRead, PrincipalsRead, BindingsRead, FailedForCause
<1>6. CASE UNCHANGED genesisVars
  BY <1>6 DEF genesisVars, ReadInv, RolesRead, PrincipalsRead, BindingsRead, FailedForCause,
     RolesDone, PrincipalsDone, BindingsDone
<1>7. QED
  BY <1>1, <1>2, <1>3, <1>4, <1>5, <1>6 DEF GenesisNext, GenesisOver

LEMMA ReadMeansLoaded == ASSUME GenesisInv, ReadInv PROVE LoadsWellFormed
<1>f. GenesisTypeOK
  BY DEF GenesisInv
<1>1. ASSUME stage \in {"artifacts", "done"}
      PROVE  WellFormed(file) /\ roles = RolesOf(file) /\ binds = BindingsOf(file)
  <2>1. /\ RolesRead /\ PrincipalsRead /\ BindingsRead /\ RolesDone = Len(file.roles)
        /\ PrincipalsDone = Len(file.principals) /\ BindingsDone = Len(file.bindings)
    BY <1>1 DEF ReadInv, RolesDone, PrincipalsDone, BindingsDone
  <2>2. /\ DOMAIN file.roles = 1 .. RolesDone /\ DOMAIN file.principals = 1 .. PrincipalsDone
        /\ DOMAIN file.bindings = 1 .. BindingsDone
    BY <2>1, <1>f, FileType
  <2>3. WellFormed(file)
    BY <2>1, <2>2 DEF WellFormed, RolesRead, PrincipalsRead, BindingsRead
  <2>4. roles = RolesOf(file)
    BY <2>1, <2>2, <1>f DEF RolesRead, RolesOf, GenesisTypeOK, IsStore
  <2>5. binds = BindingsOf(file)
    BY <2>1, <2>2 DEF BindingsRead, BindingsOf, Key, Range
  <2>6. QED
    BY <2>3, <2>4, <2>5
<1>2. QED
  BY <1>1 DEF LoadsWellFormed, ReadInv, FailedForCause

(* The types of the stores and of the reading position (init.go). *)
THEOREM GenesisTypeCorrect == GenesisSpec => []GenesisTypeOK
<1>1. GenesisInv => GenesisTypeOK
  BY DEF GenesisInv
<1>2. QED
  BY GenesisInvInit, GenesisInvStep, <1>1, PTL DEF GenesisSpec

(* References between roles, and from bindings to roles and principals,    *)
(* lead to what is stored, at every point of the load (init.go).           *)
THEOREM GenesisNothingDangles == GenesisSpec => []NothingDangles
<1>1. GenesisInv => NothingDangles
  BY DEF GenesisInv
<1>2. QED
  BY GenesisInvInit, GenesisInvStep, <1>1, PTL DEF GenesisSpec

(* What a role names, and what that names in turn, has smaller ids. *)
LEMMA SmallerIds == ASSUME GenesisInv PROVE RolesAcyclic
<1> SUFFICES ASSUME NEW r \in DOMAIN roles PROVE r \notin Reach(roles, roles[r])
  BY DEF RolesAcyclic
<1> DEFINE Smaller == {x \in RoleIds : x < r}
<1>1. Smaller \in SUBSET RoleIds /\ r \in Nat
  BY GenesisAssumption DEF GenesisInv, GenesisTypeOK, IsStore
<1>2. roles[r] \subseteq Smaller
  BY DEF GenesisInv, GenesisTypeOK, IsStore, IdsInOrder
<1>3. Closed(roles, Smaller)
  <2> SUFFICES ASSUME NEW s \in Smaller, NEW x \in Named(roles, s)
               PROVE  x \in Smaller
    BY DEF Closed
  <2>1. s \in DOMAIN roles /\ x \in roles[s]
    BY DEF Named
  <2>2. x < s /\ x \in RoleIds /\ s < r
    BY <2>1 DEF GenesisInv, GenesisTypeOK, IsStore, IdsInOrder
  <2>3. QED
    BY <2>2, <1>1, GenesisAssumption
<1>4. Reach(roles, roles[r]) \subseteq Smaller
  BY <1>1, <1>2, <1>3, ReachLeast
<1>5. QED
  BY <1>1, <1>4

(* No file makes addRoles store a cycle of roles. *)
THEOREM GenesisRolesAcyclic == GenesisSpec => []RolesAcyclic
BY GenesisInvInit, GenesisInvStep, SmallerIds, PTL DEF GenesisSpec

(* Exactly the files whose roles, principals and bindings refer to what    *)
(* stands before them get past the rbac part, and all they say is stored.  *)
THEOREM GenesisLoadsWellFormed == GenesisSpec => []LoadsWellFormed
<1>1. GenesisInv /\ ReadInv => LoadsWellFormed
  BY ReadMeansLoaded
<1>2. QED
  BY GenesisInvInit, GenesisInvStep, ReadInvInit, ReadInvStep, <1>1, PTL DEF GenesisSpec

HIDE DEF Lists, ByGenesis

-----------------------------------------------------------------------------
(***************************************************************************)
(* The walk.  Its invariant: what a processed role names is processed or   *)
(* still to be visited by an active call, what the visited conditions are  *)
(* bound to is processed or waits in roleIDs, and nothing outside Reach    *)
(* was ever put on the way.                                                *)
(***************************************************************************)

(* The ids some active call of loadRoles has still to visit. *)
Frames(s) == UNION {s[i] : i \in DOMAIN s}

Held == Reach(roles, Bound)

Finished == pc \in {"authz", "allowed", "refused"}

Walk ==
  /\ pc = "failed" => \E r \in Held : r \notin DOMAIN roles
  /\ pc # "failed" =>
       /\ \A a \in signed \ conds : FindRoleIDsByAddress(a) \subseteq processed \cup roleIDs
       /\ \A r \in processed : roles[r] \subseteq processed \cup Frames(stack)
       /\ processed \cup roleIDs \cup Frames(stack) \subseteq Held
  /\ Finished =>
       /\ conds = {} /\ roleIDs = {} /\ stack = << >>
       /\ granted = UNION {RolePermissions[r] : r \in processed}
  /\ pc = "allowed" => HasPermission(granted, resolvePermission(path))
  /\ pc = "refused" => ~HasPermission(granted, resolvePermission(path))

IInv == TypeOK /\ Walk

-----------------------------------------------------------------------------
LEMMA PushFrame ==
  ASSUME NEW s \in Seq(SUBSET RoleIds), NEW f \in SUBSET RoleIds
  PROVE  /\ <<f>> \o s \in Seq(SUBSET RoleIds)
         /\ Frames(<<f>> \o s) = f \cup Frames(s)
<1> DEFINE t == <<f>> \o s
<1>1. /\ t \in Seq(SUBSET RoleIds) /\ Len(t) = Len(s) + 1 /\ t[1] = f
      /\ \A i \in 1 .. Len(s) : t[i + 1] = s[i]
  OBVIOUS
<1>2. f \cup Frames(s) \subseteq Frames(t)
  <2>1. f \subseteq Frames(t)
    BY <1>1 DEF Frames
  <2>2. ASSUME NEW i \in DOMAIN s PROVE s[i] \subseteq Frames(t)
    <3>1. i \in 1 .. Len(s) /\ i + 1 \in DOMAIN t /\ t[i + 1] = s[i]
      BY <1>1
    <3>2. QED
      BY <3>1 DEF Frames
  <2>3. QED
    BY <2>1, <2>2 DEF Frames
<1>3. ASSUME NEW i \in DOMAIN t PROVE t[i] \subseteq f \cup Frames(s)
  <2>1. CASE i = 1
    BY <1>1, <2>1
  <2>2. CASE i # 1
    <3>1. i - 1 \in 1 .. Len(s) /\ t[i] = s[i - 1]
      BY <1>1, <2>2
    <3>2. QED
      BY <3>1 DEF Frames
  <2>3. QED
    BY <2>1, <2>2
<1>4. QED
  BY <1>1, <1>2, <1>3 DEF Frames

LEMMA TopFrame ==
  ASSUME NEW s \in Seq(SUBSET RoleIds), s # << >>
  PROVE  /\ Head(s) \in SUBSET RoleIds /\ Tail(s) \in Seq(SUBSET RoleIds)
         /\ Frames(s) = Head(s) \cup Frames(Tail(s))
<1>1. Head(s) \in SUBSET RoleIds /\ Tail(s) \in Seq(SUBSET RoleIds)
  OBVIOUS
<1>2. s = <<Head(s)>> \o Tail(s)
  OBVIOUS
<1>3. QED
  BY <1>1, <1>2, PushFrame

LEMMA NoFrames == Frames(<< >>) = {}
BY DEF Frames

(* One call of loadRoles: the role is marked, its ids become the new top   *)
(* frame, or the walk fails.                                               *)
LEMMA EnterStep ==
  ASSUME TypeOK, pc = "authn", UNCHANGED input,
         NEW r \in Held, NEW frames \in Seq(SUBSET RoleIds),
         EnterLoadRoles(r, frames),
         Frames(frames) \cup processed \subseteq Held,
         \A x \in processed : roles[x] \subseteq processed \cup {r} \cup Frames(frames)
  PROVE  /\ stack' \in Seq(SUBSET RoleIds)
         /\ processed \subseteq processed' /\ processed' \subseteq DOMAIN roles
         /\ \/ pc' = "failed" /\ r \notin DOMAIN roles
            \/ /\ pc' = "authn" /\ r \in processed'
               /\ processed' \cup Frames(stack') \subseteq Held
               /\ \A x \in processed' : roles[x] \subseteq processed' \cup Frames(stack')
<1>1. CASE r \in processed
  BY <1>1 DEF EnterLoadRoles, TypeOK
<1>2. CASE r \notin processed /\ r \in DOMAIN roles
  <2>1. /\ processed' = processed \cup {r} /\ stack' = <<roles[r]>> \o frames
        /\ pc' = "authn"
    BY <1>2 DEF EnterLoadRoles
  <2>2. roles[r] \in SUBSET RoleIds /\ IsStore(roles)
    BY <1>2 DEF TypeOK, IsStore
  <2>3. stack' \in Seq(SUBSET RoleIds) /\ Frames(stack') = roles[r] \cup Frames(frames)
    BY <2>1, <2>2, PushFrame
  <2>4. roles[r] \subseteq Held
    BY <1>2, <2>2, ReachClosed DEF Held, Closed, Named
  <2>5. QED
    BY <1>2, <2>1, <2>3, <2>4 DEF TypeOK
<1>3. CASE r \notin processed /\ r \notin DOMAIN roles
  <2>1. stack' = << >> /\ pc' = "failed" /\ processed' = processed
    BY <1>3 DEF EnterLoadRoles
  <2>2. << >> \in Seq(SUBSET RoleIds)
    OBVIOUS
  <2>3. QED
    BY <1>3, <2>1, <2>2 DEF TypeOK
<1>4. QED
  BY <1>1, <1>2, <1>3

-----------------------------------------------------------------------------
(* A transaction that just came in. *)
Fresh ==
  /\ IsStore(roles) /\ binds \subseteq Addresses \X RoleIds /\ signed \subseteq Addresses
  /\ conds = signed /\ roleIDs = {} /\ stack = << >> /\ processed = {} /\ costs = 0
  /\ pc = "authn"

LEMMA FreshIInv == Fresh => IInv
<1> SUFFICES ASSUME Fresh PROVE IInv
  OBVIOUS
<1>1. TypeOK
  BY DEF Fresh, TypeOK, IsStore
<1>2. Walk
  BY NoFrames DEF Fresh, Walk, Finished
<1>3. QED
  BY <1>1, <1>2 DEF IInv

LEMMA InitIInv == Init => IInv
<1>1. Init => Fresh
  BY RbacAuthAssumption DEF Init, Fresh, IsStore
<1>2. QED
  BY <1>1, FreshIInv

LEMMA NextIInv == IInv /\ [Next]_vars => IInv'
<1> SUFFICES ASSUME IInv, [Next]_vars PROVE IInv'
  OBVIOUS
<1> USE DEF IInv, input
<1>a. ASSUME UNCHANGED input
      PROVE  /\ UNCHANGED <<Held, Bound>>
             /\ \A a : FindRoleIDsByAddress(a)' = FindRoleIDsByAddress(a)
  BY <1>a DEF Held, Bound, FindRoleIDsByAddress
<1>b. ASSUME NEW a \in signed PROVE FindRoleIDsByAddress(a) \subseteq Held
  <2>1. FindRoleIDsByAddress(a) \subseteq Bound /\ Bound \in SUBSET RoleIds
    BY <1>b DEF FindRoleIDsByAddress, Bound
  <2>2. QED
    BY <2>1, ReachContains DEF Held
<1>1. CASE NextCondition
  <2>1. PICK c \in conds : conds' = conds \ {c} /\ roleIDs' = FindRoleIDsByAddress(c)
    BY <1>1 DEF NextCondition
  <2>2. /\ UNCHANGED <<input, stack, processed, costs, granted, pc>>
        /\ pc = "authn" /\ roleIDs = {}
    BY <1>1 DEF NextCondition
  <2>3. TypeOK'
    BY <2>1, <2>2 DEF TypeOK, FindRoleIDsByAddress
  <2>4. Walk'
    BY <1>a, <1>b, <2>1, <2>2 DEF Walk, TypeOK, Finished
  <2>5. QED
    BY <2>3, <2>4
<1>2. CASE NextBinding
  <2>1. PICK r \in roleIDs : roleIDs' = roleIDs \ {r} /\ EnterLoadRoles(r, << >>)
    BY <1>2 DEF NextBinding
  <2>2. /\ pc = "authn" /\ stack = << >> /\ UNCHANGED <<input, conds, granted>>
        /\ costs' \in {0, costs + GasCost}
    BY <1>2 DEF NextBinding
  <2>3. /\ stack' \in Seq(SUBSET RoleIds)
        /\ processed \subseteq processed' /\ processed' \subseteq DOMAIN roles
        /\ \/ pc' = "failed" /\ r \notin DOMAIN roles
           \/ /\ pc' = "authn" /\ r \in processed'
              /\ processed' \cup Frames(stack') \subseteq Held
              /\ \A x \in processed' : roles[x] \subseteq processed' \cup Frames(stack')
    BY <2>1, <2>2, EnterStep, NoFrames DEF Walk, TypeOK
  <2>4. TypeOK'
    BY <2>1, <2>2, <2>3, RbacAuthAssumption DEF TypeOK
  <2>5. Walk'
    BY <1>a, <2>1, <2>2, <2>3 DEF Walk, Finished
  <2>6. QED
    BY <2>4, <2>5
<1>3. CASE NextNamedRole
  <2>1. PICK r \in Head(stack) : EnterLoadRoles(r, <<Head(stack) \ {r}>> \o Tail(stack))
    BY <1>3 DEF NextNamedRole
  <2>2. /\ pc = "authn" /\ stack # << >> /\ UNCHANGED <<input, conds, roleIDs, granted>>
        /\ costs' \in {0, costs}
    BY <1>3 DEF NextNamedRole
  <2> DEFINE rest == <<Head(stack) \ {r}>> \o Tail(stack)
  <2>3. /\ rest \in Seq(SUBSET RoleIds) /\ r \in Frames(stack)
        /\ {r} \cup Frames(rest) = Frames(stack)
    <3>1. /\ Head(stack) \in SUBSET RoleIds /\ Tail(stack) \in Seq(SUBSET RoleIds)
          /\ Frames(stack) = Head(stack) \cup Frames(Tail(stack))
      BY <2>2, TopFrame DEF TypeOK
    <3>2. rest \in Seq(SUBSET RoleIds) /\ Frames(rest) = (Head(stack) \ {r}) \cup Frames(Tail(stack))
      BY <3>1, PushFrame
    <3>3. QED
      BY <2>1, <3>1, <3>2
  <2>4. /\ stack' \in Seq(SUBSET RoleIds)
        /\ processed \subseteq processed' /\ processed' \subseteq DOMAIN roles
        /\ \/ pc' = "failed" /\ r \notin DOMAIN roles
           \/ /\ pc' = "authn" /\ r \in processed'
              /\ processed' \cup Frames(stack') \subseteq Held
              /\ \A x \in processed' : roles[x] \subseteq processed' \cup Frames(stack')
    <3>1. r \in Held /\ Frames(rest) \cup processed \subseteq Held
      BY <2>2, <2>3 DEF Walk
    <3>2. \A x \in processed : roles[x] \subseteq processed \cup {r} \cup Frames(rest)
      BY <2>2, <2>3 DEF Walk
    <3>3. EnterLoadRoles(r, rest)
      BY <2>1
    <3> HIDE DEF rest
    <3>4. QED
      BY <2>2, <2>3, <3>1, <3>2, <3>3, EnterStep
  <2>5. TypeOK'
    BY <2>2, <2>4, RbacAuthAssumption DEF TypeOK
  <2>6. r \in Held
    BY <2>2, <2>3 DEF Walk
  <2>7. Walk'
    BY <1>a, <2>2, <2>4, <2>6 DEF Walk, Finished
  <2>8. QED
    BY <2>5, <2>7
<1>4. CASE ReturnFromLoadRoles
  <2>1. /\ pc = "authn" /\ stack # << >> /\ Head(stack) = {} /\ stack' = Tail(stack)
        /\ UNCHANGED <<input, conds, roleIDs, processed, costs, granted, pc>>
    BY <1>4 DEF ReturnFromLoadRoles
  <2>2. stack' \in Seq(SUBSET RoleIds) /\ Frames(stack') = Frames(stack)
    BY <2>1, TopFrame DEF TypeOK
  <2>3. QED
    BY <1>a, <2>1, <2>2 DEF TypeOK, Walk, Finished
<1>5. CASE withRBAC
  BY <1>a, <1>5 DEF withRBAC, TypeOK, Walk, Finished
<1>6. CASE Authorize
  BY <1>a, <1>6 DEF Authorize, TypeOK, Walk, Finished
<1>7. CASE UNCHANGED vars
  BY <1>a, <1>7 DEF vars, TypeOK, Walk, Finished
<1>8. QED
  BY <1>1, <1>2, <1>3, <1>4, <1>5, <1>6, <1>7 DEF Next, Decided

-----------------------------------------------------------------------------
(* When the walk has ended without an error it has found the held roles. *)
LEMMA WalkFound == ASSUME IInv, Finished PROVE processed = Held
<1>1. Bound \in SUBSET RoleIds /\ processed \in SUBSET RoleIds
  BY DEF Bound, IInv, TypeOK, IsStore
<1>2. Bound \subseteq processed
  BY DEF Bound, FindRoleIDsByAddress, IInv, Walk, Finished
<1>3. Closed(roles, processed)
  BY NoFrames DEF Closed, Named, IInv, TypeOK, Walk, Finished
<1>4. QED
  BY <1>1, <1>2, <1>3, ReachUnique DEF Held, IInv, Walk, Finished

(* The variables of the walk keep their types (authRoles). *)
THEOREM RbacTypeCorrect == Spec => []TypeOK
<1>1. IInv => TypeOK
  BY DEF IInv
<1>2. QED
  BY InitIInv, NextIInv, <1>1, PTL DEF Spec

LEMMA LoadedByWalk == IInv => LoadedExactly
BY WalkFound DEF LoadedExactly, Finished, Held

(* authRoles loads the roles the signers hold, no fewer and no more. *)
THEOREM RbacLoadedExactly == Spec => []LoadedExactly
BY InitIInv, NextIInv, LoadedByWalk, PTL DEF Spec

LEMMA DecisionOfWalk == IInv => DecidedByHeldRoles
<1> SUFFICES ASSUME IInv, pc \in {"allowed", "refused"}
             PROVE  HasPermission(granted, resolvePermission(path)) <=>
                    \E r \in Held : HasPermission(RolePermissions[r], resolvePermission(path))
  BY DEF DecidedByHeldRoles, Held, IInv, Walk
<1>1. granted = UNION {RolePermissions[r] : r \in Held}
  BY WalkFound DEF IInv, Walk, Finished
<1>2. QED
  BY <1>1 DEF HasPermission

(* A message passes AuthZDecorator only for a held role with a permission  *)
(* for it, and is refused only when there is none.                         *)
THEOREM RbacDecidedByHeldRoles == Spec => []DecidedByHeldRoles
  BY InitIInv, NextIInv, DecisionOfWalk, PTL DEF Spec

LEMMA FailureOfWalk == IInv => FailsOnMissingRole
<1> SUFFICES ASSUME IInv PROVE FailsOnMissingRole
  OBVIOUS
<1>1. pc = "failed" => Held \ DOMAIN roles # {}
  BY DEF IInv, Walk
<1>2. Finished => Held \ DOMAIN roles = {}
  BY WalkFound DEF IInv, TypeOK
<1>3. QED
  BY <1>1, <1>2 DEF FailsOnMissingRole, Held, Finished

(* The walk fails exactly when a held role is missing from the bucket. *)
THEOREM RbacFailsOnMissingRole == Spec => []FailsOnMissingRole
BY InitIInv, NextIInv, FailureOfWalk, PTL DEF Spec

-----------------------------------------------------------------------------
(* The buckets are well-typed whoever filled them; what genesis filled it  *)
(* with follows the file; and only a filled store is asked.                *)
AccessInv ==
  /\ IsStore(roles) /\ binds \subseteq Addresses \X RoleIds
  /\ stage # "bypassed" => GenesisInv /\ ReadInv
  /\ pc # "idle" => IInv /\ stage \in {"done", "bypassed"}

LEMMA AccessInvInit == AccessInit => AccessInv
<1> SUFFICES ASSUME AccessInit PROVE AccessInv
  OBVIOUS
<1>1. pc = "idle"
  BY DEF AccessInit, Idle
<1>2. CASE GenesisInit
  <2>1. GenesisInv /\ ReadInv
    BY <1>2, GenesisInvInit, ReadInvInit
  <2>2. QED
    BY <1>1, <2>1 DEF AccessInv, GenesisInv, GenesisTypeOK
<1>3. CASE Bypassed
  BY <1>1, <1>3, RbacAuthAssumption DEF Bypassed, AccessInv, IsStore
<1>4. QED
  BY <1>2, <1>3 DEF AccessInit

(* Neither invariant looks at more than its own variables. *)
LEMMA GenesisUntouched ==
  ASSUME GenesisInv, ReadInv, UNCHANGED genesisVars
  PROVE  GenesisInv' /\ ReadInv'
<1>1. [GenesisNext]_genesisVars
  OBVIOUS
<1>2. QED
  BY <1>1, GenesisInvStep, ReadInvStep

LEMMA AccessInvStep == AccessInv /\ [AccessNext]_all => AccessInv'
<1> SUFFICES ASSUME AccessInv, [AccessNext]_all PROVE AccessInv'
  OBVIOUS
<1>1. CASE Load
  <2>1. GenesisNext /\ UNCHANGED authVars /\ stage # "bypassed"
    BY <1>1 DEF Load, GenesisNext, addRoles, addPrincipals, addRoleBindings, addArtifacts,
       Reading, EndOfList, GenesisOver, Lists
  <2>2. GenesisInv' /\ ReadInv'
    BY <2>1, GenesisInvStep, ReadInvStep DEF AccessInv
  <2>3. IsStore(roles)' /\ (binds \subseteq Addresses \X RoleIds)'
    BY <2>2 DEF GenesisInv, GenesisTypeOK
  <2>4. ASSUME pc' # "idle" PROVE IInv' /\ stage' \in {"done", "bypassed"}
    <3>1. IInv /\ stage = "done"
      BY <2>1, <2>4 DEF AccessInv, authVars
    <3>2. UNCHANGED genesisVars
      BY <2>1, <3>1 DEF GenesisNext, addRoles, addPrincipals, addRoleBindings, addArtifacts,
         Reading, EndOfList, GenesisOver, Lists
    <3>3. UNCHANGED vars /\ stage' = stage
      BY <2>1, <3>2 DEF authVars, genesisVars, vars
    <3>4. QED
      BY <3>1, <3>3, NextIInv
  <2>5. QED
    BY <2>2, <2>3, <2>4 DEF AccessInv
<1>2. CASE Transaction
  <2>1. UNCHANGED genesisVars /\ stage \in {"done", "bypassed"}
    BY <1>2 DEF Transaction, fileVars, genesisVars
  <2>2. Fresh'
    BY <1>2 DEF Transaction, Fresh, AccessInv, IsStore
  <2>3. IInv'
    BY <2>2, FreshIInv, PTL
  <2>4. stage # "bypassed" => GenesisInv' /\ ReadInv'
    BY <2>1, GenesisUntouched DEF AccessInv
  <2>5. QED
    BY <2>1, <2>2, <2>3, <2>4 DEF AccessInv, genesisVars, Fresh
<1>3. CASE Decorate
  <2>1. UNCHANGED genesisVars /\ IInv /\ Next /\ stage \in {"done", "bypassed"}
    BY <1>3 DEF Decorate, AccessInv, fileVars, genesisVars, Next, NextCondition, NextBinding,
       NextNamedRole, ReturnFromLoadRoles, withRBAC, Authorize, Decided, input, vars
  <2>2. IInv'
    BY <2>1, NextIInv
  <2>3. stage # "bypassed" => GenesisInv' /\ ReadInv'
    BY <2>1, GenesisUntouched DEF AccessInv
  <2>4. QED
    BY <2>1, <2>2, <2>3 DEF AccessInv, genesisVars, IInv, TypeOK
<1>4. CASE UNCHANGED all
  <2>1. UNCHANGED genesisVars /\ UNCHANGED vars
    BY <1>4 DEF all, authVars, fileVars, genesisVars, vars
  <2>2. stage # "bypassed" => GenesisInv' /\ ReadInv'
    BY <2>1, GenesisUntouched DEF AccessInv
  <2>3. pc # "idle" => IInv'
    BY <2>1, NextIInv DEF AccessInv
  <2>4. QED
    BY <2>1, <2>2, <2>3 DEF AccessInv, genesisVars, vars
<1>5. QED
  BY <1>1, <1>2, <1>3, <1>4 DEF AccessNext

LEMMA HeldIsGiven ==
  ASSUME AccessInv, stage = "done", pc # "idle"
  PROVE  GivenByFile(signed) = Held /\ Held \subseteq DOMAIN roles
<1>1. /\ roles = RolesOf(file) /\ binds = BindingsOf(file) /\ NothingDangles
      /\ DOMAIN roles \in SUBSET RoleIds
  BY ReadMeansLoaded DEF AccessInv, LoadsWellFormed, GenesisInv, IsStore
<1>2. Bound = {b[2] : b \in {c \in BindingsOf(file) : c[1] \in signed}}
  <2>1. ASSUME NEW r \in Bound
        PROVE  r \in {b[2] : b \in {c \in BindingsOf(file) : c[1] \in signed}}
    <3>1. PICK a \in signed : <<a, r>> \in binds
      BY DEF Bound
    <3>2. QED
      BY <1>1, <3>1
  <2>2. ASSUME NEW c \in binds, c[1] \in signed
        PROVE  c[2] \in Bound
    <3>1. c[2] \in RoleIds /\ c = <<c[1], c[2]>>
      BY DEF AccessInv
    <3>2. QED
      BY <2>2, <3>1 DEF Bound
  <2>3. QED
    BY <1>1, <2>1, <2>2
<1>3. Bound \subseteq DOMAIN roles /\ Closed(roles, DOMAIN roles)
  <2>1. /\ \A r \in DOMAIN roles : roles[r] \subseteq DOMAIN roles
        /\ \A b \in binds : b[2] \in DOMAIN roles
    BY <1>1 DEF NothingDangles, ByGenesis
  <2>2. ASSUME NEW r \in Bound PROVE r \in DOMAIN roles
    <3>1. PICK a \in signed : <<a, r>> \in binds
      BY DEF Bound
    <3>2. QED
      BY <2>1, <3>1
  <2>3. QED
    BY <2>1, <2>2 DEF Closed, Named
<1>4. Held \subseteq DOMAIN roles
  BY <1>1, <1>3, ReachLeast DEF Held
<1>5. QED
  BY <1>1, <1>2, <1>4 DEF GivenByFile, Held

(* For every genesis file and every sequence of transactions: what passes  *)
(* AuthZDecorator and what it refuses is what the file says of the roles   *)
(* of the signers, and no walk over the store fails.                       *)
THEOREM AccessFollows == AccessSpec => []AccessFollowsFile
<1>1. AccessInv => AccessFollowsFile
  <2> SUFFICES ASSUME AccessInv, stage # "bypassed", pc \in {"allowed", "refused", "failed"}
               PROVE  AccessFollowsFile
    BY DEF AccessFollowsFile
  <2>1. stage = "done" /\ IInv
    BY DEF AccessInv
  <2>2. GivenByFile(signed) = Held /\ Held \subseteq DOMAIN roles
    BY <2>1, HeldIsGiven
  <2>3. pc # "failed"
    BY <2>1, <2>2 DEF IInv, Walk
  <2>4. DecidedByHeldRoles
    BY <2>1, DecisionOfWalk
  <2>5. QED
    BY <2>2, <2>3, <2>4 DEF AccessFollowsFile, DecidedByHeldRoles, Held
<1>2. QED
  BY AccessInvInit, AccessInvStep, <1>1, PTL DEF AccessSpec

(* The walk after genesis, or over buckets that were filled past it, keeps *)
(* its promises transaction after transaction: nothing that was loaded or  *)
(* decided before is seen by the next (roleIdsProcessed, withRBAC).        *)
THEOREM AccessWalksSound ==
  AccessSpec => [](LoadedExactly /\ DecidedByHeldRoles /\ FailsOnMissingRole)
<1>1. AccessInv => LoadedExactly /\ DecidedByHeldRoles /\ FailsOnMissingRole
  <2>1. CASE pc = "idle"
    BY <2>1 DEF LoadedExactly, DecidedByHeldRoles, FailsOnMissingRole
  <2>2. CASE pc # "idle"
    BY <2>2, LoadedByWalk, DecisionOfWalk, FailureOfWalk DEF AccessInv
  <2>3. QED
    BY <2>1, <2>2
<1>2. QED
  BY AccessInvInit, AccessInvStep, <1>1, PTL DEF AccessSpec

(* What the transactions find is what genesis left: no cycle of roles, and *)
(* the roles and bindings of the file, as long as the node runs.           *)
THEOREM AccessStoreIsGenesis == AccessSpec => [](RolesAcyclic /\ LoadsWellFormed)
<1>1. AccessInv => RolesAcyclic /\ LoadsWellFormed
  <2> SUFFICES ASSUME AccessInv PROVE RolesAcyclic /\ LoadsWellFormed
    OBVIOUS
  <2>1. CASE stage = "bypassed"
    BY <2>1 DEF RolesAcyclic, LoadsWellFormed, ByGenesis, Lists
  <2>2. CASE stage # "bypassed"
    BY <2>2, SmallerIds, ReadMeansLoaded DEF AccessInv
  <2>3. QED
    BY <2>1, <2>2
<1>2. QED
  BY AccessInvInit, AccessInvStep, <1>1, PTL DEF AccessSpec
=============================================================================
