------------------------- MODULE GrafainChain_proofs -------------------------
(***************************************************************************)
(* Safety of the chain for any number of nodes, keys, contracts, images    *)
(* and transactions, any length of the chain and any number of crashes.    *)
(*                                                                         *)
(* The argument: the ledger is one execution of the chain (Executed); the  *)
(* deliver store of a node is the ledger's store after as many             *)
(* transactions as the node has executed, the committed store the one at   *)
(* the end of its last block (OnLedger).  Sequences only grow along the    *)
(* ledger and every used signature lies below them (SpentForGood).         *)
(***************************************************************************)
EXTENDS GrafainChain, FiniteSetTheorems, WellFoundedInduction, TLAPS

-----------------------------------------------------------------------------
(* Induction up to N, for a set instead of a predicate. *)
LEMMA UpTo ==
  ASSUME NEW N \in Nat, NEW S, 0 \in S,
         \A n \in 0 .. N - 1 : n \in S => n + 1 \in S
  PROVE  0 .. N \subseteq S
<1> DEFINE bad == (0 .. N) \ S
<1> SUFFICES ASSUME bad # {} PROVE FALSE
  OBVIOUS
<1>1. bad \subseteq Nat
  OBVIOUS
<1>2. PICK m \in bad : \A j \in bad : ~(<<j, m>> \in OpToRel(<, Nat))
  BY <1>1, NatLessThanWellFounded, WFMin
<1>3. m \in 0 .. N /\ m \notin S /\ \A j \in bad : ~(j < m)
  BY <1>1, <1>2 DEF OpToRel
<1>4. m - 1 \in 0 .. N - 1 /\ m - 1 \notin bad
  BY <1>3
<1>5. QED
  BY <1>3, <1>4

-----------------------------------------------------------------------------
(* One transaction on one store. *)

(* The signatures of key k that verify. *)
UsesOf(st, tx, k) ==
  {i \in Verified(st.nonces, tx.signatures) : tx.signatures[i].key = k}

LEMMA SignatureTypes ==
  ASSUME NEW tx \in Tx
  PROVE  /\ tx.signatures \in Seq(StdSignature)
         /\ DOMAIN tx.signatures = 1 .. Len(tx.signatures)
         /\ Len(tx.signatures) \in Nat
         /\ \A i \in DOMAIN tx.signatures :
              /\ i \in Nat /\ tx.signatures[i].key \in Keys
              /\ tx.signatures[i].sequence \in Nat
  <1>1. tx.signatures \in Seq(StdSignature)
    BY DEF Tx
  <1>2. \A i \in DOMAIN tx.signatures : tx.signatures[i] \in StdSignature
    BY <1>1
  <1>3. QED
    BY <1>1, <1>2 DEF StdSignature

LEMMA UsesFinite ==
  ASSUME NEW st, NEW tx \in Tx, NEW k
  PROVE  /\ IsFiniteSet(UsesOf(st, tx, k))
         /\ Cardinality(UsesOf(st, tx, k)) \in Nat
<1>1. IsFiniteSet(DOMAIN tx.signatures)
  BY SignatureTypes, FS_Interval
<1>2. UsesOf(st, tx, k) \in SUBSET DOMAIN tx.signatures
  BY DEF UsesOf, Verified
<1>3. IsFiniteSet(UsesOf(st, tx, k))
  BY <1>1, <1>2, FS_Subset
<1>4. QED
  BY <1>3, FS_CardinalityType

(* What the signature decorator does to each key's sequence. *)
LEMMA AfterSignaturesNonces ==
  ASSUME NEW st \in Store, NEW tx \in Tx
  PROVE  /\ AfterSignatures(st, tx) \in Store
         /\ AfterSignatures(st, tx).artifacts = st.artifacts
         /\ AfterSignatures(st, tx).contracts = st.contracts
         /\ \A k \in Keys : AfterSignatures(st, tx).nonces[k] =
                              st.nonces[k] + Cardinality(UsesOf(st, tx, k))
<1> DEFINE nonces == [k \in Keys |-> st.nonces[k] + Cardinality(UsesOf(st, tx, k))]
<1>1. AfterSignatures(st, tx) = [st EXCEPT !.nonces = nonces]
  BY DEF AfterSignatures, UsesOf
<1>2. st.nonces \in [Keys -> Nat]
  BY DEF Store
<1>3. nonces \in [Keys -> Nat]
  BY <1>2, UsesFinite
<1>4. QED
  BY <1>1, <1>3 DEF Store

(* Sequences never go back. *)
LEMMA NoncesGrow ==
  ASSUME NEW st \in Store, NEW tx \in Tx, NEW k \in Keys
  PROVE  st.nonces[k] <= AfterSignatures(st, tx).nonces[k]
<1>1. st.nonces[k] \in Nat
  BY DEF Store
<1>2. QED
  BY <1>1, AfterSignaturesNonces, UsesFinite

(* A signature that verified has a sequence no older one has, and leaves   *)
(* its key with a greater one.                                             *)
LEMMA UsedUp ==
  ASSUME NEW st \in Store, NEW tx \in Tx,
         NEW i \in Verified(st.nonces, tx.signatures)
  PROVE  /\ st.nonces[tx.signatures[i].key] <= tx.signatures[i].sequence
         /\ tx.signatures[i].sequence <
              AfterSignatures(st, tx).nonces[tx.signatures[i].key]
<1> DEFINE sigs == tx.signatures
           k == sigs[i].key
           before == {j \in 1 .. i - 1 : sigs[j].key = k}
<1>1. i \in DOMAIN sigs /\ i \in Nat /\ k \in Keys /\ st.nonces[k] \in Nat
  <2>1. i \in DOMAIN sigs
    BY DEF Verified
  <2>2. i \in Nat /\ k \in Keys
    BY <2>1, SignatureTypes
  <2>3. st.nonces \in [Keys -> Nat]
    BY DEF Store
  <2>4. QED
    BY <2>1, <2>2, <2>3
<1>2. sigs[i].sequence = st.nonces[k] + Cardinality(before)
  <2>1. i \in 1 .. i
    BY <1>1, SignatureTypes
  <2>2. Fits(st.nonces, sigs, i)
    BY <2>1 DEF Verified
  <2>3. QED
    BY <2>2 DEF Fits
<1>3. IsFiniteSet(before) /\ Cardinality(before) \in Nat
  <2>1. IsFiniteSet(1 .. i - 1)
    BY <1>1, FS_Interval
  <2>2. before \in SUBSET (1 .. i - 1)
    OBVIOUS
  <2>3. QED
    BY <2>1, <2>2, FS_Subset, FS_CardinalityType
<1>4. before \cup {i} \in SUBSET UsesOf(st, tx, k)
  <2>1. ASSUME NEW j \in 1 .. i - 1 PROVE j \in Verified(st.nonces, sigs)
    <3>1. j \in DOMAIN sigs /\ 1 .. j \subseteq 1 .. i
      BY <1>1, SignatureTypes
    <3>2. QED
      BY <3>1 DEF Verified
  <2>2. QED
    BY <2>1 DEF UsesOf
<1>5. Cardinality(before \cup {i}) = Cardinality(before) + 1
  <2>1. i \notin before
    BY <1>1
  <2> HIDE DEF before
  <2>2. QED
    BY <2>1, <1>3, FS_AddElement
<1>6. Cardinality(before \cup {i}) <= Cardinality(UsesOf(st, tx, k))
  BY <1>4, UsesFinite, FS_Subset
<1>7. AfterSignatures(st, tx).nonces[k] = st.nonces[k] + Cardinality(UsesOf(st, tx, k))
  BY <1>1, AfterSignaturesNonces
<1>8. Cardinality(UsesOf(st, tx, k)) \in Nat
  BY UsesFinite
<1> HIDE DEF sigs, k, before
<1>9. st.nonces[k] <= sigs[i].sequence /\ sigs[i].sequence < AfterSignatures(st, tx).nonces[k]
  BY <1>1, <1>2, <1>3, <1>5, <1>6, <1>7, <1>8
<1>10. QED
  BY <1>9 DEF sigs, k

LEMMA HandleType ==
  ASSUME NEW st \in Store, NEW msg \in HandlerMsg
  PROVE  Handle(st, msg) \in Store /\ Handle(st, msg).nonces = st.nonces
<1>1. CASE msg \in CreateArtifactMsg
  BY <1>1 DEF Handle, Store, CreateArtifactMsg, Artifact
<1>2. CASE msg \in DeleteArtifactMsg
  BY <1>2 DEF Handle, Store, DeleteArtifactMsg
<1>3. CASE msg \in UpdateMsg
  BY <1>3 DEF Handle, Store, UpdateMsg
<1>4. QED
  BY <1>1, <1>2, <1>3 DEF HandlerMsg

(* A message is one for a handler, or a batch of two updates. *)
LEMMA MessageKinds ==
  ASSUME NEW tx \in Tx
  PROVE  /\ tx.msg.op # "batch" => tx.msg \in HandlerMsg
         /\ tx.msg.op = "batch" => /\ tx.msg.first \in UpdateMsg /\ tx.msg.first \in HandlerMsg
                                   /\ tx.msg.second \in UpdateMsg /\ tx.msg.second \in HandlerMsg
<1>1. CASE tx.msg \in HandlerMsg
  <2>1. tx.msg.op # "batch"
    BY <1>1 DEF HandlerMsg, CreateArtifactMsg, DeleteArtifactMsg, UpdateMsg
  <2>2. QED
    BY <1>1, <2>1
<1>2. CASE tx.msg \in ExecuteBatchMsg
  <2>1. tx.msg.op = "batch" /\ tx.msg.first \in UpdateMsg /\ tx.msg.second \in UpdateMsg
    BY <1>2 DEF ExecuteBatchMsg
  <2>2. QED
    BY <2>1 DEF HandlerMsg
<1>3. QED
  BY <1>1, <1>2 DEF Tx

(* An update leaves the artifacts alone. *)
LEMMA UpdateKeepsArtifacts ==
  ASSUME NEW st \in Store, NEW msg \in UpdateMsg
  PROVE  /\ msg.op = "update"
         /\ Handle(st, msg) = [st EXCEPT !.contracts[msg.contract] = msg.new]
         /\ Handle(st, msg).artifacts = st.artifacts
<1>1. msg.op = "update"
  BY DEF UpdateMsg
<1>2. Handle(st, msg) = [st EXCEPT !.contracts[msg.contract] = msg.new]
  BY <1>1 DEF Handle
<1>3. QED
  BY <1>1, <1>2 DEF Store

LEMMA ExecuteType ==
  ASSUME NEW st \in Store, NEW tx \in Tx
  PROVE  Execute(st, tx.msg) \in Store /\ Execute(st, tx.msg).nonces = st.nonces
<1>1. CASE tx.msg.op # "batch"
  BY <1>1, MessageKinds, HandleType DEF Execute
<1>2. CASE tx.msg.op = "batch"
  <2> DEFINE half == Handle(st, tx.msg.first)
  <2>1. half \in Store /\ half.nonces = st.nonces
    BY <1>2, MessageKinds, HandleType
  <2>2. Handle(half, tx.msg.second) \in Store /\ Handle(half, tx.msg.second).nonces = half.nonces
    BY <1>2, <2>1, MessageKinds, HandleType
  <2>3. QED
    BY <1>2, <2>1, <2>2 DEF Execute
<1>3. QED
  BY <1>1, <1>2

(* Delivery and checking lead from stores to stores and agree on the       *)
(* sequences, whether the transaction is accepted or not.                  *)
LEMMA DeliveredType ==
  ASSUME NEW st \in Store, NEW tx \in Tx
  PROVE  /\ Delivered(st, tx) \in Store
         /\ Delivered(st, tx).nonces = AfterSignatures(st, tx).nonces
BY AfterSignaturesNonces, ExecuteType DEF Delivered

LEMMA CheckedType ==
  ASSUME NEW st \in Store, NEW tx \in Tx
  PROVE  /\ Checked(st, tx) \in Store
         /\ Checked(st, tx).artifacts = st.artifacts
         /\ Checked(st, tx).contracts = st.contracts
BY AfterSignaturesNonces DEF Checked

-----------------------------------------------------------------------------
(* The chain. *)

Executed ==
  \A i \in 1 .. Len(chain) : StoreAt(i) = Delivered(StoreAt(i - 1), chain[i])

OnLedger ==
  \A n \in Nodes :
    /\ deliver[n] = StoreAt(done[n])
    /\ committed[n] = StoreAt(EndOf(height[n]))

SpentForGood ==
  \A m \in 1 .. Len(chain) : \A i \in 1 .. m :
    \A used \in UsedBy(i) : used[2] < StoreAt(m).nonces[used[1]]

(* The signatures a transaction uses up in a store. *)
Tickets(st, tx) ==
  {<<tx.signatures[j].key, tx.signatures[j].sequence>> :
     j \in Verified(st.nonces, tx.signatures)}

IInv == TypeOK /\ Executed /\ OnLedger /\ CheckIsolated /\ SpentForGood

-----------------------------------------------------------------------------
LEMMA StoreType ==
  ASSUME TypeOK, NEW i \in 0 .. Len(chain)
  PROVE  StoreAt(i) \in Store
BY ChainAssumption DEF TypeOK, StoreAt

LEMMA TxType ==
  ASSUME TypeOK, NEW i \in 1 .. Len(chain)
  PROVE  chain[i] \in Tx /\ i - 1 \in 0 .. Len(chain) /\ Len(chain) \in Nat
BY ChainAssumption DEF TypeOK

(* Block ends lie in the chain, in order. *)
LEMMA EndType ==
  ASSUME TypeOK, NEW h \in 0 .. Len(ends)
  PROVE  /\ EndOf(h) \in 0 .. Len(chain) /\ Len(ends) \in Nat
         /\ h < Len(ends) => EndOf(h) <= EndOf(h + 1) /\ EndOf(h + 1) \in 0 .. Len(chain)
<1>1. Len(ends) \in Nat /\ Len(chain) \in Nat /\ DOMAIN ends = 1 .. Len(ends)
  BY DEF TypeOK
<1>2. \A g \in 1 .. Len(ends) : EndOf(g) = ends[g] /\ ends[g] \in 0 .. Len(chain)
  <2> TAKE g \in 1 .. Len(ends)
  <2>1. g \in DOMAIN ends /\ ends \in Seq(Nat)
    BY <1>1 DEF TypeOK
  <2>2. ends[g] \in Nat
    BY <2>1
  <2>3. ends[g] <= Len(chain)
    BY <2>1 DEF TypeOK
  <2>4. EndOf(g) = ends[g]
    BY <1>1 DEF EndOf
  <2>5. QED
    BY <1>1, <2>2, <2>3, <2>4
<1>3. EndOf(h) \in 0 .. Len(chain)
  BY <1>1, <1>2 DEF EndOf
<1>4. ASSUME h < Len(ends)
      PROVE  EndOf(h) <= EndOf(h + 1) /\ EndOf(h + 1) \in 0 .. Len(chain)
  <2>1. h + 1 \in 1 .. Len(ends) /\ (h + 1) - 1 = h
    BY <1>1, <1>4
  <2>2. EndOf((h + 1) - 1) <= ends[h + 1]
    BY <1>1, <2>1 DEF TypeOK
  <2>3. QED
    BY <1>2, <2>1, <2>2
<1>5. QED
  BY <1>1, <1>3, <1>4

LEMMA DoneType ==
  ASSUME TypeOK, NEW n \in Nodes
  PROVE  height[n] \in 0 .. Len(ends) /\ done[n] \in 0 .. Len(chain)
<1>1. height[n] \in Nat /\ done[n] \in Nat /\ height[n] <= Len(ends)
  BY DEF TypeOK
<1>2. Len(ends) \in Nat /\ Len(chain) \in Nat
  BY DEF TypeOK
<1>3. height[n] \in 0 .. Len(ends)
  BY <1>1, <1>2
<1>4. EndOf(height[n]) \in 0 .. Len(chain)
  BY <1>3, EndType
<1>5. CASE done[n] > EndOf(height[n])
  <2>1. height[n] < Len(ends) /\ done[n] <= EndOf(height[n] + 1)
    BY <1>5 DEF TypeOK
  <2>2. EndOf(height[n] + 1) \in 0 .. Len(chain)
    BY <1>3, <2>1, EndType
  <2>3. QED
    BY <1>1, <1>2, <1>3, <2>1, <2>2
<1>6. CASE ~(done[n] > EndOf(height[n]))
  BY <1>1, <1>2, <1>3, <1>4, <1>6
<1>7. QED
  BY <1>5, <1>6

(* Nothing that is on the ledger ever changes. *)
LEMMA LedgerExtended ==
  ASSUME TypeOK, NEW tx \in Txs, Propose(tx)
  PROVE  /\ Len(chain)' = Len(chain) + 1
         /\ \A i \in 0 .. Len(chain) : StoreAt(i)' = StoreAt(i)
         /\ \A i \in 1 .. Len(chain) : chain'[i] = chain[i] /\ UsedBy(i)' = UsedBy(i)
         /\ chain'[Len(chain) + 1] = tx
         /\ \A k \in {Len(chain) + 1} : StoreAt(k)' = Delivered(StoreAt(k - 1), tx)
<1>1. /\ chain \in Seq(Txs) /\ ledger \in Seq(Store) /\ Len(ledger) = Len(chain)
      /\ Len(chain) \in Nat
  BY DEF TypeOK
<1>2. /\ chain' = Append(chain, tx)
      /\ ledger' = Append(ledger, Delivered(StoreAt(Len(chain)), tx))
  BY DEF Propose
<1>3. /\ Len(chain)' = Len(chain) + 1 /\ chain'[Len(chain) + 1] = tx
      /\ \A i \in 1 .. Len(chain) : chain'[i] = chain[i]
  BY <1>1, <1>2
<1>4. /\ ledger'[Len(chain) + 1] = Delivered(StoreAt(Len(chain)), tx)
      /\ \A i \in 1 .. Len(chain) : ledger'[i] = ledger[i]
  BY <1>1, <1>2
<1>5. \A i \in 0 .. Len(chain) : StoreAt(i)' = StoreAt(i)
  BY <1>1, <1>4 DEF StoreAt
<1>6. ASSUME NEW k, k = Len(chain) + 1
      PROVE  StoreAt(k)' = Delivered(StoreAt(k - 1), tx)
  <2>1. k # 0 /\ k - 1 = Len(chain)
    BY <1>1, <1>6
  <2>2. StoreAt(k)' = ledger'[k]
    BY <2>1 DEF StoreAt
  <2>3. QED
    BY <1>4, <1>6, <2>1, <2>2
<1>7. ASSUME NEW i \in 1 .. Len(chain) PROVE UsedBy(i)' = UsedBy(i)
  <2>1. i - 1 \in 0 .. Len(chain)
    BY <1>1
  <2>2. StoreAt(i - 1)' = StoreAt(i - 1) /\ chain'[i] = chain[i]
    BY <1>3, <1>5, <2>1
  <2>3. QED
    BY <2>2 DEF UsedBy
<1>8. QED
  BY <1>3, <1>5, <1>6, <1>7

LEMMA LedgerKept ==
  ASSUME UNCHANGED <<chain, ledger>>
  PROVE  \A i : StoreAt(i)' = StoreAt(i) /\ UsedBy(i)' = UsedBy(i)
BY DEF StoreAt, UsedBy

-----------------------------------------------------------------------------
LEMMA InitIInv == Init => IInv
<1> SUFFICES ASSUME Init PROVE IInv
  OBVIOUS
<1>1. Len(chain) = 0 /\ Len(ends) = 0
  BY DEF Init
<1>2. TypeOK
  BY ChainAssumption, <1>1 DEF Init, TypeOK, EndOf
<1>3. Executed /\ SpentForGood
  BY <1>1 DEF Executed, SpentForGood
<1>4. OnLedger /\ CheckIsolated
  BY DEF Init, OnLedger, CheckIsolated, StoreAt, EndOf
<1>5. QED
  BY <1>2, <1>3, <1>4 DEF IInv

LEMMA NextTypeOK == TypeOK /\ [Next]_vars => TypeOK'
<1> SUFFICES ASSUME TypeOK, [Next]_vars PROVE TypeOK'
  OBVIOUS
<1> USE DEF consensus, memory, disk
<1>1. ASSUME NEW tx \in Txs, Propose(tx) PROVE TypeOK'
  <2>1. /\ chain' = Append(chain, tx)
        /\ ledger' = Append(ledger, Delivered(StoreAt(Len(chain)), tx))
        /\ UNCHANGED <<ends, done, deliver, check, mempool, height, committed, up, crashes>>
    BY <1>1 DEF Propose
  <2>2. Delivered(StoreAt(Len(chain)), tx) \in Store
    <3>1. Len(chain) \in 0 .. Len(chain)
      BY DEF TypeOK
    <3>2. StoreAt(Len(chain)) \in Store /\ tx \in Tx
      BY <3>1, StoreType, ChainAssumption
    <3>3. QED
      BY <3>2, DeliveredType
  <2>3. \A h : EndOf(h)' = EndOf(h)
    BY <2>1 DEF EndOf
  <2>4. /\ chain' \in Seq(Txs) /\ ledger' \in Seq(Store) /\ Len(ledger') = Len(chain')
        /\ Len(chain') = Len(chain) + 1 /\ Len(chain) \in Nat
    BY <2>1, <2>2 DEF TypeOK
  <2>5. \A h \in DOMAIN ends : EndOf(h - 1) <= ends[h] /\ ends[h] <= Len(chain')
    BY <2>4 DEF TypeOK
  <2>6. QED
    BY <2>1, <2>3, <2>4, <2>5 DEF TypeOK
<1>2. CASE Decide
  <2>1. /\ ends' = Append(ends, Len(chain))
        /\ UNCHANGED <<chain, ledger, done, deliver, check, mempool, height, committed, up, crashes>>
    BY <1>2 DEF Decide
  <2>2. ends \in Seq(Nat) /\ Len(ends) \in Nat /\ Len(chain) \in Nat
    BY DEF TypeOK
  <2>3. /\ ends' \in Seq(Nat) /\ Len(ends') = Len(ends) + 1
        /\ ends'[Len(ends) + 1] = Len(chain)
        /\ \A h \in 1 .. Len(ends) : ends'[h] = ends[h]
    BY <2>1, <2>2
  <2>4. \A h \in 0 .. Len(ends) : EndOf(h)' = EndOf(h) /\ EndOf(h) \in 0 .. Len(chain)
    BY <2>2, <2>3, EndType DEF EndOf
  <2>5. ASSUME NEW h \in DOMAIN ends'
        PROVE  EndOf(h - 1)' <= ends'[h] /\ ends'[h] <= Len(chain)
    <3>1. h \in 1 .. Len(ends) + 1 /\ h - 1 \in 0 .. Len(ends)
      BY <2>2, <2>3
    <3>2. CASE h = Len(ends) + 1
      <4>1. ends'[h] = Len(chain) /\ Len(chain) <= Len(chain)
        BY <2>2, <2>3, <3>2
      <4>2. EndOf(h - 1)' = EndOf(h - 1) /\ EndOf(h - 1) \in 0 .. Len(chain)
        BY <2>4, <3>1
      <4>3. EndOf(h - 1) <= Len(chain)
        BY <2>2, <4>2
      <4>4. QED
        BY <4>1, <4>2, <4>3
    <3>3. CASE h \in 1 .. Len(ends)
      <4>1. EndOf(h - 1) <= ends[h] /\ ends[h] <= Len(chain)
        BY <2>2, <3>3 DEF TypeOK
      <4>2. EndOf(h - 1)' = EndOf(h - 1) /\ ends'[h] = ends[h]
        BY <2>3, <2>4, <3>1, <3>3
      <4>3. QED
        BY <4>1, <4>2
    <3>4. QED
      BY <2>2, <3>1, <3>2, <3>3
  <2>6. ASSUME NEW n \in Nodes
        PROVE  /\ height[n] <= Len(ends')
               /\ EndOf(height[n])' <= done[n]
               /\ done[n] > EndOf(height[n])' =>
                    height[n] < Len(ends') /\ done[n] <= EndOf(height[n] + 1)'
    <3>1. height[n] \in 0 .. Len(ends)
      BY DoneType
    <3>2. height[n]' = height[n] /\ EndOf(height[n])' = EndOf(height[n])
      BY <2>1, <2>4, <3>1
    <3>3. height[n] < Len(ends) =>
            EndOf(height[n] + 1)' = EndOf(height[n] + 1) /\ height[n] < Len(ends')
      <4>1. ASSUME height[n] < Len(ends) PROVE height[n] + 1 \in 0 .. Len(ends)
        BY <2>2, <3>1, <4>1
      <4>2. QED
        BY <2>1, <2>2, <2>3, <2>4, <3>1, <4>1
    <3>4. QED
      BY <2>2, <2>3, <3>1, <3>2, <3>3 DEF TypeOK
  <2>7. QED
    BY <2>1, <2>3, <2>5, <2>6 DEF TypeOK
<1>3. ASSUME NEW n \in Nodes, NEW tx \in Txs, CheckTx(n, tx) PROVE TypeOK'
  <2>1. Checked(check[n], tx) \in Store
    BY ChainAssumption, CheckedType DEF TypeOK
  <2>2. /\ check' = [check EXCEPT ![n] = Checked(check[n], tx)]
        /\ \/ mempool' = [mempool EXCEPT ![n] = Append(mempool[n], tx)]
           \/ mempool' = mempool
        /\ UNCHANGED <<chain, ends, ledger, done, deliver, height, committed, up, crashes>>
    BY <1>3 DEF CheckTx
  <2>3. mempool' \in [Nodes -> Seq(Txs)]
    <3>1. mempool \in [Nodes -> Seq(Txs)]
      BY DEF TypeOK
    <3>2. mempool[n] \in Seq(Txs)
      BY <3>1
    <3>3. Append(mempool[n], tx) \in Seq(Txs)
      BY <3>2
    <3>4. QED
      BY <2>2, <3>1, <3>3
  <2>4. \A h : EndOf(h)' = EndOf(h)
    BY <2>2 DEF EndOf
  <2>5. QED
    BY <2>1, <2>2, <2>3, <2>4 DEF TypeOK
<1>4. ASSUME NEW n \in Nodes, DeliverTx(n) PROVE TypeOK'
  <2>1. /\ height[n] < Len(ends) /\ done[n] < EndOf(height[n] + 1)
        /\ deliver' = [deliver EXCEPT ![n] = Delivered(deliver[n], chain[done[n] + 1])]
        /\ done' = [done EXCEPT ![n] = done[n] + 1]
        /\ UNCHANGED <<chain, ends, ledger, check, mempool, height, committed, up, crashes>>
    BY <1>4 DEF DeliverTx, InBlock
  <2>2. done[n] \in Nat /\ height[n] \in 0 .. Len(ends) /\ EndOf(height[n] + 1) \in 0 .. Len(chain)
    BY <2>1, DoneType, EndType DEF TypeOK
  <2>3. done[n] + 1 \in 1 .. Len(chain)
    BY <2>1, <2>2
  <2>4. Delivered(deliver[n], chain[done[n] + 1]) \in Store
    BY <2>3, TxType, DeliveredType DEF TypeOK
  <2>5. \A h : EndOf(h)' = EndOf(h)
    BY <2>1 DEF EndOf
  <2>6. done' \in [Nodes -> Nat] /\ deliver' \in [Nodes -> Store]
    BY <2>1, <2>2, <2>4 DEF TypeOK
  <2>7. ASSUME NEW m \in Nodes
        PROVE  /\ EndOf(height[m]) <= done'[m]
               /\ done'[m] > EndOf(height[m]) =>
                    height[m] < Len(ends) /\ done'[m] <= EndOf(height[m] + 1)
    <3>1. CASE m = n
      <4>1. done'[n] = done[n] + 1
        BY <2>1 DEF TypeOK
      <4>2. EndOf(height[n]) <= done[n]
        BY DEF TypeOK
      <4>3. EndOf(height[n]) \in Nat
        BY <2>2, EndType
      <4>4. QED
        BY <2>1, <2>2, <3>1, <4>1, <4>2, <4>3
    <3>2. CASE m # n
      BY <2>1, <3>2 DEF TypeOK
    <3>3. QED
      BY <3>1, <3>2
  <2>8. QED
    BY <2>1, <2>5, <2>6, <2>7 DEF TypeOK
<1>5. ASSUME NEW n \in Nodes, Commit(n) PROVE TypeOK'
  <2>1. /\ height[n] < Len(ends) /\ done[n] = EndOf(height[n] + 1)
        /\ committed' = [committed EXCEPT ![n] = deliver[n]]
        /\ check' = [check EXCEPT ![n] = deliver[n]]
        /\ mempool' = [mempool EXCEPT ![n] = << >>]
        /\ height' = [height EXCEPT ![n] = height[n] + 1]
        /\ UNCHANGED <<chain, ends, ledger, done, deliver, up, crashes>>
    BY <1>5 DEF Commit, InBlock
  <2>2. height[n] \in Nat /\ Len(ends) \in Nat /\ done[n] \in Nat
    BY DEF TypeOK
  <2>3. \A h : EndOf(h)' = EndOf(h)
    BY <2>1 DEF EndOf
  <2>4. << >> \in Seq(Txs)
    OBVIOUS
  <2>5. /\ committed' \in [Nodes -> Store] /\ check' \in [Nodes -> Store]
        /\ mempool' \in [Nodes -> Seq(Txs)] /\ height' \in [Nodes -> Nat]
    BY <2>1, <2>2, <2>4 DEF TypeOK
  <2>6. ASSUME NEW m \in Nodes
        PROVE  /\ height'[m] <= Len(ends)
               /\ EndOf(height'[m]) <= done[m]
               /\ done[m] > EndOf(height'[m]) =>
                    height'[m] < Len(ends) /\ done[m] <= EndOf(height'[m] + 1)
    <3>1. CASE m = n
      BY <2>1, <2>2, <3>1 DEF TypeOK
    <3>2. CASE m # n
      BY <2>1, <3>2 DEF TypeOK
    <3>3. QED
      BY <3>1, <3>2
  <2>7. QED
    BY <2>1, <2>3, <2>5, <2>6 DEF TypeOK
<1>6. ASSUME NEW n \in Nodes, Crash(n) PROVE TypeOK'
  <2>1. /\ up' = [up EXCEPT ![n] = FALSE] /\ crashes' = crashes + 1
        /\ done' = [done EXCEPT ![n] = EndOf(height[n])]
        /\ deliver' = [deliver EXCEPT ![n] = committed[n]]
        /\ check' = [check EXCEPT ![n] = committed[n]]
        /\ mempool' = [mempool EXCEPT ![n] = << >>]
        /\ UNCHANGED <<chain, ends, ledger, height, committed>>
    BY <1>6 DEF Crash
  <2>2. EndOf(height[n]) \in Nat
    BY DoneType, EndType
  <2>3. \A h : EndOf(h)' = EndOf(h)
    BY <2>1 DEF EndOf
  <2>4. << >> \in Seq(Txs)
    OBVIOUS
  <2>5. /\ deliver' \in [Nodes -> Store] /\ check' \in [Nodes -> Store]
        /\ mempool' \in [Nodes -> Seq(Txs)] /\ done' \in [Nodes -> Nat]
        /\ up' \in [Nodes -> BOOLEAN] /\ crashes' \in Nat
    BY <2>1, <2>2, <2>4 DEF TypeOK
  <2>6. ASSUME NEW m \in Nodes
        PROVE  /\ EndOf(height[m]) <= done'[m]
               /\ done'[m] > EndOf(height[m]) =>
                    height[m] < Len(ends) /\ done'[m] <= EndOf(height[m] + 1)
    <3>1. CASE m = n
      BY <2>1, <2>2, <3>1 DEF TypeOK
    <3>2. CASE m # n
      BY <2>1, <3>2 DEF TypeOK
    <3>3. QED
      BY <3>1, <3>2
  <2>7. QED
    BY <2>1, <2>3, <2>5, <2>6 DEF TypeOK
<1>7. ASSUME NEW n \in Nodes, Restart(n) PROVE TypeOK'
  BY <1>7 DEF Restart, TypeOK, EndOf
<1>8. CASE UNCHANGED vars
  BY <1>8 DEF vars, TypeOK, EndOf
<1>9. QED
  BY <1>1, <1>2, <1>3, <1>4, <1>5, <1>6, <1>7, <1>8 DEF Next

-----------------------------------------------------------------------------
(* A step other than Propose leaves the history alone. *)
LEMMA HistoryKept ==
  ASSUME [Next]_vars, ~ \E tx \in Txs : Propose(tx)
  PROVE  UNCHANGED <<chain, ledger>>
<1>1. CASE UNCHANGED vars
  BY <1>1 DEF vars, consensus
<1>2. CASE Decide
  BY <1>2 DEF Decide
<1>3. ASSUME NEW n \in Nodes,
             \/ \E tx \in Txs : CheckTx(n, tx)
             \/ DeliverTx(n) \/ Commit(n) \/ Crash(n) \/ Restart(n)
      PROVE  UNCHANGED <<chain, ledger>>
  BY <1>3 DEF CheckTx, DeliverTx, Commit, Crash, Restart, consensus
<1>4. QED
  BY <1>1, <1>2, <1>3 DEF Next

LEMMA NextExecuted == TypeOK /\ Executed /\ [Next]_vars => Executed'
<1> SUFFICES ASSUME TypeOK, Executed, [Next]_vars PROVE Executed'
  OBVIOUS
<1>1. ASSUME NEW tx \in Txs, Propose(tx) PROVE Executed'
  <2>1. Len(chain) \in Nat /\ Len(chain') = Len(chain) + 1
    BY <1>1, LedgerExtended DEF TypeOK
  <2> SUFFICES ASSUME NEW i \in 1 .. Len(chain')
               PROVE  StoreAt(i)' = Delivered(StoreAt(i - 1)', chain'[i])
    BY DEF Executed
  <2>2. CASE i = Len(chain) + 1
    <3>1. i - 1 = Len(chain) /\ i - 1 \in 0 .. Len(chain)
      BY <2>1, <2>2
    <3>2. StoreAt(i - 1)' = StoreAt(i - 1) /\ chain'[i] = tx
      BY <1>1, <2>2, <3>1, LedgerExtended
    <3>3. StoreAt(i)' = Delivered(StoreAt(i - 1), tx)
      BY <1>1, <2>2, LedgerExtended
    <3>4. QED
      BY <3>2, <3>3
  <2>3. CASE i \in 1 .. Len(chain)
    <3>1. i \in 0 .. Len(chain) /\ i - 1 \in 0 .. Len(chain)
      BY <2>1, <2>3
    <3>2. StoreAt(i)' = StoreAt(i) /\ StoreAt(i - 1)' = StoreAt(i - 1) /\ chain'[i] = chain[i]
      BY <1>1, <2>3, <3>1, LedgerExtended
    <3>3. QED
      BY <2>3, <3>2 DEF Executed
  <2>4. QED
    BY <2>1, <2>2, <2>3
<1>2. CASE ~ \E tx \in Txs : Propose(tx)
  BY <1>2, HistoryKept, LedgerKept DEF Executed
<1>3. QED
  BY <1>1, <1>2

(* A node's working copy and its disk lie on the ledger after every step:  *)
(* DeliverTx repeats the step the ledger took, Commit and Crash copy.      *)
LEMMA NextOnLedger == TypeOK /\ Executed /\ OnLedger /\ [Next]_vars => OnLedger'
<1> SUFFICES ASSUME TypeOK, Executed, OnLedger, [Next]_vars PROVE OnLedger'
  OBVIOUS
<1> USE DEF consensus, memory, disk
<1>1. ASSUME NEW tx \in Txs, Propose(tx) PROVE OnLedger'
  <2> SUFFICES ASSUME NEW n \in Nodes
               PROVE  /\ deliver'[n] = StoreAt(done[n])'
                      /\ committed'[n] = StoreAt(EndOf(height[n]))'
    BY DEF OnLedger
  <2>1. UNCHANGED <<ends, done, deliver, height, committed>>
    BY <1>1 DEF Propose
  <2>2. done[n] \in 0 .. Len(chain) /\ EndOf(height[n]) \in 0 .. Len(chain)
    BY DoneType, EndType
  <2>3. EndOf(height[n])' = EndOf(height[n])
    BY <2>1 DEF EndOf
  <2>4. \A i \in 0 .. Len(chain) : StoreAt(i)' = StoreAt(i)
    BY <1>1, LedgerExtended
  <2>5. deliver[n] = StoreAt(done[n]) /\ committed[n] = StoreAt(EndOf(height[n]))
    BY DEF OnLedger
  <2>6. deliver'[n] = StoreAt(done[n])'
    BY <2>1, <2>2, <2>4, <2>5
  <2>7. committed'[n] = StoreAt(EndOf(height[n]))'
    BY <2>1, <2>2, <2>3, <2>4, <2>5
  <2>8. QED
    BY <2>6, <2>7
<1>2. CASE Decide
  <2> SUFFICES ASSUME NEW n \in Nodes
               PROVE  /\ deliver'[n] = StoreAt(done[n])'
                      /\ committed'[n] = StoreAt(EndOf(height[n]))'
    BY DEF OnLedger
  <2>1. /\ UNCHANGED <<chain, ledger, done, deliver, height, committed>>
        /\ ends' = Append(ends, Len(chain))
    BY <1>2 DEF Decide
  <2>2. ends \in Seq(Nat) /\ Len(chain) \in Nat /\ height[n] \in 0 .. Len(ends)
    BY DoneType DEF TypeOK
  <2>3. EndOf(height[n])' = EndOf(height[n])
    <3>1. CASE height[n] = 0
      BY <2>1, <3>1 DEF EndOf
    <3>2. CASE height[n] \in 1 .. Len(ends)
      <4>1. ends'[height[n]] = ends[height[n]] /\ height[n] # 0
        BY <2>1, <2>2, <3>2
      <4>2. QED
        BY <2>1, <4>1 DEF EndOf
    <3>3. QED
      BY <2>2, <3>1, <3>2
  <2>4. QED
    BY <2>1, <2>3, LedgerKept DEF OnLedger
<1>3. ASSUME NEW n \in Nodes, NEW tx \in Txs, CheckTx(n, tx) PROVE OnLedger'
  BY <1>3 DEF CheckTx, OnLedger, StoreAt, EndOf
<1>4. ASSUME NEW n \in Nodes, DeliverTx(n) PROVE OnLedger'
  <2>1. /\ height[n] < Len(ends) /\ done[n] < EndOf(height[n] + 1)
        /\ deliver' = [deliver EXCEPT ![n] = Delivered(deliver[n], chain[done[n] + 1])]
        /\ done' = [done EXCEPT ![n] = done[n] + 1]
        /\ UNCHANGED <<chain, ends, ledger, height, committed>>
    BY <1>4 DEF DeliverTx, InBlock
  <2>2. done[n] \in 0 .. Len(chain) /\ EndOf(height[n] + 1) \in 0 .. Len(chain)
    BY <2>1, DoneType, EndType
  <2>3. done[n] + 1 \in 1 .. Len(chain) /\ (done[n] + 1) - 1 = done[n]
    BY <2>1, <2>2
  <2>4. StoreAt(done[n] + 1) = Delivered(deliver[n], chain[done[n] + 1])
    BY <2>3 DEF Executed, OnLedger
  <2>5. deliver \in [Nodes -> Store] /\ done \in [Nodes -> Nat]
    BY DEF TypeOK
  <2> SUFFICES ASSUME NEW m \in Nodes
               PROVE  /\ deliver'[m] = StoreAt(done'[m])
                      /\ committed[m] = StoreAt(EndOf(height[m]))
    BY <2>1 DEF OnLedger, StoreAt, EndOf
  <2>6. CASE m = n
    BY <2>1, <2>4, <2>5, <2>6 DEF OnLedger
  <2>7. CASE m # n
    BY <2>1, <2>5, <2>7 DEF OnLedger
  <2>8. QED
    BY <2>6, <2>7
<1>5. ASSUME NEW n \in Nodes, Commit(n) PROVE OnLedger'
  <2>1. /\ done[n] = EndOf(height[n] + 1)
        /\ committed' = [committed EXCEPT ![n] = deliver[n]]
        /\ height' = [height EXCEPT ![n] = height[n] + 1]
        /\ UNCHANGED <<chain, ends, ledger, done, deliver>>
    BY <1>5 DEF Commit, InBlock
  <2>2. committed \in [Nodes -> Store] /\ height \in [Nodes -> Nat]
    BY DEF TypeOK
  <2> SUFFICES ASSUME NEW m \in Nodes
               PROVE  /\ deliver[m] = StoreAt(done[m])
                      /\ committed'[m] = StoreAt(EndOf(height'[m]))
    BY <2>1 DEF OnLedger, StoreAt, EndOf
  <2>3. CASE m = n
    BY <2>1, <2>2, <2>3 DEF OnLedger
  <2>4. CASE m # n
    BY <2>1, <2>2, <2>4 DEF OnLedger
  <2>5. QED
    BY <2>3, <2>4
<1>6. ASSUME NEW n \in Nodes, Crash(n) PROVE OnLedger'
  <2>1. /\ done' = [done EXCEPT ![n] = EndOf(height[n])]
        /\ deliver' = [deliver EXCEPT ![n] = committed[n]]
        /\ UNCHANGED <<chain, ends, ledger, height, committed>>
    BY <1>6 DEF Crash
  <2>2. deliver \in [Nodes -> Store] /\ done \in [Nodes -> Nat]
    BY DEF TypeOK
  <2> SUFFICES ASSUME NEW m \in Nodes
               PROVE  /\ deliver'[m] = StoreAt(done'[m])
                      /\ committed[m] = StoreAt(EndOf(height[m]))
    BY <2>1 DEF OnLedger, StoreAt, EndOf
  <2>3. CASE m = n
    BY <2>1, <2>2, <2>3 DEF OnLedger
  <2>4. CASE m # n
    BY <2>1, <2>2, <2>4 DEF OnLedger
  <2>5. QED
    BY <2>3, <2>4
<1>7. ASSUME NEW n \in Nodes, Restart(n) PROVE OnLedger'
  BY <1>7 DEF Restart, OnLedger, StoreAt, EndOf
<1>8. CASE UNCHANGED vars
  BY <1>8 DEF vars, OnLedger, StoreAt, EndOf
<1>9. QED
  BY <1>1, <1>2, <1>3, <1>4, <1>5, <1>6, <1>7, <1>8 DEF Next

LEMMA NextCheckIsolated == TypeOK /\ OnLedger /\ CheckIsolated /\ [Next]_vars => CheckIsolated'
<1> SUFFICES ASSUME TypeOK, OnLedger, CheckIsolated, [Next]_vars PROVE CheckIsolated'
  OBVIOUS
<1> USE DEF consensus, memory, disk
<1>1. CASE (\E tx \in Txs : Propose(tx)) \/ Decide
  BY <1>1 DEF Propose, Decide, CheckIsolated
<1>2. ASSUME NEW n \in Nodes, NEW tx \in Txs, CheckTx(n, tx) PROVE CheckIsolated'
  <2>1. /\ Checked(check[n], tx).artifacts = check[n].artifacts
        /\ Checked(check[n], tx).contracts = check[n].contracts
    BY ChainAssumption, CheckedType DEF TypeOK
  <2>2. /\ check' = [check EXCEPT ![n] = Checked(check[n], tx)]
        /\ committed' = committed /\ check \in [Nodes -> Store]
    BY <1>2 DEF CheckTx, TypeOK
  <2>3. QED
    BY <2>1, <2>2 DEF CheckIsolated
<1>3. ASSUME NEW n \in Nodes, DeliverTx(n) \/ Restart(n) PROVE CheckIsolated'
  BY <1>3 DEF DeliverTx, Restart, CheckIsolated
<1>4. ASSUME NEW n \in Nodes, Commit(n) \/ Crash(n) PROVE CheckIsolated'
  <2>1. check \in [Nodes -> Store] /\ committed \in [Nodes -> Store]
    BY DEF TypeOK
  <2>2. check'[n] = committed'[n]
    BY <1>4, <2>1 DEF Commit, Crash
  <2>3. ASSUME NEW m \in Nodes, m # n
        PROVE  check'[m] = check[m] /\ committed'[m] = committed[m]
    BY <1>4, <2>1, <2>3 DEF Commit, Crash
  <2>4. QED
    BY <2>2, <2>3 DEF CheckIsolated
<1>5. CASE UNCHANGED vars
  BY <1>5 DEF vars, CheckIsolated
<1>6. QED
  BY <1>1, <1>2, <1>3, <1>4, <1>5 DEF Next

-----------------------------------------------------------------------------
(* What a transaction uses up was not below the sequences before it and is *)
(* below them after it.                                                    *)
LEMMA TicketType ==
  ASSUME NEW st \in Store, NEW tx \in Tx, NEW used \in Tickets(st, tx)
  PROVE  /\ used[1] \in Keys /\ used[2] \in Nat
         /\ st.nonces[used[1]] <= used[2]
         /\ used[2] < Delivered(st, tx).nonces[used[1]]
<1>1. PICK j \in Verified(st.nonces, tx.signatures) :
        used = <<tx.signatures[j].key, tx.signatures[j].sequence>>
  BY DEF Tickets
<1>2. j \in DOMAIN tx.signatures
  BY DEF Verified
<1>3. used[1] \in Keys /\ used[2] \in Nat
  BY <1>1, <1>2, SignatureTypes
<1>4. QED
  BY <1>1, <1>3, UsedUp, DeliveredType

LEMMA NextSpentForGood == TypeOK /\ SpentForGood /\ [Next]_vars => SpentForGood'
<1> SUFFICES ASSUME TypeOK, SpentForGood, [Next]_vars PROVE SpentForGood'
  OBVIOUS
<1>1. ASSUME NEW tx \in Txs, Propose(tx) PROVE SpentForGood'
  <2>1. Len(chain) \in Nat /\ Len(chain') = Len(chain) + 1
    BY <1>1, LedgerExtended DEF TypeOK
  <2> SUFFICES ASSUME NEW m \in 1 .. Len(chain'), NEW i \in 1 .. m,
                      NEW used \in UsedBy(i)'
               PROVE  used[2] < StoreAt(m)'.nonces[used[1]]
    BY DEF SpentForGood
  <2>2. CASE m \in 1 .. Len(chain)
    <3>1. i \in 1 .. Len(chain) /\ m \in 0 .. Len(chain)
      BY <2>1, <2>2
    <3>2. UsedBy(i)' = UsedBy(i) /\ StoreAt(m)' = StoreAt(m)
      BY <1>1, <3>1, LedgerExtended
    <3>3. QED
      BY <2>2, <3>2 DEF SpentForGood
  <2>3. CASE m = Len(chain) + 1
    <3> DEFINE st == StoreAt(m - 1)
    <3>1. m - 1 \in 0 .. Len(chain) /\ m - 1 = Len(chain)
      BY <2>1, <2>3
    <3>2. st \in Store /\ tx \in Tx /\ StoreAt(m - 1)' = st /\ chain'[m] = tx
      BY <1>1, <2>3, <3>1, StoreType, ChainAssumption, LedgerExtended
    <3>3. StoreAt(m)' = Delivered(st, tx)
      BY <1>1, <2>3, LedgerExtended
    <3>4. CASE i = m
      <4>1. used \in Tickets(st, tx)
        BY <3>2, <3>4 DEF UsedBy, Tickets
      <4>2. QED
        BY <3>2, <3>3, <4>1, TicketType
    <3>5. CASE i \in 1 .. Len(chain)
      <4>1. UsedBy(i)' = UsedBy(i)
        BY <1>1, <3>5, LedgerExtended
      <4>2. i - 1 \in 0 .. Len(chain) /\ chain[i] \in Tx /\ StoreAt(i - 1) \in Store
        BY <3>5, TxType, StoreType
      <4>3. used \in Tickets(StoreAt(i - 1), chain[i])
        BY <4>1 DEF UsedBy, Tickets
      <4>4. used[1] \in Keys /\ used[2] \in Nat
        BY <4>2, <4>3, TicketType
      <4>5. used[2] < st.nonces[used[1]]
        <5>1. m - 1 \in 1 .. Len(chain) /\ i \in 1 .. m - 1
          BY <2>1, <3>1, <3>5
        <5>2. QED
          BY <4>1, <5>1 DEF SpentForGood
      <4>6. /\ st.nonces[used[1]] <= Delivered(st, tx).nonces[used[1]]
            /\ st.nonces[used[1]] \in Nat /\ Delivered(st, tx).nonces[used[1]] \in Nat
        <5>1. Delivered(st, tx) \in Store
          BY <3>2, DeliveredType
        <5>2. QED
          BY <3>2, <4>4, <5>1, NoncesGrow, DeliveredType DEF Store
      <4>7. QED
        BY <3>3, <4>4, <4>5, <4>6
    <3>6. QED
      BY <2>1, <2>3, <3>4, <3>5
  <2>4. QED
    BY <2>1, <2>2, <2>3
<1>2. CASE ~ \E tx \in Txs : Propose(tx)
  BY <1>2, HistoryKept, LedgerKept DEF SpentForGood
<1>3. QED
  BY <1>1, <1>2

LEMMA Invariance == Spec => []IInv
<1>1. IInv /\ [Next]_vars => IInv'
  BY NextTypeOK, NextExecuted, NextOnLedger, NextCheckIsolated, NextSpentForGood DEF IInv
<1>2. QED
  BY <1>1, InitIInv, PTL DEF Spec

-----------------------------------------------------------------------------
(* Every state is of the declared types, block ends are in order and no    *)
(* node executes beyond the block after its last commit.                   *)
THEOREM ChainTypeCorrect == Spec => []TypeOK
<1>1. IInv => TypeOK
  BY DEF IInv
<1>2. QED
  BY <1>1, Invariance, PTL

(* Nodes at the same height hold the same store, however they crashed,     *)
(* restarted and checked on the way.                                       *)
THEOREM ChainReplicasAgree == Spec => []ReplicasAgree
<1>1. IInv => ReplicasAgree
  BY DEF IInv, OnLedger, ReplicasAgree
<1>2. QED
  BY <1>1, Invariance, PTL

(* CheckTx only ever moves sequences of its own copy.                      *)
THEOREM ChainCheckIsolated == Spec => []CheckIsolated
<1>1. IInv => CheckIsolated
  BY DEF IInv
<1>2. QED
  BY <1>1, Invariance, PTL

(* No signature counts twice and no transaction takes effect twice.        *)
THEOREM ChainNoReplay == Spec => []NoReplay
<1>1. ASSUME IInv, NEW i \in 1 .. Len(chain), NEW j \in 1 .. Len(chain), i < j,
             NEW used \in UsedBy(i), used \in UsedBy(j)
      PROVE  FALSE
  <2>1. TypeOK /\ SpentForGood
    BY <1>1 DEF IInv
  <2>2. i \in 1 .. (j - 1) /\ j - 1 \in 1 .. Len(chain) /\ j - 1 \in 0 .. Len(chain)
    BY <1>1, <2>1, TxType
  <2>3. used[2] < StoreAt(j - 1).nonces[used[1]]
    BY <2>1, <2>2 DEF SpentForGood
  <2>4. used[1] \in Keys /\ used[2] \in Nat /\ StoreAt(j - 1).nonces[used[1]] <= used[2]
    <3>1. chain[j] \in Tx /\ StoreAt(j - 1) \in Store
      BY <2>1, <2>2, TxType, StoreType
    <3>2. used \in Tickets(StoreAt(j - 1), chain[j])
      BY <1>1 DEF UsedBy, Tickets
    <3>3. QED
      BY <3>1, <3>2, TicketType
  <2>5. StoreAt(j - 1).nonces[used[1]] \in Nat
    BY <2>1, <2>2, <2>4, StoreType DEF Store
  <2>6. QED
    BY <2>3, <2>4, <2>5
<1>2. ASSUME IInv, NEW i \in 1 .. Len(chain), NEW j \in 1 .. Len(chain), i # j
      PROVE  UsedBy(i) \cap UsedBy(j) = {}
  <2>1. i < j \/ j < i
    BY <1>2
  <2>2. QED
    BY <1>1, <1>2, <2>1
<1>3. ASSUME IInv, NEW i \in 1 .. Len(chain), AcceptedAt(i)
      PROVE  <<chain[i].signatures[1].key, chain[i].signatures[1].sequence>> \in UsedBy(i)
  <2>1. chain[i] \in Tx
    BY <1>3, TxType DEF IInv
  <2>2. /\ chain[i].signatures # << >>
        /\ Verified(StoreAt(i - 1).nonces, chain[i].signatures) = DOMAIN chain[i].signatures
    BY <1>3 DEF AcceptedAt, Accepts, Admitted, Signed
  <2>3. 1 \in DOMAIN chain[i].signatures
    BY <2>1, <2>2, SignatureTypes
  <2>4. QED
    BY <2>2, <2>3 DEF UsedBy
<1>4. IInv => NoReplay
  <2> SUFFICES ASSUME IInv, NEW i \in DOMAIN chain, NEW j \in DOMAIN chain, i # j
               PROVE  /\ UsedBy(i) \cap UsedBy(j) = {}
                      /\ AcceptedAt(i) /\ AcceptedAt(j) => chain[i] # chain[j]
    BY DEF NoReplay
  <2>1. i \in 1 .. Len(chain) /\ j \in 1 .. Len(chain)
    BY DEF IInv, TypeOK
  <2>2. UsedBy(i) \cap UsedBy(j) = {}
    BY <1>2, <2>1
  <2>3. ASSUME AcceptedAt(i), AcceptedAt(j), chain[i] = chain[j] PROVE FALSE
    BY <1>3, <2>1, <2>2, <2>3
  <2>4. QED
    BY <2>2, <2>3
<1>5. QED
  BY <1>4, Invariance, PTL

-----------------------------------------------------------------------------
LEMMA RegistryInit == Init => Registry!Init
<1> SUFFICES ASSUME Init PROVE Registry!Init
  OBVIOUS
<1>1. Len(ledger) = 0 /\ DOMAIN chain = {}
  BY DEF Init
<1>2. StoreAt(Len(ledger)).artifacts \in [Images -> Artifact \cup {NoArtifact}]
  BY <1>1, ChainAssumption DEF StoreAt, Store
<1>3. UNION {UsedBy(i) : i \in DOMAIN chain} = {}
  BY <1>1
<1>4. QED
  BY <1>2, <1>3 DEF Registry!Init

(* Whoever pays with nothing changes nothing. *)
LEMMA FreeIsRefused ==
  ASSUME NEW st \in Store, NEW tx \in Tx, Tickets(st, tx) = {}
  PROVE  ~Accepts(st, tx)
<1>1. Verified(st.nonces, tx.signatures) = {}
  BY DEF Tickets
<1>2. ASSUME tx.signatures # << >> PROVE 1 \in DOMAIN tx.signatures
  BY <1>2, SignatureTypes
<1>3. QED
  BY <1>1, <1>2 DEF Accepts, Admitted, Signed

(* What is used up now was not used up before. *)
LEMMA TicketsAreNew ==
  ASSUME IInv, NEW tx \in Tx, NEW i \in 1 .. Len(chain)
  PROVE  UsedBy(i) \cap Tickets(StoreAt(Len(chain)), tx) = {}
<1> DEFINE st == StoreAt(Len(chain))
<1> SUFFICES ASSUME NEW used \in UsedBy(i), used \in Tickets(st, tx) PROVE FALSE
  OBVIOUS
<1>1. /\ TypeOK /\ SpentForGood
      /\ Len(chain) \in Nat /\ Len(chain) \in 0 .. Len(chain) /\ Len(chain) \in 1 .. Len(chain)
  BY DEF IInv, TypeOK
<1>2. st \in Store
  BY <1>1, StoreType
<1>3. used[2] < st.nonces[used[1]]
  BY <1>1 DEF SpentForGood
<1>4. used[1] \in Keys /\ used[2] \in Nat /\ st.nonces[used[1]] <= used[2]
  BY <1>2, TicketType
<1>5. QED
  BY <1>2, <1>3, <1>4 DEF Store

LEMMA RegistryStep ==
  IInv /\ [Next]_vars =>
    [Registry!Next]_<<StoreAt(Len(ledger)).artifacts, UNION {UsedBy(i) : i \in DOMAIN chain}>>
<1> DEFINE registry == StoreAt(Len(ledger)).artifacts
           spent == UNION {UsedBy(i) : i \in DOMAIN chain}
<1> SUFFICES ASSUME IInv, [Next]_vars
             PROVE  Registry!Next \/ (registry' = registry /\ spent' = spent)
  OBVIOUS
<1>1. ASSUME NEW tx \in Txs, Propose(tx)
      PROVE  Registry!Next \/ (registry' = registry /\ spent' = spent)
  <2> DEFINE st == StoreAt(Len(chain))
  <2>1. /\ TypeOK /\ Len(chain) \in Nat /\ Len(chain) \in 0 .. Len(chain)
        /\ Len(ledger) = Len(chain) /\ DOMAIN chain = 1 .. Len(chain)
    BY DEF IInv, TypeOK
  <2>2. st \in Store /\ tx \in Tx /\ registry = st.artifacts
    BY <2>1, StoreType, ChainAssumption
  <2>3. registry' = Delivered(st, tx).artifacts
    <3>1. Len(ledger') = Len(chain) + 1
      BY <1>1, <2>1 DEF Propose, TypeOK
    <3>2. ASSUME NEW k, k = Len(chain) + 1 PROVE StoreAt(k)' = Delivered(st, tx)
      <4>1. k - 1 = Len(chain)
        BY <2>1, <3>2
      <4>2. QED
        BY <1>1, <2>1, <3>2, <4>1, LedgerExtended
    <3>3. QED
      BY <3>1, <3>2
  <2>4. spent' = spent \cup Tickets(st, tx)
    <3>1. DOMAIN chain' = (1 .. Len(chain)) \cup {Len(chain) + 1}
      BY <1>1, <2>1, LedgerExtended DEF Propose, TypeOK
    <3>2. ASSUME NEW i \in 1 .. Len(chain) PROVE UsedBy(i)' = UsedBy(i)
      BY <1>1, <2>1, LedgerExtended
    <3>3. ASSUME NEW k, k = Len(chain) + 1 PROVE UsedBy(k)' = Tickets(st, tx)
      <4>1. k - 1 = Len(chain)
        BY <2>1, <3>3
      <4>2. StoreAt(k - 1)' = st /\ chain'[k] = tx
        BY <1>1, <2>1, <3>3, <4>1, LedgerExtended
      <4>3. QED
        BY <4>2 DEF UsedBy, Tickets
    <3>4. QED
      BY <2>1, <3>1, <3>2, <3>3
  <2>5. CASE Tickets(st, tx) = {}
    BY <2>2, <2>3, <2>4, <2>5, FreeIsRefused, AfterSignaturesNonces DEF Delivered
  <2>6. CASE Tickets(st, tx) # {}
    <3>1. Registry!Pay
      <4>1. \A i \in 1 .. Len(chain) : UsedBy(i) \cap Tickets(st, tx) = {}
        BY <2>2, TicketsAreNew
      <4>2. spent \cap Tickets(st, tx) = {}
        BY <2>1, <4>1
      <4>3. spent \subseteq spent' /\ spent' # spent
        BY <2>4, <2>6, <4>2
      <4>4. QED
        BY <4>3 DEF Registry!Pay
    <3>2. CASE ~Accepts(st, tx)
      <4>1. registry' = registry
        BY <2>2, <2>3, <3>2, AfterSignaturesNonces DEF Delivered
      <4>2. Registry!Burn
        BY <3>1, <4>1 DEF Registry!Burn
      <4>3. QED
        BY <4>2 DEF Registry!Next
    <3>3. CASE Accepts(st, tx)
      <4> DEFINE msg == tx.msg
                 after == AfterSignatures(st, tx)
      <4>1. /\ Delivered(st, tx) = Execute(after, msg) /\ ValidOnDeliver(st, tx)
            /\ after \in Store /\ after.artifacts = registry
        BY <2>2, <3>3, AfterSignaturesNonces DEF Delivered, Accepts
      <4>2. CASE msg \in CreateArtifactMsg
        <5> DEFINE new == [checksum |-> msg.checksum, owner |-> msg.owner]
        <5>1. msg.op = "create" /\ msg.image \in Images /\ new \in Artifact
          BY <4>2 DEF CreateArtifactMsg, Artifact
        <5>2. Execute(after, msg) = [after EXCEPT !.artifacts[msg.image] = new]
          BY <5>1 DEF Execute, Handle
        <5>3. registry' = [registry EXCEPT ![msg.image] = new]
          BY <2>3, <4>1, <5>2 DEF Store
        <5>4. Registry!Publish(msg.image, new)
          BY <3>1, <5>3 DEF Registry!Publish
        <5>5. QED
          BY <5>1, <5>4 DEF Registry!Next
      <4>3. CASE msg \in DeleteArtifactMsg
        <5>1. msg.op = "delete" /\ msg.image \in Images
          BY <4>3 DEF DeleteArtifactMsg
        <5>2. Execute(after, msg) = [after EXCEPT !.artifacts[msg.image] = NoArtifact]
          BY <5>1 DEF Execute, Handle
        <5>3. registry' = [registry EXCEPT ![msg.image] = NoArtifact]
          BY <2>3, <4>1, <5>2 DEF Store
        <5>4. registry[msg.image] # NoArtifact
          BY <2>2, <4>1, <5>1 DEF ValidOnDeliver, Valid, Deletable
        <5>5. Registry!Withdraw(msg.image)
          BY <3>1, <5>3, <5>4 DEF Registry!Withdraw
        <5>6. QED
          BY <5>1, <5>5 DEF Registry!Next
      <4>4. ASSUME Execute(after, msg).artifacts = after.artifacts
            PROVE  Registry!Next
        <5>1. registry' = registry
          BY <2>3, <4>1, <4>4
        <5>2. Registry!Burn
          BY <3>1, <5>1 DEF Registry!Burn
        <5>3. QED
          BY <5>2 DEF Registry!Next
      <4>5. CASE msg \in UpdateMsg
        <5>1. Execute(after, msg) = Handle(after, msg)
          BY <4>5 DEF UpdateMsg, Execute
        <5>2. QED
          BY <4>1, <4>4, <4>5, <5>1, UpdateKeepsArtifacts
      <4>6. CASE msg \in ExecuteBatchMsg
        <5> DEFINE half == Handle(after, msg.first)
        <5>1. msg.op = "batch" /\ msg.first \in UpdateMsg /\ msg.second \in UpdateMsg
          BY <4>6 DEF ExecuteBatchMsg
        <5>2. half \in Store /\ half.artifacts = after.artifacts
          BY <4>1, <5>1, HandleType, UpdateKeepsArtifacts DEF HandlerMsg
        <5>3. Handle(half, msg.second).artifacts = half.artifacts
          BY <5>1, <5>2, UpdateKeepsArtifacts
        <5>4. Execute(after, msg).artifacts = after.artifacts
          BY <5>1, <5>2, <5>3 DEF Execute
        <5>5. QED
          BY <4>4, <5>4
      <4>7. QED
        BY <2>2, <4>2, <4>3, <4>5, <4>6 DEF Tx, HandlerMsg
    <3>4. QED
      BY <3>2, <3>3
  <2>7. QED
    BY <2>5, <2>6
<1>2. CASE ~ \E tx \in Txs : Propose(tx)
  <2>1. UNCHANGED <<chain, ledger>>
    BY <1>2, HistoryKept
  <2>2. registry' = registry /\ spent' = spent
    BY <2>1 DEF StoreAt, UsedBy
  <2>3. QED
    BY <2>2
<1>3. QED
  BY <1>1, <1>2

(* What signers and readers see of the chain is the registry: each step    *)
(* publishes or withdraws one image, or spends signatures for nothing, and *)
(* every one of them spends signatures that were never spent before.       *)
THEOREM ChainImplementsRegistry == Spec => ImplementsRegistry
<1>1. QED
  BY Invariance, RegistryInit, RegistryStep, PTL DEF Spec, ImplementsRegistry, Registry!Spec

-----------------------------------------------------------------------------
(* The signatures that verified were made by the signers of the            *)
(* transaction.                                                            *)
LEMMA SignersPay ==
  ASSUME NEW st \in Store, NEW tx \in Tx, Accepts(st, tx)
  PROVE  {used[1] : used \in Tickets(st, tx)} = Signers(tx)
<1>1. Verified(st.nonces, tx.signatures) = DOMAIN tx.signatures
  BY DEF Accepts, Admitted, Signed
<1> DEFINE ticket(j) == <<tx.signatures[j].key, tx.signatures[j].sequence>>
<1>2. Tickets(st, tx) = {ticket(j) : j \in DOMAIN tx.signatures}
  BY <1>1 DEF Tickets
<1>3. \A j : ticket(j)[1] = tx.signatures[j].key
  OBVIOUS
<1> HIDE DEF ticket
<1>4. {used[1] : used \in Tickets(st, tx)} = {ticket(j)[1] : j \in DOMAIN tx.signatures}
  BY <1>2
<1>5. QED
  BY <1>3, <1>4 DEF Signers

(* The contracts a transaction lists speak, in their order, for what the   *)
(* signers and the contracts before them can speak for: by induction on    *)
(* the position in the list.                                               *)
LEMMA ConditionsAreVoices ==
  ASSUME NEW st \in Store, NEW tx \in Tx, Accepts(st, tx)
  PROVE  Conditions(tx) \subseteq SpeakFor(st, Signers(tx))
<1>1. /\ tx.multisig \in Seq(Contracts) /\ DOMAIN tx.multisig = 1 .. Len(tx.multisig)
      /\ Len(tx.multisig) \in Nat /\ tx.signatures \in Seq(StdSignature)
      /\ \A i \in DOMAIN tx.multisig : tx.multisig[i] \in Contracts
  BY DEF Tx
<1>2. Signers(tx) \subseteq Keys
  BY SignatureTypes DEF Signers
<1> SUFFICES ASSUME NEW A \in SUBSET (Keys \cup Contracts), Signers(tx) \subseteq A,
                    \A c \in Contracts :
                      Cardinality(st.contracts[c].participants \cap A) >= st.contracts[c].activation
                        => c \in A
             PROVE  \A i \in DOMAIN tx.multisig : tx.multisig[i] \in A
  BY <1>1, <1>2 DEF Conditions, SpeakFor
<1> DEFINE bad == {i \in DOMAIN tx.multisig : tx.multisig[i] \notin A}
<1>3. IsFiniteSet(A)
  <2>1. IsFiniteSet(Keys \cup Contracts)
    BY TxStackAssumption, FS_Union
  <2>2. QED
    BY <2>1, FS_Subset
<1>4. ASSUME bad # {} PROVE FALSE
  <2>1. bad \subseteq Nat
    BY <1>1
  <2>2. PICK i \in bad : \A j \in bad : ~(<<j, i>> \in OpToRel(<, Nat))
    BY <1>4, <2>1, NatLessThanWellFounded, WFMin
  <2>3. \A j \in bad : ~(j < i)
    BY <2>1, <2>2 DEF OpToRel
  <2> DEFINE c == st.contracts[tx.multisig[i]]
             present == Signers(tx) \cup {tx.multisig[j] : j \in 1 .. i - 1}
  <2>4. i \in 1 .. Len(tx.multisig) /\ tx.multisig[i] \in Contracts /\ tx.multisig[i] \notin A
    BY <1>1
  <2>5. present \subseteq A
    <3>1. ASSUME NEW j \in 1 .. i - 1 PROVE tx.multisig[j] \in A
      <4>1. j \in DOMAIN tx.multisig /\ j < i
        BY <1>1, <2>4
      <4>2. QED
        BY <2>3, <4>1
    <3>2. QED
      BY <3>1
  <2>6. Cardinality(c.participants \cap present) >= c.activation
    BY <2>4 DEF Accepts, Admitted, Activated
  <2>7. Cardinality(c.participants \cap present) <= Cardinality(c.participants \cap A)
    <3>1. IsFiniteSet(c.participants \cap A)
      BY <1>3, FS_Intersection
    <3>2. c.participants \cap present \in SUBSET (c.participants \cap A)
      BY <2>5
    <3>3. QED
      BY <3>1, <3>2, FS_Subset
  <2>8. /\ c.activation \in Nat /\ Cardinality(c.participants \cap present) \in Nat
        /\ Cardinality(c.participants \cap A) \in Nat
    <3>1. c \in Contract
      BY <2>4 DEF Store
    <3>2. c.activation \in Nat
      BY <3>1 DEF Contract
    <3>3. IsFiniteSet(c.participants \cap A)
      BY <1>3, FS_Intersection
    <3>4. IsFiniteSet(c.participants \cap present)
      <4>1. c.participants \cap present \in SUBSET (c.participants \cap A)
        BY <2>5
      <4>2. QED
        BY <3>3, <4>1, FS_Subset
    <3>5. QED
      BY <3>2, <3>3, <3>4, FS_CardinalityType
  <2>9. tx.multisig[i] \in A
    BY <2>4, <2>6, <2>7, <2>8
  <2>10. QED
    BY <2>4, <2>9
<1>5. QED
  BY <1>4

(* More voices hold more roles. *)
LEMMA HeldRolesGrow ==
  ASSUME NEW C \in SUBSET (Keys \cup Contracts), NEW D \in SUBSET (Keys \cup Contracts),
         C \subseteq D
  PROVE  HeldRoles(C) \subseteq HeldRoles(D) /\ HeldRoles(D) \subseteq RoleIds
<1> DEFINE bound(S) == {r \in RoleIds : \E a \in S : <<a, r>> \in Binds}
<1>1. bound(C) \subseteq bound(D) /\ bound(D) \in SUBSET RoleIds
  OBVIOUS
<1>2. Reach(RoleStore, bound(C)) \subseteq Reach(RoleStore, bound(D))
  BY <1>1 DEF Reach
<1>3. Reach(RoleStore, bound(D)) \subseteq RoleIds
  BY DEF Reach
<1>4. QED
  BY <1>2, <1>3 DEF HeldRoles

(* A message that a handler accepts has the consent of those the           *)
(* transaction speaks for.                                                 *)
LEMMA ValidIsConsented ==
  ASSUME NEW st \in Store, NEW tx \in Tx, NEW msg \in HandlerMsg, Valid(st, tx, msg),
         NEW all \in SUBSET Addresses, \A a : HasAddress(tx, a) => a \in all
  PROVE  Consented(st, msg, all)
<1>1. CASE msg \in CreateArtifactMsg
  <2>1. msg.op = "create"
    BY <1>1 DEF CreateArtifactMsg
  <2>2. QED
    BY <2>1 DEF Consented, Valid, Creatable
<1>2. CASE msg \in DeleteArtifactMsg
  <2>1. msg.op = "delete"
    BY <1>2 DEF DeleteArtifactMsg
  <2>2. QED
    BY <2>1 DEF Consented, Valid, Deletable
<1>3. CASE msg \in UpdateMsg
  <2> DEFINE c == st.contracts[msg.contract]
             admins == {a \in c.participants : HasAddress(tx, a)}
  <2>1. msg.op = "update"
    BY <1>3 DEF UpdateMsg
  <2>2. c \in Contract
    BY <1>3 DEF UpdateMsg, Store
  <2>3. c.admin \in Nat /\ Cardinality(admins) >= c.admin
    BY <2>1, <2>2 DEF Contract, Valid, Updatable
  <2>4. IsFiniteSet(c.participants \cap all)
    <3>1. IsFiniteSet(Addresses)
      <4>1. IsFiniteSet(Keys \cup Contracts)
        BY TxStackAssumption, FS_Union
      <4>2. QED
        BY <4>1, TxStackAssumption, FS_Union DEF Addresses
    <3>2. c.participants \cap all \in SUBSET Addresses
      OBVIOUS
    <3>3. QED
      BY <3>1, <3>2, FS_Subset
  <2>5. admins \in SUBSET (c.participants \cap all)
    OBVIOUS
  <2>6. IsFiniteSet(admins) /\ Cardinality(admins) <= Cardinality(c.participants \cap all)
    BY <2>4, <2>5, FS_Subset
  <2>7. Cardinality(admins) \in Nat /\ Cardinality(c.participants \cap all) \in Nat
    BY <2>4, <2>6, FS_CardinalityType
  <2>8. Cardinality(c.participants \cap all) >= c.admin
    BY <2>3, <2>6, <2>7
  <2>9. QED
    BY <2>1, <2>8 DEF Consented
<1>4. QED
  BY <1>1, <1>2, <1>3 DEF HandlerMsg

(* What an accepted transaction asks for is allowed to its voices. *)
LEMMA AcceptedIsEntitled ==
  ASSUME NEW st \in Store, NEW tx \in Tx, Accepts(st, tx),
         NEW voices, voices = SpeakFor(st, Signers(tx)),
         NEW all, all = voices \cup HeldRoles(voices)
  PROVE  /\ Permitted(voices, tx.msg.op)
         /\ tx.msg.op # "batch" => Consented(st, tx.msg, all)
         /\ tx.msg.op = "batch" => /\ Consented(st, tx.msg.first, all)
                                   /\ Consented(Handle(st, tx.msg.first), tx.msg.second, all)
<1>1. voices \in SUBSET (Keys \cup Contracts) /\ Conditions(tx) \subseteq voices
  BY ConditionsAreVoices DEF SpeakFor
<1>2. HeldRoles(Conditions(tx)) \subseteq HeldRoles(voices) /\ HeldRoles(voices) \subseteq RoleIds
  <2>1. Conditions(tx) \in SUBSET (Keys \cup Contracts)
    BY <1>1
  <2>2. QED
    BY <1>1, <2>1, HeldRolesGrow
<1>3. all \in SUBSET Addresses /\ \A a : HasAddress(tx, a) => a \in all
  BY <1>1, <1>2 DEF HasAddress, Addresses
<1>4. Permitted(voices, tx.msg.op)
  <2>1. Permitted(Conditions(tx), tx.msg.op)
    BY DEF Accepts, Admitted
  <2>2. QED
    BY <1>2, <2>1 DEF Permitted, HasPermission
<1>5. ASSUME tx.msg.op # "batch" PROVE Consented(st, tx.msg, all)
  <2>1. Valid(st, tx, tx.msg)
    BY <1>5 DEF Accepts, ValidOnDeliver
  <2>2. tx.msg \in HandlerMsg
    BY <1>5, MessageKinds
  <2>3. QED
    BY <1>3, <2>1, <2>2, ValidIsConsented
<1>6. ASSUME tx.msg.op = "batch"
      PROVE  /\ Consented(st, tx.msg.first, all)
             /\ Consented(Handle(st, tx.msg.first), tx.msg.second, all)
  <2>1. Valid(st, tx, tx.msg.first) /\ Valid(Handle(st, tx.msg.first), tx, tx.msg.second)
    BY <1>6 DEF Accepts, ValidOnDeliver
  <2>2. tx.msg.first \in HandlerMsg /\ tx.msg.second \in HandlerMsg
    BY <1>6, MessageKinds
  <2>3. Handle(st, tx.msg.first) \in Store
    BY <2>2, HandleType
  <2>4. Consented(st, tx.msg.first, all)
    BY <1>3, <2>1, <2>2, ValidIsConsented
  <2>5. QED
    BY <1>3, <2>1, <2>2, <2>3, <2>4, ValidIsConsented
<1>7. QED
  BY <1>4, <1>5, <1>6

(* The contracts after a batch do not depend on the sequences before it. *)
LEMMA BatchContracts ==
  ASSUME NEW st \in Store, NEW after \in Store, after.contracts = st.contracts,
         NEW first \in UpdateMsg, NEW second \in UpdateMsg
  PROVE  Handle(Handle(after, first), second).contracts =
           Handle(Handle(st, first), second).contracts
<1> DEFINE Changed(f, m) == [f EXCEPT ![m.contract] = m.new]
<1>1. ASSUME NEW x \in Store, NEW m \in UpdateMsg
      PROVE  Handle(x, m) \in Store /\ Handle(x, m).contracts = Changed(x.contracts, m)
  <2>1. Handle(x, m) = [x EXCEPT !.contracts[m.contract] = m.new]
    BY <1>1, UpdateKeepsArtifacts
  <2>2. Handle(x, m) \in Store
    BY <1>1, HandleType DEF HandlerMsg
  <2>3. QED
    BY <1>1, <2>1, <2>2 DEF Store
<1> HIDE DEF Changed
<1>2. /\ Handle(after, first) \in Store /\ Handle(st, first) \in Store
      /\ Handle(after, first).contracts = Handle(st, first).contracts
  BY <1>1
<1>3. QED
  BY <1>1, <1>2

(* Whatever changed but sequences was signed for by keys that speak,       *)
(* through the contracts and roles as they were just before, for a holder  *)
(* of the permission and for those whom the handler asks: the owner named  *)
(* in a create message, the owner of a deleted entry, the admins of a      *)
(* contract.  The owner of an entry that a create message replaces is not  *)
(* asked.  A batch took effect whole.                                      *)
THEOREM ChainChangesAreEntitled == Spec => []ChangesAreEntitled
<1>1. ASSUME IInv, NEW i \in DOMAIN chain
      PROVE  LET old == StoreAt(i - 1)
                 new == StoreAt(i)
                 msg == chain[i].msg
                 voices == SpeakFor(old, {used[1] : used \in UsedBy(i)})
                 all == voices \cup HeldRoles(voices)
             IN \/ old.artifacts = new.artifacts /\ old.contracts = new.contracts
                \/ /\ Permitted(voices, msg.op)
                   /\ IF msg.op # "batch" THEN Consented(old, msg, all)
                      ELSE LET half == Handle(old, msg.first) IN
                             /\ Consented(old, msg.first, all) /\ Consented(half, msg.second, all)
                             /\ new.contracts = Handle(half, msg.second).contracts
  <2> DEFINE st == StoreAt(i - 1)
             tx == chain[i]
             voices == SpeakFor(st, Signers(tx))
             all == voices \cup HeldRoles(voices)
             after == AfterSignatures(st, tx)
  <2>1. TypeOK /\ Executed /\ i \in 1 .. Len(chain)
    BY <1>1 DEF IInv, TypeOK
  <2>2. st \in Store /\ tx \in Tx
    BY <2>1, TxType, StoreType
  <2>3. StoreAt(i) = Delivered(st, tx)
    BY <2>1 DEF Executed
  <2>4. CASE ~Accepts(st, tx)
    BY <2>2, <2>3, <2>4, AfterSignaturesNonces DEF Delivered
  <2>5. CASE Accepts(st, tx)
    <3>1. {used[1] : used \in UsedBy(i)} = Signers(tx)
      <4>1. UsedBy(i) = Tickets(st, tx)
        BY DEF UsedBy, Tickets
      <4>2. QED
        BY <2>2, <2>5, <4>1, SignersPay
    <3>2. /\ Permitted(voices, tx.msg.op)
          /\ tx.msg.op # "batch" => Consented(st, tx.msg, all)
          /\ tx.msg.op = "batch" => /\ Consented(st, tx.msg.first, all)
                                    /\ Consented(Handle(st, tx.msg.first), tx.msg.second, all)
      BY <2>2, <2>5, AcceptedIsEntitled
    <3>3. ASSUME tx.msg.op = "batch"
          PROVE  StoreAt(i).contracts =
                   Handle(Handle(st, tx.msg.first), tx.msg.second).contracts
      <4>1. StoreAt(i) = Handle(Handle(after, tx.msg.first), tx.msg.second)
        BY <2>3, <2>5, <3>3 DEF Delivered, Execute
      <4>2. after \in Store /\ after.contracts = st.contracts
        BY <2>2, AfterSignaturesNonces
      <4>3. tx.msg.first \in UpdateMsg /\ tx.msg.second \in UpdateMsg
        BY <2>2, <3>3, MessageKinds
      <4>4. QED
        BY <2>2, <4>1, <4>2, <4>3, BatchContracts
    <3>4. QED
      BY <3>1, <3>2, <3>3
  <2>6. QED
    BY <2>4, <2>5
<1>2. IInv => ChangesAreEntitled
  BY <1>1 DEF ChangesAreEntitled
<1>3. QED
  BY <1>2, Invariance, PTL

-----------------------------------------------------------------------------
(* What a delivered transaction does to the artifacts. *)
LEMMA DeliveredArtifacts ==
  ASSUME NEW st \in Store, NEW tx \in Tx, NEW image \in Images
  PROVE  LET msg == tx.msg
             new == Delivered(st, tx).artifacts[image]
         IN IF Accepts(st, tx) /\ msg.op \in {"create", "delete"} /\ msg.image = image
            THEN new = IF msg.op = "delete" THEN NoArtifact
                       ELSE [checksum |-> msg.checksum, owner |-> msg.owner]
            ELSE new = st.artifacts[image]
<1> DEFINE msg == tx.msg
           after == AfterSignatures(st, tx)
<1>1. after \in Store /\ after.artifacts = st.artifacts
  BY AfterSignaturesNonces
<1>2. CASE ~Accepts(st, tx)
  BY <1>1, <1>2 DEF Delivered
<1>3. CASE Accepts(st, tx) /\ msg \in CreateArtifactMsg
  <2>1. msg.op = "create" /\ Delivered(st, tx) = Handle(after, msg)
    BY <1>3 DEF CreateArtifactMsg, Delivered, Execute
  <2>2. Handle(after, msg) = [after EXCEPT !.artifacts[msg.image] =
                                [checksum |-> msg.checksum, owner |-> msg.owner]]
    BY <2>1 DEF Handle
  <2>3. QED
    BY <1>1, <1>3, <2>1, <2>2 DEF Store, CreateArtifactMsg
<1>4. CASE Accepts(st, tx) /\ msg \in DeleteArtifactMsg
  <2>1. msg.op = "delete" /\ Delivered(st, tx) = Handle(after, msg)
    BY <1>4 DEF DeleteArtifactMsg, Delivered, Execute
  <2>2. Handle(after, msg) = [after EXCEPT !.artifacts[msg.image] = NoArtifact]
    BY <2>1 DEF Handle
  <2>3. QED
    BY <1>1, <1>4, <2>1, <2>2 DEF Store, DeleteArtifactMsg
<1>5. CASE Accepts(st, tx) /\ msg \in UpdateMsg
  <2>1. msg.op = "update" /\ Delivered(st, tx) = Handle(after, msg)
    BY <1>5 DEF UpdateMsg, Delivered, Execute
  <2>2. QED
    BY <1>1, <1>5, <2>1, UpdateKeepsArtifacts
<1>6. CASE Accepts(st, tx) /\ msg \in ExecuteBatchMsg
  <2> DEFINE half == Handle(after, msg.first)
  <2>1. msg.op = "batch" /\ msg.first \in UpdateMsg /\ msg.second \in UpdateMsg
    BY <1>6 DEF ExecuteBatchMsg
  <2>2. Delivered(st, tx) = Handle(half, msg.second)
    BY <1>6, <2>1 DEF Delivered, Execute
  <2>3. half \in Store /\ half.artifacts = after.artifacts
    BY <1>1, <2>1, UpdateKeepsArtifacts, HandleType DEF HandlerMsg
  <2>4. Handle(half, msg.second).artifacts = half.artifacts
    BY <2>1, <2>3, UpdateKeepsArtifacts
  <2>5. QED
    BY <1>1, <2>1, <2>2, <2>3, <2>4
<1>7. QED
  BY <1>2, <1>3, <1>4, <1>5, <1>6 DEF Tx, HandlerMsg

(* After k transactions an image is what the last accepted transaction     *)
(* about it made of it.                                                    *)
FromLast(image, k) ==
  LET is == ChangesOf(image, k)
  IN IF is = {}
     THEN StoreAt(k).artifacts[image] = GenesisStore.artifacts[image]
     ELSE \E i \in is :
            /\ \A j \in is : j <= i
            /\ StoreAt(k).artifacts[image] =
                 IF chain[i].msg.op = "delete" THEN NoArtifact
                 ELSE [checksum |-> chain[i].msg.checksum, owner |-> chain[i].msg.owner]

LEMMA LastDecides ==
  ASSUME TypeOK, Executed, NEW image \in Images, NEW k \in 0 .. Len(chain)
  PROVE  FromLast(image, k)
<1> DEFINE S == {i \in 0 .. Len(chain) : FromLast(image, i)}
<1>1. Len(chain) \in Nat
  BY DEF TypeOK
<1>2. 0 \in S
  <2>1. ChangesOf(image, 0) = {}
    BY DEF ChangesOf
  <2>2. QED
    BY <1>1, <2>1 DEF FromLast, StoreAt
<1>3. ASSUME NEW n \in 0 .. Len(chain) - 1, FromLast(image, n)
      PROVE  FromLast(image, n + 1)
  <2> DEFINE tx == chain[n + 1]
             about == Accepts(StoreAt(n), tx) /\ tx.msg.op \in {"create", "delete"}
                        /\ tx.msg.image = image
  <2>1. n \in Nat /\ n \in 0 .. Len(chain) /\ n + 1 \in 1 .. Len(chain) /\ (n + 1) - 1 = n
    BY <1>1
  <2>2. tx \in Tx /\ StoreAt(n) \in Store /\ StoreAt(n + 1) = Delivered(StoreAt(n), tx)
    BY <2>1, TxType, StoreType DEF Executed
  <2>3. ChangesOf(image, n + 1) = ChangesOf(image, n) \cup (IF about THEN {n + 1} ELSE {})
    <3>1. 1 .. n + 1 = (1 .. n) \cup {n + 1}
      BY <2>1
    <3>2. AcceptedAt(n + 1) <=> Accepts(StoreAt(n), tx)
      BY <2>1 DEF AcceptedAt
    <3>3. QED
      BY <3>1, <3>2 DEF ChangesOf
  <2>4. CASE about
    <3>1. StoreAt(n + 1).artifacts[image] =
            IF tx.msg.op = "delete" THEN NoArtifact
            ELSE [checksum |-> tx.msg.checksum, owner |-> tx.msg.owner]
      BY <2>2, <2>4, DeliveredArtifacts
    <3>2. \A j \in ChangesOf(image, n + 1) : j <= n + 1
      BY <2>1 DEF ChangesOf
    <3>3. n + 1 \in ChangesOf(image, n + 1)
      BY <2>3, <2>4
    <3>4. QED
      BY <3>1, <3>2, <3>3 DEF FromLast
  <2>5. CASE ~about
    <3>1. StoreAt(n + 1).artifacts[image] = StoreAt(n).artifacts[image]
      <4>1. Delivered(StoreAt(n), tx).artifacts[image] = StoreAt(n).artifacts[image]
        <5> DEFINE st == StoreAt(n)
                   t == tx
        <5>1. st \in Store /\ t \in Tx
          BY <2>2
        <5>2. ~(Accepts(st, t) /\ t.msg.op \in {"create", "delete"} /\ t.msg.image = image)
          BY <2>5
        <5> HIDE DEF st, t
        <5>3. Delivered(st, t).artifacts[image] = st.artifacts[image]
          BY <5>1, <5>2, DeliveredArtifacts
        <5>4. QED
          BY <5>3 DEF st, t
      <4>2. QED
        BY <2>2, <4>1
    <3>2. ChangesOf(image, n + 1) = ChangesOf(image, n)
      BY <2>3, <2>5
    <3>3. QED
      BY <1>3, <3>1, <3>2 DEF FromLast
  <2>6. QED
    BY <2>4, <2>5
<1>4. \A n \in 0 .. Len(chain) - 1 : n \in S => n + 1 \in S
  BY <1>1, <1>3
<1> HIDE DEF S
<1>5. 0 .. Len(chain) \subseteq S
  BY <1>1, <1>2, <1>4, UpTo
<1>6. QED
  BY <1>5 DEF S

(* Every entry a node serves, and every missing one, is the outcome of the *)
(* last accepted transaction about the image in the node's blocks.         *)
THEOREM ChainEntriesHaveProvenance == Spec => []EntriesHaveProvenance
<1>1. ASSUME IInv, NEW n \in Nodes, NEW image \in Images
      PROVE  LET is == ChangesOf(image, EndOf(height[n]))
             IN IF is = {}
                THEN committed[n].artifacts[image] = GenesisStore.artifacts[image]
                ELSE \E i \in is :
                       /\ \A j \in is : j <= i
                       /\ committed[n].artifacts[image] =
                            IF chain[i].msg.op = "delete" THEN NoArtifact
                            ELSE [checksum |-> chain[i].msg.checksum, owner |-> chain[i].msg.owner]
  <2>1. TypeOK /\ Executed /\ OnLedger
    BY <1>1 DEF IInv
  <2>2. EndOf(height[n]) \in 0 .. Len(chain)
    BY <2>1, DoneType, EndType
  <2>3. committed[n] = StoreAt(EndOf(height[n]))
    BY <2>1 DEF OnLedger
  <2>4. FromLast(image, EndOf(height[n]))
    BY <2>1, <2>2, LastDecides
  <2>5. QED
    BY <2>3, <2>4 DEF FromLast
<1>2. IInv => EntriesHaveProvenance
  BY <1>1 DEF EntriesHaveProvenance
<1>3. QED
  BY <1>2, Invariance, PTL

-----------------------------------------------------------------------------
(* The stores between the last commit and the check store: each counts in  *)
(* the signatures of one more transaction of the pool, all of which fit.   *)
IsTrail(tr, pool, first, last) ==
  /\ tr \in [0 .. Len(pool) -> Store]
  /\ tr[0] = first /\ tr[Len(pool)] = last
  /\ \A i \in 1 .. Len(pool) :
       Signed(tr[i - 1], pool[i]) /\ tr[i] = AfterSignatures(tr[i - 1], pool[i])

PoolTrailed ==
  \A n \in Nodes : \E tr : IsTrail(tr, mempool[n], committed[n], check[n])

LEMMA EmptyTrail ==
  ASSUME NEW st \in Store
  PROVE  \E tr : IsTrail(tr, << >>, st, st)
<1>1. IsTrail([i \in 0 .. 0 |-> st], << >>, st, st)
  BY DEF IsTrail
<1>2. QED
  BY <1>1

LEMMA LongerTrail ==
  ASSUME NEW pool \in Seq(Txs), NEW first, NEW last, NEW tr, IsTrail(tr, pool, first, last),
         NEW tx \in Txs, Signed(last, tx)
  PROVE  \E tt : IsTrail(tt, Append(pool, tx), first, AfterSignatures(last, tx))
<1> DEFINE n == Len(pool)
           new == AfterSignatures(last, tx)
           tt == [i \in 0 .. n + 1 |-> IF i = n + 1 THEN new ELSE tr[i]]
           longer == Append(pool, tx)
<1>1. n \in Nat /\ Len(longer) = n + 1 /\ longer[n + 1] = tx
  OBVIOUS
<1>2. \A i \in 1 .. n : longer[i] = pool[i]
  OBVIOUS
<1>3. tr[0] = first /\ tr[n] = last /\ \A i \in 0 .. n : tr[i] \in Store
  BY <1>1 DEF IsTrail
<1>4. new \in Store
  BY <1>1, <1>3, ChainAssumption, AfterSignaturesNonces
<1>5. tt \in [0 .. n + 1 -> Store] /\ tt[0] = first /\ tt[n + 1] = new
  BY <1>1, <1>3, <1>4
<1>6. ASSUME NEW i \in 1 .. n + 1
      PROVE  Signed(tt[i - 1], longer[i]) /\ tt[i] = AfterSignatures(tt[i - 1], longer[i])
  <2>1. CASE i = n + 1
    <3>1. tt[i - 1] = last /\ tt[i] = new /\ longer[i] = tx
      BY <1>1, <1>3, <2>1
    <3>2. QED
      BY <3>1
  <2>2. CASE i \in 1 .. n
    <3>1. tt[i - 1] = tr[i - 1] /\ tt[i] = tr[i] /\ longer[i] = pool[i]
      BY <1>1, <1>2, <2>2
    <3>2. QED
      BY <2>2, <3>1 DEF IsTrail
  <2>3. QED
    BY <1>1, <2>1, <2>2
<1> HIDE DEF tt, longer, new
<1>7. IsTrail(tt, longer, first, new)
  BY <1>1, <1>5, <1>6 DEF IsTrail
<1>8. QED
  BY <1>7 DEF longer, new

LEMMA NextPoolTrailed == TypeOK /\ PoolTrailed /\ [Next]_vars => PoolTrailed'
<1> SUFFICES ASSUME TypeOK, PoolTrailed, [Next]_vars PROVE PoolTrailed'
  OBVIOUS
<1> USE DEF consensus, memory, disk
<1>1. ASSUME UNCHANGED <<mempool, committed, check>> PROVE PoolTrailed'
  BY <1>1 DEF PoolTrailed
<1>2. CASE Decide \/ UNCHANGED vars \/ \E tx \in Txs : Propose(tx)
  BY <1>1, <1>2 DEF Propose, Decide, vars
<1>3. ASSUME NEW n \in Nodes, DeliverTx(n) \/ Restart(n) PROVE PoolTrailed'
  BY <1>1, <1>3 DEF DeliverTx, Restart
<1>4. ASSUME NEW n \in Nodes, NEW tx \in Txs, CheckTx(n, tx) PROVE PoolTrailed'
  <2>1. CASE PassesCheck(check[n], tx)
    <3>1. /\ check' = [check EXCEPT ![n] = AfterSignatures(check[n], tx)]
          /\ mempool' = [mempool EXCEPT ![n] = Append(mempool[n], tx)]
          /\ committed' = committed
      BY <1>4, <2>1 DEF CheckTx, Checked
    <3>2. Signed(check[n], tx) /\ mempool[n] \in Seq(Txs)
      BY <2>1 DEF PassesCheck, Admitted, TypeOK
    <3>3. PICK tr : IsTrail(tr, mempool[n], committed[n], check[n])
      BY DEF PoolTrailed
    <3>4. \E tt : IsTrail(tt, Append(mempool[n], tx), committed[n], AfterSignatures(check[n], tx))
      BY <3>2, <3>3, LongerTrail
    <3>5. QED
      BY <3>1, <3>4 DEF PoolTrailed, TypeOK
  <2>2. CASE ~PassesCheck(check[n], tx)
    <3>1. check' = check
      BY <1>4, <2>2 DEF CheckTx, Checked, TypeOK
    <3>2. QED
      BY <1>1, <1>4, <2>2, <3>1 DEF CheckTx
  <2>3. QED
    BY <2>1, <2>2
<1>5. ASSUME NEW n \in Nodes, Commit(n) \/ Crash(n) PROVE PoolTrailed'
  <2>1. /\ mempool' = [mempool EXCEPT ![n] = << >>]
        /\ \E st \in Store : check' = [check EXCEPT ![n] = st] /\ committed' = [committed EXCEPT ![n] = st]
    <3>1. CASE Commit(n)
      BY <3>1 DEF Commit, TypeOK
    <3>2. CASE Crash(n)
      BY <3>2 DEF Crash, TypeOK
    <3>3. QED
      BY <1>5, <3>1, <3>2
  <2>2. PICK st \in Store :
          check' = [check EXCEPT ![n] = st] /\ committed' = [committed EXCEPT ![n] = st]
    BY <2>1
  <2>3. \E tr : IsTrail(tr, << >>, st, st)
    BY EmptyTrail
  <2>4. QED
    BY <2>1, <2>2, <2>3 DEF PoolTrailed, TypeOK
<1>6. QED
  BY <1>2, <1>3, <1>4, <1>5 DEF Next

(* Signatures are judged by the sequences alone.                           *)
LEMMA JudgedByNonces ==
  ASSUME NEW st \in Store, NEW other \in Store, st.nonces = other.nonces, NEW tx \in Tx
  PROVE  /\ Signed(st, tx) <=> Signed(other, tx)
         /\ AfterSignatures(st, tx).nonces = AfterSignatures(other, tx).nonces
<1>1. Signed(st, tx) <=> Signed(other, tx)
  BY DEF Signed
<1>2. \A k : UsesOf(st, tx, k) = UsesOf(other, tx, k)
  BY DEF UsesOf
<1>3. /\ AfterSignatures(st, tx).nonces \in [Keys -> Nat]
      /\ AfterSignatures(other, tx).nonces \in [Keys -> Nat]
  BY AfterSignaturesNonces DEF Store
<1>4. \A k \in Keys : AfterSignatures(st, tx).nonces[k] = AfterSignatures(other, tx).nonces[k]
  BY <1>2, AfterSignaturesNonces
<1>5. QED
  BY <1>1, <1>3, <1>4

(* As long as blocks follow the pool, the ledger follows its trail.        *)
LEMMA LedgerFollowsTrail ==
  ASSUME IInv, NEW n \in Nodes, NEW tr, IsTrail(tr, mempool[n], committed[n], check[n]),
         NEW k \in 0 .. Len(mempool[n]), EndOf(height[n]) + k <= Len(chain),
         \A i \in 1 .. k : chain[EndOf(height[n]) + i] = mempool[n][i]
  PROVE  StoreAt(EndOf(height[n]) + k).nonces = tr[k].nonces
<1> DEFINE e == EndOf(height[n])
           S == {i \in 0 .. k : StoreAt(e + i).nonces = tr[i].nonces}
<1>1. TypeOK /\ Executed /\ OnLedger
  BY DEF IInv
<1>2. /\ e \in Nat /\ k \in Nat /\ Len(chain) \in Nat /\ Len(mempool[n]) \in Nat
      /\ mempool[n] \in Seq(Txs) /\ e + k <= Len(chain)
  <2>1. e \in 0 .. Len(chain)
    BY <1>1, DoneType, EndType
  <2>2. mempool[n] \in Seq(Txs) /\ Len(chain) \in Nat
    BY <1>1 DEF TypeOK
  <2>3. QED
    BY <2>1, <2>2
<1>3. 0 \in S
  <2>1. e + 0 = e /\ committed[n] = StoreAt(e)
    BY <1>1, <1>2 DEF OnLedger
  <2>2. QED
    BY <1>2, <2>1 DEF IsTrail
<1>4. ASSUME NEW i \in 0 .. k - 1, i \in S PROVE i + 1 \in S
  <2>1. /\ e + i \in 0 .. Len(chain) /\ e + (i + 1) \in 1 .. Len(chain)
        /\ (e + (i + 1)) - 1 = e + i /\ i + 1 \in 1 .. k /\ i + 1 \in 1 .. Len(mempool[n])
        /\ (i + 1) - 1 = i /\ i \in 0 .. Len(mempool[n])
    BY <1>2
  <2>2. StoreAt(e + (i + 1)) = Delivered(StoreAt(e + i), mempool[n][i + 1])
    BY <1>1, <2>1 DEF Executed
  <2>3. StoreAt(e + i) \in Store /\ tr[i] \in Store /\ mempool[n][i + 1] \in Tx
    <3>1. StoreAt(e + i) \in Store
      BY <1>1, <2>1, StoreType
    <3>2. tr[i] \in Store
      BY <2>1 DEF IsTrail
    <3>3. mempool[n][i + 1] \in Txs
      <4> DEFINE pool == mempool[n]
      <4>1. pool \in Seq(Txs) /\ i + 1 \in 1 .. Len(pool)
        BY <1>2, <2>1
      <4> HIDE DEF pool
      <4>2. pool[i + 1] \in Txs
        BY <4>1
      <4>3. QED
        BY <4>2 DEF pool
    <3>4. QED
      BY <3>1, <3>2, <3>3, ChainAssumption
  <2>4. tr[i + 1] = AfterSignatures(tr[i], mempool[n][i + 1])
    BY <2>1 DEF IsTrail
  <2>5. StoreAt(e + (i + 1)).nonces = AfterSignatures(StoreAt(e + i), mempool[n][i + 1]).nonces
    BY <2>2, <2>3, DeliveredType
  <2>6. StoreAt(e + i).nonces = tr[i].nonces
    BY <1>4
  <2>7. StoreAt(e + (i + 1)).nonces = tr[i + 1].nonces
    BY <2>3, <2>4, <2>5, <2>6, JudgedByNonces
  <2>8. QED
    BY <2>1, <2>7
<1> HIDE DEF S
<1>5. 0 .. k \subseteq S
  BY <1>2, <1>3, <1>4, UpTo
<1>6. QED
  BY <1>2, <1>5 DEF S

(* A transaction that passed CheckTx and then fails in a handler does not  *)
(* strand what its signers queued behind it.                               *)
THEOREM ChainMempoolStaysDeliverable == Spec => []MempoolStaysDeliverable
<1>1. Init => PoolTrailed
  BY ChainAssumption, EmptyTrail DEF Init, PoolTrailed
<1>2. ASSUME IInv, PoolTrailed, NEW n \in Nodes,
             done[n] - EndOf(height[n]) < Len(mempool[n]),
             \A i \in 1 .. done[n] - EndOf(height[n]) :
               chain[EndOf(height[n]) + i] = mempool[n][i]
      PROVE  Signed(deliver[n], mempool[n][(done[n] - EndOf(height[n])) + 1])
  <2> DEFINE e == EndOf(height[n])
             k == done[n] - e
             tx == mempool[n][k + 1]
  <2>1. TypeOK /\ OnLedger
    BY <1>2 DEF IInv
  <2>2. PICK tr : IsTrail(tr, mempool[n], committed[n], check[n])
    BY <1>2 DEF PoolTrailed
  <2>3. /\ mempool[n] \in Seq(Txs) /\ Len(mempool[n]) \in Nat /\ Len(chain) \in Nat
        /\ e <= done[n] /\ done[n] \in 0 .. Len(chain) /\ e \in 0 .. Len(chain)
    <3>1. done[n] \in 0 .. Len(chain) /\ e \in 0 .. Len(chain)
      BY <2>1, DoneType, EndType
    <3>2. QED
      BY <2>1, <3>1 DEF TypeOK
  <2>4. /\ k \in 0 .. Len(mempool[n]) /\ e + k = done[n] /\ e + k <= Len(chain)
        /\ k + 1 \in 1 .. Len(mempool[n]) /\ (k + 1) - 1 = k
    BY <1>2, <2>3
  <2>5. StoreAt(done[n]).nonces = tr[k].nonces
    BY <1>2, <2>2, <2>4, LedgerFollowsTrail
  <2>6. Signed(tr[k], tx)
    BY <2>2, <2>4 DEF IsTrail
  <2>7. tr[k] \in Store /\ StoreAt(done[n]) \in Store /\ tx \in Tx
    <3>1. tr[k] \in Store
      BY <2>2, <2>4 DEF IsTrail
    <3>2. StoreAt(done[n]) \in Store
      BY <2>1, <2>3, StoreType
    <3>3. tx \in Txs
      <4> DEFINE pool == mempool[n]
                 i == k + 1
      <4>1. pool \in Seq(Txs) /\ i \in 1 .. Len(pool)
        BY <2>3, <2>4
      <4> HIDE DEF pool, i
      <4>2. pool[i] \in Txs
        BY <4>1
      <4>3. QED
        BY <4>2 DEF pool, i
    <3>4. QED
      BY <3>1, <3>2, <3>3, ChainAssumption
  <2>8. deliver[n] = StoreAt(done[n])
    BY <2>1 DEF OnLedger
  <2>9. QED
    BY <2>5, <2>6, <2>7, <2>8, JudgedByNonces
<1>3. IInv /\ PoolTrailed => MempoolStaysDeliverable
  BY <1>2 DEF MempoolStaysDeliverable
<1>4. IInv /\ PoolTrailed /\ [Next]_vars => PoolTrailed'
  BY NextPoolTrailed DEF IInv
<1>5. QED
  BY <1>1, <1>3, <1>4, Invariance, PTL DEF Spec
=============================================================================
