---------------------------- MODULE GrafainChain ----------------------------
(***************************************************************************)
(* Nodes that run the application of pkg/app/app.go (Application: the      *)
(* Stack on a store that commits to disk) under a consensus engine that    *)
(* decides blocks of transactions.                                         *)
(*                                                                         *)
(* Each node has the committed store on disk and two copies in memory, one *)
(* for DeliverTx and one for CheckTx.  Blocks hold transactions in any     *)
(* number and order, checked or not.  A crash loses what is in memory;     *)
(* after a restart the node executes the unfinished block again.  The      *)
(* calls of one node are serialised by the engine, CheckTx may fall        *)
(* between any two of the others.                                          *)
(*                                                                         *)
(* ledger is a history variable: the stores a single machine would go      *)
(* through that executes the chain from genesis once, in order.            *)
(***************************************************************************)
EXTENDS TxStack

CONSTANTS
  Nodes,
  Txs,           \* transactions that exist
  GenesisStore,  \* the store after InitChain
  MaxTxs, MaxBlocks, MaxCrashes, MaxMempool  \* bounds, the last one per node

ASSUME ChainAssumption ==
  /\ Txs \subseteq Tx
  /\ GenesisStore \in Store
  /\ {MaxTxs, MaxBlocks, MaxCrashes} \subseteq Nat
  /\ MaxMempool \in [Nodes -> Nat]

VARIABLES
  chain,      \* transactions of all blocks, the last of which may be open
  ends,       \* ends[h]: the number of transactions in the first h blocks
  ledger,     \* history: ledger[i] is the store after i transactions
  height,     \* per node: blocks committed
  done,       \* per node: transactions executed
  committed,  \* per node: the committed store
  deliver,    \* per node: the store DeliverTx works on
  check,      \* per node: the store CheckTx works on
  mempool,    \* per node: transactions accepted by CheckTx since the commit
  up,
  crashes

consensus == <<chain, ends, ledger>>
memory == <<done, deliver, check, mempool>>
disk == <<height, committed>>
vars == <<consensus, memory, disk, up, crashes>>

StoreAt(i) == IF i = 0 THEN GenesisStore ELSE ledger[i]
EndOf(h) == IF h = 0 THEN 0 ELSE ends[h]

Init ==
  /\ chain = << >> /\ ends = << >> /\ ledger = << >>
  /\ height = [n \in Nodes |-> 0]
  /\ done = [n \in Nodes |-> 0]
  /\ committed = [n \in Nodes |-> GenesisStore]
  /\ deliver = [n \in Nodes |-> GenesisStore]
  /\ check = [n \in Nodes |-> GenesisStore]
  /\ mempool = [n \in Nodes |-> << >>]
  /\ up = [n \in Nodes |-> TRUE]
  /\ crashes = 0

(* The proposer puts one more transaction into the next block. *)
Propose(tx) ==
  /\ Len(chain) < MaxTxs
  /\ chain' = Append(chain, tx)
  /\ ledger' = Append(ledger, Delivered(StoreAt(Len(chain)), tx))
  /\ UNCHANGED <<ends, memory, disk, up, crashes>>

(* The block is decided. *)
Decide ==
  /\ Len(ends) < MaxBlocks
  /\ ends' = Append(ends, Len(chain))
  /\ UNCHANGED <<chain, ledger, memory, disk, up, crashes>>

CheckTx(n, tx) ==
  /\ up[n] /\ Len(mempool[n]) < MaxMempool[n]
  /\ check' = [check EXCEPT ![n] = Checked(check[n], tx)]
  /\ mempool' = IF PassesCheck(check[n], tx)
                  THEN [mempool EXCEPT ![n] = Append(mempool[n], tx)] ELSE mempool
  /\ UNCHANGED <<consensus, done, deliver, disk, up, crashes>>

InBlock(n) == up[n] /\ height[n] < Len(ends)

(* Mutant: execution of a block stops at a transaction that fails. *)
DeliverTxIfAccepted(n) ==
  /\ InBlock(n) /\ done[n] < EndOf(height[n] + 1)
  /\ Accepts(deliver[n], chain[done[n] + 1])
  /\ deliver' = [deliver EXCEPT ![n] = Delivered(deliver[n], chain[done[n] + 1])]
  /\ done' = [done EXCEPT ![n] = done[n] + 1]
  /\ UNCHANGED <<consensus, check, mempool, disk, up, crashes>>

DeliverTx(n) ==
  /\ InBlock(n) /\ done[n] < EndOf(height[n] + 1)
  /\ deliver' = [deliver EXCEPT ![n] = Delivered(deliver[n], chain[done[n] + 1])]
  /\ done' = [done EXCEPT ![n] = done[n] + 1]
  /\ UNCHANGED <<consensus, check, mempool, disk, up, crashes>>

(* Mutant: a block is committed before all of it is executed. *)
CommitEarly(n) ==
  /\ InBlock(n)
  /\ committed' = [committed EXCEPT ![n] = deliver[n]]
  /\ check' = [check EXCEPT ![n] = deliver[n]]
  /\ mempool' = [mempool EXCEPT ![n] = << >>]
  /\ height' = [height EXCEPT ![n] = height[n] + 1]
  /\ UNCHANGED <<consensus, done, deliver, up, crashes>>

(* The deliver store goes to disk and both working copies start from it;   *)
(* the engine checks again what is left in its pool.                       *)
Commit(n) ==
  /\ InBlock(n) /\ done[n] = EndOf(height[n] + 1)
  /\ committed' = [committed EXCEPT ![n] = deliver[n]]
  /\ check' = [check EXCEPT ![n] = deliver[n]]
  /\ mempool' = [mempool EXCEPT ![n] = << >>]
  /\ height' = [height EXCEPT ![n] = height[n] + 1]
  /\ UNCHANGED <<consensus, done, deliver, up, crashes>>

(* Mutant: the deliver store outlives the crash. *)
CrashKeepsDeliver(n) ==
  /\ up[n] /\ crashes < MaxCrashes
  /\ up' = [up EXCEPT ![n] = FALSE]
  /\ crashes' = crashes + 1
  /\ done' = [done EXCEPT ![n] = EndOf(height[n])]
  /\ check' = [check EXCEPT ![n] = committed[n]]
  /\ mempool' = [mempool EXCEPT ![n] = << >>]
  /\ UNCHANGED <<consensus, deliver, disk>>

(* The process dies; what a restart will load is already shown. *)
Crash(n) ==
  /\ up[n] /\ crashes < MaxCrashes
  /\ up' = [up EXCEPT ![n] = FALSE]
  /\ crashes' = crashes + 1
  /\ done' = [done EXCEPT ![n] = EndOf(height[n])]
  /\ deliver' = [deliver EXCEPT ![n] = committed[n]]
  /\ check' = [check EXCEPT ![n] = committed[n]]
  /\ mempool' = [mempool EXCEPT ![n] = << >>]
  /\ UNCHANGED <<consensus, disk>>

Restart(n) ==
  /\ ~up[n]
  /\ up' = [up EXCEPT ![n] = TRUE]
  /\ UNCHANGED <<consensus, memory, disk, crashes>>

Next ==
  \/ \E tx \in Txs : Propose(tx)
  \/ Decide
  \/ \E n \in Nodes :
       \/ \E tx \in Txs : CheckTx(n, tx)
       \/ DeliverTx(n) \/ Commit(n) \/ Crash(n) \/ Restart(n)

Spec == Init /\ [][Next]_vars

(* The engine keeps executing decided blocks and a dead node is started    *)
(* again; nothing forces transactions, blocks or checks to happen.         *)
Fairness ==
  \A n \in Nodes : WF_vars(DeliverTx(n)) /\ WF_vars(Commit(n)) /\ WF_vars(Restart(n))
FairSpec == Spec /\ Fairness
-----------------------------------------------------------------------------
TypeOK ==
  /\ chain \in Seq(Txs)
  /\ ends \in Seq(Nat)
  /\ \A h \in DOMAIN ends : EndOf(h - 1) <= ends[h] /\ ends[h] <= Len(chain)
  /\ ledger \in Seq(Store) /\ Len(ledger) = Len(chain)
  /\ height \in [Nodes -> Nat]
  /\ done \in [Nodes -> Nat]
  /\ committed \in [Nodes -> Store]
  /\ deliver \in [Nodes -> Store]
  /\ check \in [Nodes -> Store]
  /\ mempool \in [Nodes -> Seq(Txs)]
  /\ up \in [Nodes -> BOOLEAN]
  /\ crashes \in Nat
  /\ \A n \in Nodes :
       /\ height[n] <= Len(ends)
       /\ EndOf(height[n]) <= done[n]
       /\ done[n] > EndOf(height[n]) =>
            height[n] < Len(ends) /\ done[n] <= EndOf(height[n] + 1)

(* Two nodes that committed the same number of blocks have the same store, *)
(* whatever they were asked to check in between and however often they     *)
(* crashed in the middle of a block: what the application hash of a block  *)
(* header compares.                                                        *)
ReplicasAgree ==
  \A m, n \in Nodes : height[m] = height[n] => committed[m] = committed[n]

(* The signatures the i-th transaction used up. *)
UsedBy(i) ==
  {<<chain[i].signatures[j].key, chain[i].signatures[j].sequence>> :
     j \in Verified(StoreAt(i - 1).nonces, chain[i].signatures)}

AcceptedAt(i) == Accepts(StoreAt(i - 1), chain[i])

(* No signature counts twice, and no transaction takes effect twice, even  *)
(* when it is delivered again, in another block, after others of the same  *)
(* signers or after it failed before (sigs.Decorator as Chain places it).  *)
NoReplay ==
  \A i, j \in DOMAIN chain : i # j =>
    /\ UsedBy(i) \cap UsedBy(j) = {}
    /\ AcceptedAt(i) /\ AcceptedAt(j) => chain[i] # chain[j]

(* The accepted transactions about an image among the first k. *)
ChangesOf(image, k) ==
  {i \in 1 .. k : AcceptedAt(i) /\ chain[i].msg.op \in {"create", "delete"}
                    /\ chain[i].msg.image = image}

(* Every entry a node serves, and every missing one, is the outcome of the *)
(* last accepted transaction about the image in the blocks the node has    *)
(* committed; it carries the checksum and the owner of that transaction.   *)
EntriesHaveProvenance ==
  \A n \in Nodes, image \in Images :
    LET is == ChangesOf(image, EndOf(height[n]))
    IN IF is = {}
       THEN committed[n].artifacts[image] = GenesisStore.artifacts[image]
       ELSE \E i \in is :
              /\ \A j \in is : j <= i
              /\ committed[n].artifacts[image] =
                   IF chain[i].msg.op = "delete" THEN NoArtifact
                   ELSE [checksum |-> chain[i].msg.checksum, owner |-> chain[i].msg.owner]

(* The keys and contracts the keys in S can speak for together: the least  *)
(* set that a contract joins when enough of its participants are in it.    *)
SpeakFor(st, S) ==
  {a \in Keys \cup Contracts :
     \A A \in SUBSET (Keys \cup Contracts) :
       /\ S \subseteq A
       /\ \A c \in Contracts :
            Cardinality(st.contracts[c].participants \cap A) >= st.contracts[c].activation
              => c \in A
       => a \in A}

(* Whom the handlers ask: the owner a create message names, not the owner  *)
(* of an entry it replaces (OwnerDecides); the owner of the deleted entry; *)
(* enough admins of the changed contract.                                  *)
Consented(st, msg, voices) ==
  CASE msg.op = "create" -> msg.owner \in voices
    [] msg.op = "delete" -> st.artifacts[msg.image].owner \in voices
    [] OTHER -> Cardinality(st.contracts[msg.contract].participants \cap voices) >=
                  st.contracts[msg.contract].admin

(* A change of the store other than of sequences was signed for with fresh *)
(* signatures by keys that can, through the contracts as they stood just   *)
(* before, speak for a holder of a role with the permission, and for those *)
(* whom its handler asks (Chain, and the handlers' validate).  A batch     *)
(* takes effect whole, with the consent of those who are asked about each  *)
(* of its messages by then, or not at all.                                 *)
ChangesAreEntitled ==
  \A i \in DOMAIN chain :
    LET old == StoreAt(i - 1)
        new == StoreAt(i)
        msg == chain[i].msg
        voices == SpeakFor(old, {used[1] : used \in UsedBy(i)})
        all == voices \cup HeldRoles(voices)
    IN \/ old.artifacts = new.artifacts /\ old.contracts = new.contracts
       \/ /\ Permitted(voices, msg.op)
          /\ IF msg.op # "batch" THEN Consented(old, msg, all)
             ELSE LET half == Handle(old, msg.first) IN
                    /\ Consented(old, msg.first, all) /\ Consented(half, msg.second, all)
                    /\ new.contracts = Handle(half, msg.second).contracts

(* pkg/artifact/codec.proto:10, "Owner is the address that is allowed ot   *)
(* modify or delete this entity": an entry changes only with the voice of  *)
(* the owner it had.                                                       *)
OwnerDecides ==
  \A i \in DOMAIN chain, image \in Images :
    LET old == StoreAt(i - 1)
        entry == old.artifacts[image]
        voices == SpeakFor(old, {used[1] : used \in UsedBy(i)})
    IN entry # NoArtifact /\ StoreAt(i).artifacts[image] # entry
         => entry.owner \in voices \cup HeldRoles(voices)

(* CheckTx changes nothing but sequences of its own copy: artifacts and    *)
(* contracts are always judged there as of the last commit.                *)
CheckIsolated ==
  \A n \in Nodes :
    /\ check[n].artifacts = committed[n].artifacts
    /\ check[n].contracts = committed[n].contracts

(* When the block in execution began with the first transactions of the    *)
(* pool, the signatures of the next one in the pool still verify: a        *)
(* transaction that passed CheckTx and then fails in a handler does not    *)
(* strand those its signers queued behind it.  Holds because Check rolls   *)
(* back on error while Deliver keeps the sequences (app.go:58-65).         *)
MempoolStaysDeliverable ==
  \A n \in Nodes :
    LET k == done[n] - EndOf(height[n])
    IN /\ k < Len(mempool[n])
       /\ \A i \in 1 .. k : chain[EndOf(height[n]) + i] = mempool[n][i]
       => Signed(deliver[n], mempool[n][k + 1])

(* The chain implements the registry; publishing follows the chain itself, *)
(* which every node catches up with.                                       *)
Registry == INSTANCE ArtifactRegistry WITH
  registry <- StoreAt(Len(ledger)).artifacts,
  spent <- UNION {UsedBy(i) : i \in DOMAIN chain}
ImplementsRegistry == Registry!Spec

(* Every decided block is committed by every node in the end, also by one  *)
(* that crashed and whatever becomes of the transactions in the block.     *)
(* Decided blocks stay decided, so this says Len(ends) >= h ~>             *)
(* height[n] >= h.                                                         *)
DecidedGetsCommitted ==
  \A n \in Nodes, h \in 1 .. MaxBlocks : []<>(Len(ends) >= h => height[n] >= h)
=============================================================================
