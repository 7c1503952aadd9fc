----------------------------- MODULE ClientNonce -----------------------------
(***************************************************************************)
(* The sequence cache of the client (Nonce in pkg/client/base_client.go),  *)
(* shared by several callers, against a chain that takes the transactions  *)
(* of one signer in the order of their sequence numbers.                   *)
(*                                                                         *)
(* Next holds the mutex twice, never across the query, and Query reads the *)
(* cached number once more after it has let go of the mutex.               *)
(***************************************************************************)
EXTENDS Integers, Sequences, Functions

CONSTANTS
  Callers,
  MaxNonce,  \* bound: no caller asks for a number beyond it, unless it was refused
  MaxLost    \* bound: transactions that are signed and never sent

ASSUME ClientNonceAssumption == MaxNonce \in Nat /\ MaxLost \in Nat

VARIABLES
  users,  \* callers this Nonce was given to
  nonce, fromQuery,  \* the fields of Nonce
  pc,       \* per caller: where it is in Next or Query, or what it does after
  got,      \* per caller: the number it got, or GetUser's answer
  seq,      \* sequence of the signer in the committed state
  pool,     \* number of its transactions in the mempool
  refused,  \* callers whose last transaction was refused
  lost,     \* history: numbers given out and never sent
  unsure,   \* history: since the last query that found nothing in the mempool, a
            \* number was lost, or a query that had to be made was behind the mempool
  handed    \* history: numbers given out since the cache was filled, in order

vars == <<users, nonce, fromQuery, pc, got, seq, pool, refused, lost, unsure, handed>>
cache == <<nonce, fromQuery>>
chain == <<seq, pool>>
caller == <<users, refused, lost, unsure>>

Alone(c) == users = {c}
Locations == {"idle", "first", "query", "set", "read", "take", "send"}
At(c, l) == pc[c] = l
Goto(c, l) == pc' = [pc EXCEPT ![c] = l]

Init ==
  /\ users \in SUBSET Callers
  /\ nonce = 0 /\ fromQuery = FALSE
  /\ pc = [c \in Callers |-> "idle"]
  /\ got = [c \in Callers |-> 0]
  /\ seq \in 0 .. 1 /\ pool \in 0 .. 1
  /\ refused = {} /\ lost = 0 /\ unsure = FALSE
  /\ handed = << >>

(* The cache as one caller leaves it that asked for the first number alone. *)
WarmInit ==
  /\ users \in SUBSET Callers
  /\ seq \in 0 .. 1 /\ pool = 0
  /\ nonce = seq /\ fromQuery = TRUE
  /\ \E c \in users : pc = [d \in Callers |-> IF d = c THEN "send" ELSE "idle"]
  /\ got = [c \in Callers |-> seq]
  /\ refused = {} /\ lost = 0 /\ unsure = FALSE
  /\ handed = <<seq>>

(* Next, first critical section. *)
StartNext(c) ==
  /\ At(c, "idle") /\ c \in users
  /\ nonce < MaxNonce
  /\ Goto(c, IF ~fromQuery /\ nonce = 0 THEN "first" ELSE "take")
  /\ UNCHANGED <<cache, got, chain, caller, handed>>

(* Query, which a caller may call at any time. *)
StartQuery(c) ==
  /\ At(c, "idle") /\ c \in users
  /\ c \in refused \/ seq < MaxNonce
  /\ Goto(c, "query")
  /\ UNCHANGED <<cache, got, chain, caller, handed>>

(* The committed sequence, 0 for an address that never signed, whatever    *)
(* waits in the mempool; or an error that Query and Next return.  The      *)
(* query had to be made if the caller called Query or no number was given  *)
(* out yet.                                                                *)
GetUser(c) ==
  /\ pc[c] \in {"first", "query"}
  /\ \/ /\ got' = [got EXCEPT ![c] = seq] /\ Goto(c, "set")
        /\ unsure' = (pool > 0 /\ (unsure \/ At(c, "query") \/ handed = << >>))
     \/ Goto(c, "idle") /\ UNCHANGED <<got, unsure>>
  /\ UNCHANGED <<cache, chain, users, refused, lost, handed>>

(* Mutant: Query forgets to say where the number came from. *)
SetNonceSilently(c) ==
  /\ At(c, "set") /\ Goto(c, "read")
  /\ nonce' = got[c] /\ handed' = << >>
  /\ UNCHANGED <<fromQuery, got, chain, caller>>

(* Mutant: a number in the cache is not replaced. *)
SetNonceOnce(c) ==
  /\ At(c, "set") /\ Goto(c, "read")
  /\ nonce' = (IF nonce = 0 THEN got[c] ELSE nonce)
  /\ fromQuery' = TRUE /\ handed' = << >>
  /\ UNCHANGED <<got, chain, caller>>

SetNonce(c) ==
  /\ At(c, "set") /\ Goto(c, "read")
  /\ nonce' = got[c] /\ fromQuery' = TRUE /\ handed' = << >>
  /\ UNCHANGED <<got, chain, caller>>

HandOut(c, n) ==
  /\ Goto(c, "send")
  /\ got' = [got EXCEPT ![c] = n]
  /\ handed' = Append(handed, n)

(* Query's return reads nonce without the mutex. *)
ReadNonce(c) ==
  /\ At(c, "read") /\ HandOut(c, nonce)
  /\ UNCHANGED <<cache, chain, caller>>

(* Mutant: the second critical section without its mutex. *)
TakeUnlocked(c) ==
  \/ /\ At(c, "take") /\ HandOut(c, nonce + 1)
     /\ UNCHANGED <<cache, chain, caller>>
  \/ /\ At(c, "send") /\ nonce' = got[c] /\ fromQuery' = FALSE
     /\ UNCHANGED <<pc, got, chain, caller, handed>>

(* Next, second critical section. *)
Take(c) ==
  /\ At(c, "take") /\ HandOut(c, nonce + 1)
  /\ nonce' = nonce + 1 /\ fromQuery' = FALSE
  /\ UNCHANGED <<chain, caller>>

(* CheckTx takes the number that follows those it has taken. *)
Send(c) ==
  /\ At(c, "send") /\ Goto(c, "idle")
  /\ \/ got[c] = seq + pool /\ pool' = pool + 1 /\ refused' = refused \ {c}
     \/ got[c] # seq + pool /\ UNCHANGED pool /\ refused' = refused \cup {c}
  /\ UNCHANGED <<users, cache, got, seq, lost, unsure, handed>>

(* The caller gives up between the number and the broadcast. *)
Lose(c) ==
  /\ At(c, "send") /\ lost < MaxLost /\ Goto(c, "idle")
  /\ lost' = lost + 1 /\ unsure' = TRUE
  /\ UNCHANGED <<users, cache, got, chain, refused, handed>>

Commit ==
  /\ pool > 0 /\ seq' = seq + pool /\ pool' = 0
  /\ UNCHANGED <<cache, pc, got, caller, handed>>

Work(c) ==
  \/ StartNext(c) \/ GetUser(c) \/ SetNonce(c) \/ ReadNonce(c) \/ Take(c)
  \/ Send(c) \/ Lose(c)

Next == (\E c \in Callers : Work(c) \/ StartQuery(c)) \/ Commit

Spec == Init /\ [][Next]_vars

(* The ways to use a Nonce that its comments allow for: one caller, who    *)
(* calls Query and Next as it likes; or several that call Next, once one   *)
(* of them alone has filled the cache.                                     *)
UsedProperly == (Init /\ \E c \in Callers : Alone(c)) \/ WarmInit
ProperNext == (\E c \in Callers : Work(c) \/ (Alone(c) /\ StartQuery(c))) \/ Commit
ProperSpec == UsedProperly /\ [][ProperNext]_vars

(* A caller that keeps being refused calls Query in the end, its goroutine *)
(* runs, queries succeed now and then, blocks are made.                    *)
Fairness ==
  /\ WF_vars(Commit)
  /\ \A c \in Callers :
       /\ SF_vars(c \in refused /\ StartQuery(c))
       /\ SF_vars(GetUser(c) /\ Goto(c, "set"))
       /\ WF_vars(SetNonce(c)) /\ WF_vars(ReadNonce(c)) /\ WF_vars(Take(c))
       /\ WF_vars(Send(c))
FairSpec == ProperSpec /\ Fairness
-----------------------------------------------------------------------------
TypeOK ==
  /\ users \subseteq Callers
  /\ nonce \in Nat /\ fromQuery \in BOOLEAN
  /\ pc \in [Callers -> Locations]
  /\ got \in [Callers -> Nat]
  /\ seq \in Nat /\ pool \in Nat
  /\ refused \subseteq Callers
  /\ lost \in Nat /\ unsure \in BOOLEAN
  /\ handed \in Seq(Nat)

(* A caller with a Nonce of its own, about to send, is refused only for a  *)
(* cause: it lost a number, or it called Query, or asked for its first     *)
(* number, while transactions of the signer waited in the mempool, and has *)
(* found the mempool empty in no query since.  Next alone keeps up with a  *)
(* chain that has not committed, or not even seen the account.             *)
RefusedOnlyForCause ==
  \A c \in Callers : Alone(c) /\ At(c, "send") /\ got[c] # seq + pool => unsure

(* Next, "It will always increment by 1": the numbers given out since the  *)
(* cache was filled follow each other without a gap or a repetition.       *)
AlwaysIncrements ==
  \A i \in 1 .. Len(handed) - 1 : handed[i + 1] = handed[i] + 1

(* A refused caller that asks the chain again gets a transaction in, even  *)
(* if its first answers are behind the mempool.                            *)
RefusedRecovers == \A c \in Callers : Alone(c) /\ c \in refused ~> c \notin refused
=============================================================================
