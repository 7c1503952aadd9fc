----------------------------- MODULE TxBroadcast -----------------------------
(***************************************************************************)
(* Sending transactions through the client (pkg/client/base_client.go):    *)
(* BroadcastTx, a goroutine that asks the node to answer after the commit, *)
(* and BroadcastTxSync, which asks for CheckTx only, then subscribes to    *)
(* the event of the transaction and waits.  Calls run concurrently, and    *)
(* two of them may carry the same transaction.  The connection is the node *)
(* itself (rpcclient.NewLocal), where a subscriber has a name, or HTTP     *)
(* (rpcclient.NewHTTP), where all calls are one subscriber.                *)
(***************************************************************************)
EXTENDS Functions

CONSTANTS
  SyncCalls,     \* calls of BroadcastTxSync
  CommitCalls,   \* calls of BroadcastTx
  TxOf,          \* the transaction of a call
  Unmarshalable, \* transactions that Marshal refuses
  Suffixes       \* two random bytes

Calls == SyncCalls \cup CommitCalls
Txs == {TxOf[c] : c \in Calls}

ASSUME TxBroadcastAssumption ==
  /\ SyncCalls \cap CommitCalls = {}
  /\ DOMAIN TxOf = Calls
  /\ Unmarshalable \subseteq Txs

VARIABLES
  remote,  \* whether the connection is HTTP
  pc,      \* per call: where it is
  report,  \* per call: what it returned
  worker,  \* per BroadcastTx: its goroutine
  out,     \* per BroadcastTx: the channel between the two
  uuid,    \* per call: the name its subscription has on the node
  inbox,   \* per call: the event in its channel
  subs,    \* subscriptions: the subscriber's name, and the call that holds the channel
  pool,    \* node: mempool
  result   \* chain: DeliverTx's answer, by transaction, "none" before the block

vars == <<remote, pc, report, worker, out, uuid, inbox, subs, pool, result>>
node == <<subs, pool, result>>
channel == <<worker, out>>
waiting == <<remote, uuid, inbox>>

Answers == {"ok", "checkErr", "deliverErr", "error", "timeout"}

Init ==
  /\ remote \in BOOLEAN
  /\ pc = [c \in Calls |-> "idle"]
  /\ report = [c \in Calls |-> "none"]
  /\ worker = [c \in CommitCalls |-> "none"]
  /\ out = [c \in CommitCalls |-> "none"]
  /\ uuid = [c \in Calls |-> << >>]
  /\ inbox = [c \in Calls |-> "none"]
  /\ subs = {} /\ pool = {}
  /\ result = [t \in Txs |-> "none"]

Goto(c, l) == pc' = [pc EXCEPT ![c] = l]
Return(c, r) == report' = [report EXCEPT ![c] = r]
Known(t) == t \in pool \/ result[t] # "none"

(* The node checks a transaction; one it has already seen is refused. *)
Accepted(c) == ~Known(TxOf[c]) /\ pool' = pool \cup {TxOf[c]}

(* BroadcastTx and BroadcastTxSync are called. *)
Call(c) ==
  /\ pc[c] = "idle"
  /\ \/ c \in SyncCalls /\ Goto(c, "submit") /\ UNCHANGED channel
     \/ /\ c \in CommitCalls /\ Goto(c, "receive")
        /\ worker' = [worker EXCEPT ![c] = "marshal"]
        /\ out' = [out EXCEPT ![c] = "open"]
  /\ UNCHANGED <<report, waiting, node>>

-----------------------------------------------------------------------------
(* A send of the goroutine; on a closed channel it panics. *)
Put(c, r) == out' = [out EXCEPT ![c] = IF @ = "closed" THEN "panic" ELSE r]
WorkerTo(c, l) == worker' = [worker EXCEPT ![c] = l]

(* Mutant: no return after the error of Marshal was sent. *)
MarshalWithoutReturn(c) ==
  /\ worker[c] = "marshal"
  /\ \/ TxOf[c] \in Unmarshalable /\ Put(c, "error")
     \/ TxOf[c] \notin Unmarshalable /\ UNCHANGED out
  /\ WorkerTo(c, "post")
  /\ UNCHANGED <<pc, report, waiting, node>>

Marshal(c) ==
  /\ worker[c] = "marshal"
  /\ \/ TxOf[c] \in Unmarshalable /\ Put(c, "error") /\ WorkerTo(c, "end")
     \/ TxOf[c] \notin Unmarshalable /\ UNCHANGED out /\ WorkerTo(c, "post")
  /\ UNCHANGED <<pc, report, waiting, node>>

(* conn.BroadcastTxCommit: the connection fails, before or after the node  *)
(* took the transaction; CheckTx refuses it; or the node waits for it.     *)
PostCommit(c) ==
  /\ worker[c] = "post"
  /\ \/ Put(c, "error") /\ WorkerTo(c, "end") /\ (Accepted(c) \/ UNCHANGED pool)
     \/ Put(c, "checkErr") /\ WorkerTo(c, "end") /\ UNCHANGED pool
     \/ Accepted(c) /\ WorkerTo(c, "pending") /\ UNCHANGED out
  /\ UNCHANGED <<pc, report, waiting, subs, result>>

(* The node answers when the transaction is in a block, or gives up. *)
NodeAnswers(c) ==
  /\ worker[c] = "pending"
  /\ \/ result[TxOf[c]] # "none" /\ Put(c, result[TxOf[c]])
     \/ Put(c, "error")
  /\ WorkerTo(c, "end")
  /\ UNCHANGED <<pc, report, waiting, node>>

(* BroadcastTx takes the answer and closes the channel. *)
Receive(c) ==
  /\ pc[c] = "receive" /\ out[c] \in Answers
  /\ Return(c, out[c]) /\ Goto(c, "done")
  /\ out' = [out EXCEPT ![c] = "closed"]
  /\ UNCHANGED <<worker, waiting, node>>

-----------------------------------------------------------------------------
(* Mutant: CheckTx's answer is taken for the result. *)
SubmitOnly(c) ==
  /\ pc[c] = "submit" /\ Goto(c, "done")
  /\ \/ Return(c, "error") /\ UNCHANGED pool
     \/ TxOf[c] \notin Unmarshalable /\ Accepted(c) /\ Return(c, "ok")
  /\ UNCHANGED <<channel, waiting, subs, result>>

(* BroadcastTxSync up to the answer of CheckTx. *)
Submit(c) ==
  /\ pc[c] = "submit"
  /\ \/ TxOf[c] \in Unmarshalable /\ Return(c, "error") /\ Goto(c, "done") /\ UNCHANGED pool
     \/ /\ TxOf[c] \notin Unmarshalable
        /\ \/ Return(c, "error") /\ Goto(c, "done") /\ (Accepted(c) \/ UNCHANGED pool)
           \/ Return(c, "checkErr") /\ Goto(c, "done") /\ UNCHANGED pool
           \/ Accepted(c) /\ Goto(c, "subscribe") /\ UNCHANGED report
  /\ UNCHANGED <<channel, waiting, subs, result>>

(* The subscriber's name: hash and random bytes; HTTP drops it. *)
Names(c) == IF remote THEN {<< >>} ELSE {TxOf[c]} \X Suffixes
Channel(c) == [name |-> uuid[c], call |-> c]

(* WaitForTxEvent subscribes to the event of the transaction.  A name that *)
(* is taken is an error; over HTTP the channel replaces the one of the     *)
(* same query.  It fails as well when the connection is down or the time   *)
(* is up.                                                                  *)
Subscribe(c) ==
  /\ pc[c] = "subscribe"
  /\ \/ \E u \in Names(c) :
          /\ remote \/ \A s \in subs : s.name # u
          /\ subs' = {s \in subs : s.name # u \/ TxOf[s.call] # TxOf[c]}
                       \cup {[name |-> u, call |-> c]}
          /\ uuid' = [uuid EXCEPT ![c] = u]
          /\ Goto(c, "wait") /\ UNCHANGED report
     \/ Return(c, "error") /\ Goto(c, "done") /\ UNCHANGED <<subs, uuid>>
  /\ UNCHANGED <<remote, channel, inbox, pool, result>>

Hear(c) ==
  /\ pc[c] = "wait" /\ inbox[c] # "none"
  /\ Return(c, inbox[c]) /\ Goto(c, "unsubscribe")
  /\ UNCHANGED <<channel, waiting, node>>

(* Mutant: the wait for the event has no end. *)
NoTimeOut(c) == FALSE /\ UNCHANGED vars

TimeOut(c) ==
  /\ pc[c] = "wait"
  /\ Return(c, "timeout") /\ Goto(c, "unsubscribe")
  /\ UNCHANGED <<channel, waiting, node>>

(* Mutant: the name is the hash alone, without the random bytes. *)
UnsubscribeByHash(c) ==
  /\ pc[c] = "unsubscribe" /\ Goto(c, "done")
  /\ subs' = {s \in subs : TxOf[s.call] # TxOf[c]}
  /\ UNCHANGED <<report, channel, waiting, pool, result>>

(* The deferred UnsubscribeAll ends every subscription of the name, over   *)
(* HTTP those of all calls.  It runs in the context of the wait and its    *)
(* error is dropped: the time may be up or the connection down.            *)
Unsubscribe(c) ==
  /\ pc[c] = "unsubscribe" /\ Goto(c, "done")
  /\ subs' = {s \in subs : s.name # uuid[c]} \/ UNCHANGED subs
  /\ UNCHANGED <<report, channel, waiting, pool, result>>

-----------------------------------------------------------------------------
(* A transaction gets into a block, and its event to the subscribers. *)
Deliver(t, r) ==
  /\ t \in pool /\ pool' = pool \ {t}
  /\ result' = [result EXCEPT ![t] = r]
  /\ inbox' = [c \in Calls |->
       IF pc[c] = "wait" /\ TxOf[c] = t /\ Channel(c) \in subs THEN r ELSE inbox[c]]
  /\ UNCHANGED <<remote, pc, report, channel, uuid, subs>>

(* The node forgets a transaction it had accepted. *)
Evict(t) ==
  /\ t \in pool /\ pool' = pool \ {t}
  /\ UNCHANGED <<pc, report, channel, waiting, subs, result>>

Next ==
  \/ \E c \in Calls : Call(c)
  \/ \E c \in CommitCalls : Marshal(c) \/ PostCommit(c) \/ NodeAnswers(c) \/ Receive(c)
  \/ \E c \in SyncCalls : Submit(c) \/ Subscribe(c) \/ Hear(c) \/ TimeOut(c) \/ Unsubscribe(c)
  \/ \E t \in Txs : Evict(t) \/ \E r \in {"ok", "deliverErr"} : Deliver(t, r)

Spec == Init /\ [][Next]_vars

(* Goroutines run, timers fire, and the node answers a request in the end. *)
Fairness ==
  /\ \A c \in CommitCalls :
       WF_vars(Marshal(c)) /\ WF_vars(PostCommit(c)) /\ WF_vars(NodeAnswers(c)) /\ WF_vars(Receive(c))
  /\ \A c \in SyncCalls :
       WF_vars(Submit(c)) /\ WF_vars(Subscribe(c)) /\ WF_vars(TimeOut(c)) /\ WF_vars(Unsubscribe(c))
FairSpec == Spec /\ Fairness
-----------------------------------------------------------------------------
(* IsError: a call reports success, or a failure in the block, only of a   *)
(* transaction that is in a block with that result, whoever else sent it.  *)
ReportsTruth ==
  \A c \in Calls : report[c] \in {"ok", "deliverErr"} => result[TxOf[c]] = report[c]

(* The goroutine of BroadcastTx never writes to the channel its caller has *)
(* closed, and leaves nothing in it: it gives one answer.                  *)
OneAnswer ==
  \A c \in CommitCalls :
    /\ out[c] # "panic"
    /\ pc[c] = "done" => worker[c] = "end"

(* Every call returns, whatever becomes of the transaction. *)
EveryCallReturns == \A c \in Calls : pc[c] # "idle" ~> pc[c] = "done"

(* The random bytes of WaitForTxEvent: on a node of its own, a call that   *)
(* waits when its transaction gets its result is sent that result, however *)
(* many calls subscribed, gave up and unsubscribed before.                 *)
EventReachesWaiter ==
  [][\A c \in SyncCalls :
       /\ ~remote /\ pc[c] = "wait"
       /\ result[TxOf[c]] = "none" /\ result'[TxOf[c]] # "none"
       => inbox'[c] = result'[TxOf[c]]]_vars
=============================================================================
