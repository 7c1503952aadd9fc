------------------------- MODULE TxBroadcast_proofs -------------------------
(***************************************************************************)
(* What the client reports of its transactions is true, for any number of  *)
(* concurrent calls and of transactions; the two ends of a channel meet    *)
(* once; and on a node of its own a waiting call gets the event.           *)
(*                                                                         *)
(* The argument: a transaction gets its result once, since the node takes  *)
(* none that has one, and each place an answer passes through on its way   *)
(* to the caller holds that result (Truth).  The goroutine of BroadcastTx  *)
(* and its caller meet once (Handshake).  On a node of its own each        *)
(* subscription has its name to itself, and a call that waits has one, so  *)
(* that the end of another's does not touch it (Owned).                    *)
(***************************************************************************)
EXTENDS TxBroadcast, TLAPS

Waiting == {"wait", "unsubscribe"}
Executed == {"ok", "deliverErr"}

TypeOK ==
  /\ remote \in BOOLEAN
  /\ pc \in [Calls -> {"idle", "receive", "submit", "subscribe", "wait", "unsubscribe", "done"}]
  /\ report \in [Calls -> Answers \cup {"none"}]
  /\ worker \in [CommitCalls -> {"none", "marshal", "post", "pending", "end"}]
  /\ out \in [CommitCalls -> Answers \cup {"none", "open", "closed"}]
  /\ uuid \in [Calls -> {<< >>} \cup (Txs \X Suffixes)]
  /\ inbox \in [Calls -> Executed \cup {"none"}]
  /\ subs \subseteq [name : {<< >>} \cup (Txs \X Suffixes), call : SyncCalls]
  /\ pool \subseteq Txs
  /\ result \in [Txs -> Executed \cup {"none"}]

(* The goroutine sends while its caller receives, and has ended before the *)
(* caller closes the channel.                                              *)
Handshake ==
  \A c \in CommitCalls :
    \/ pc[c] = "idle" /\ worker[c] = "none" /\ out[c] = "none"
    \/ pc[c] = "receive" /\ worker[c] \in {"marshal", "post", "pending"} /\ out[c] = "open"
    \/ pc[c] = "receive" /\ worker[c] = "end" /\ out[c] \in Answers
    \/ pc[c] = "done" /\ worker[c] = "end" /\ out[c] = "closed"

(* A result is final; events and answers carry it.                         *)
Truth ==
  /\ \A t \in pool : result[t] = "none"
  /\ \A c \in Calls : inbox[c] \in Executed => result[TxOf[c]] = inbox[c]
  /\ \A c \in CommitCalls : out[c] \in Executed => result[TxOf[c]] = out[c]
  /\ ReportsTruth

(* On a node of its own no two subscriptions have one name, and a call     *)
(* that waits has its own.                                                 *)
Owned ==
  ~remote =>
    /\ \A s, t \in subs : s.name = t.name => s = t
    /\ \A c \in SyncCalls : pc[c] \in Waiting => Channel(c) \in subs

IInv == TypeOK /\ Handshake /\ Truth /\ Owned

-----------------------------------------------------------------------------
LEMMA CallTypes ==
  /\ \A c \in Calls : TxOf[c] \in Txs
  /\ SyncCalls \subseteq Calls /\ CommitCalls \subseteq Calls
  /\ \A c \in SyncCalls : c \notin CommitCalls
BY TxBroadcastAssumption DEF Calls, Txs

LEMMA InitIInv == Init => IInv
<1> SUFFICES ASSUME Init PROVE IInv
  OBVIOUS
<1>1. TypeOK
  BY DEF Init, TypeOK
<1>2. Handshake
  BY CallTypes DEF Init, Handshake
<1>3. Truth
  BY CallTypes DEF Init, Truth, ReportsTruth, Executed
<1>4. Owned
  BY CallTypes DEF Init, Owned, Waiting
<1>. QED  BY <1>1, <1>2, <1>3, <1>4 DEF IInv

(* The steps, spelled out. *)
LEMMA NextTypeOK == TypeOK /\ Handshake /\ [Next]_vars => TypeOK'
<1> SUFFICES ASSUME TypeOK, Handshake, [Next]_vars PROVE TypeOK'
  OBVIOUS
<1> USE CallTypes DEF TypeOK, Goto, Return, WorkerTo, node, channel, waiting, Answers, Executed
<1>1. ASSUME NEW c \in Calls, Call(c) PROVE TypeOK'
  BY <1>1 DEF Call
<1>2. ASSUME NEW c \in CommitCalls, Marshal(c) PROVE TypeOK'
  BY <1>2 DEF Marshal, Put, Handshake
<1>3. ASSUME NEW c \in CommitCalls, PostCommit(c) PROVE TypeOK'
  BY <1>3 DEF PostCommit, Put, Handshake, Accepted
<1>4. ASSUME NEW c \in CommitCalls, NodeAnswers(c) PROVE TypeOK'
  BY <1>4 DEF NodeAnswers, Put, Handshake
<1>5. ASSUME NEW c \in CommitCalls, Receive(c) PROVE TypeOK'
  BY <1>5 DEF Receive
<1>6. ASSUME NEW c \in SyncCalls, Submit(c) PROVE TypeOK'
  BY <1>6 DEF Submit, Accepted
<1>7. ASSUME NEW c \in SyncCalls, Subscribe(c) PROVE TypeOK'
  BY <1>7 DEF Subscribe, Names
<1>8. ASSUME NEW c \in SyncCalls, Hear(c) \/ TimeOut(c) \/ Unsubscribe(c) PROVE TypeOK'
  BY <1>8 DEF Hear, TimeOut, Unsubscribe
<1>9. ASSUME NEW t \in Txs, Evict(t) PROVE TypeOK'
  BY <1>9 DEF Evict
<1>10. ASSUME NEW t \in Txs, NEW r \in {"ok", "deliverErr"}, Deliver(t, r) PROVE TypeOK'
  BY <1>10 DEF Deliver
<1>11. CASE UNCHANGED vars
  BY <1>11 DEF vars
<1>. QED
  BY <1>1, <1>2, <1>3, <1>4, <1>5, <1>6, <1>7, <1>8, <1>9, <1>10, <1>11 DEF Next

LEMMA NextHandshake == TypeOK /\ Handshake /\ [Next]_vars => Handshake'
<1> SUFFICES ASSUME TypeOK, Handshake, [Next]_vars PROVE Handshake'
  OBVIOUS
<1> USE CallTypes DEF TypeOK, Handshake, Goto, Return, WorkerTo, node, channel, waiting, Answers,
                      Executed
<1>1. ASSUME NEW c \in Calls, Call(c) PROVE Handshake'
  BY <1>1 DEF Call
<1>2. ASSUME NEW c \in CommitCalls, Marshal(c) PROVE Handshake'
  BY <1>2 DEF Marshal, Put
<1>3. ASSUME NEW c \in CommitCalls, PostCommit(c) PROVE Handshake'
  BY <1>3 DEF PostCommit, Put
<1>4. ASSUME NEW c \in CommitCalls, NodeAnswers(c) PROVE Handshake'
  BY <1>4 DEF NodeAnswers, Put
<1>5. ASSUME NEW c \in CommitCalls, Receive(c) PROVE Handshake'
  BY <1>5 DEF Receive
<1>6. ASSUME NEW c \in SyncCalls,
             Submit(c) \/ Subscribe(c) \/ Hear(c) \/ TimeOut(c) \/ Unsubscribe(c)
      PROVE  Handshake'
  BY <1>6 DEF Submit, Subscribe, Hear, TimeOut, Unsubscribe
<1>7. ASSUME NEW t \in Txs, Evict(t) \/ \E r \in {"ok", "deliverErr"} : Deliver(t, r)
      PROVE  Handshake'
  BY <1>7 DEF Evict, Deliver
<1>8. CASE UNCHANGED vars
  BY <1>8 DEF vars
<1>. QED
  BY <1>1, <1>2, <1>3, <1>4, <1>5, <1>6, <1>7, <1>8 DEF Next

LEMMA NextTruth == TypeOK /\ Handshake /\ Truth /\ [Next]_vars => Truth'
<1> SUFFICES ASSUME TypeOK, Handshake, Truth, [Next]_vars PROVE Truth'
  OBVIOUS
<1> USE CallTypes DEF TypeOK, Truth, ReportsTruth, Goto, Return, WorkerTo, node, channel, waiting,
                      Answers, Executed
<1>1. ASSUME NEW c \in Calls, Call(c) PROVE Truth'
  BY <1>1 DEF Call
<1>2. ASSUME NEW c \in CommitCalls, Marshal(c) PROVE Truth'
  BY <1>2 DEF Marshal, Put, Handshake
<1>3. ASSUME NEW c \in CommitCalls, PostCommit(c) PROVE Truth'
  BY <1>3 DEF PostCommit, Put, Handshake, Accepted, Known
<1>4. ASSUME NEW c \in CommitCalls, NodeAnswers(c) PROVE Truth'
  BY <1>4 DEF NodeAnswers, Put, Handshake
<1>5. ASSUME NEW c \in CommitCalls, Receive(c) PROVE Truth'
  BY <1>5 DEF Receive
<1>6. ASSUME NEW c \in SyncCalls, Submit(c) PROVE Truth'
  BY <1>6 DEF Submit, Accepted, Known
<1>7. ASSUME NEW c \in SyncCalls, Subscribe(c) \/ TimeOut(c) \/ Unsubscribe(c) PROVE Truth'
  BY <1>7 DEF Subscribe, TimeOut, Unsubscribe
<1>8. ASSUME NEW c \in SyncCalls, Hear(c) PROVE Truth'
  BY <1>8 DEF Hear
<1>9. ASSUME NEW t \in Txs, Evict(t) PROVE Truth'
  BY <1>9 DEF Evict
<1>10. ASSUME NEW t \in Txs, NEW r \in {"ok", "deliverErr"}, Deliver(t, r) PROVE Truth'
  BY <1>10 DEF Deliver
<1>11. CASE UNCHANGED vars
  BY <1>11 DEF vars
<1>. QED
  BY <1>1, <1>2, <1>3, <1>4, <1>5, <1>6, <1>7, <1>8, <1>9, <1>10, <1>11 DEF Next

LEMMA NextOwned == TypeOK /\ Owned /\ [Next]_vars => Owned'
<1> SUFFICES ASSUME TypeOK, Owned, [Next]_vars PROVE Owned'
  OBVIOUS
<1> USE CallTypes DEF TypeOK, Owned, Waiting, Channel, Goto, Return, WorkerTo, node, channel, waiting,
                      Answers
<1>1. ASSUME NEW c \in Calls, Call(c) PROVE Owned'
  BY <1>1 DEF Call
<1>2. ASSUME NEW c \in CommitCalls, Marshal(c) \/ PostCommit(c) \/ NodeAnswers(c) \/ Receive(c)
      PROVE  Owned'
  BY <1>2 DEF Marshal, PostCommit, NodeAnswers, Receive
<1>3. ASSUME NEW c \in SyncCalls, Submit(c) PROVE Owned'
  BY <1>3 DEF Submit
<1>4. ASSUME NEW c \in SyncCalls, Subscribe(c) PROVE Owned'
  <2> SUFFICES ASSUME ~remote PROVE Owned'
    BY <1>4 DEF Subscribe
  <2>1. CASE UNCHANGED subs /\ pc' = [pc EXCEPT ![c] = "done"] /\ UNCHANGED <<remote, uuid>>
    BY <2>1
  <2>2. ASSUME NEW u,
               \A s \in subs : s.name # u,
               subs' = {s \in subs : s.name # u \/ TxOf[s.call] # TxOf[c]}
                         \cup {[name |-> u, call |-> c]},
               uuid' = [uuid EXCEPT ![c] = u], pc' = [pc EXCEPT ![c] = "wait"],
               pc[c] = "subscribe", UNCHANGED remote
        PROVE  Owned'
    <3>1. subs' = subs \cup {[name |-> u, call |-> c]}
      BY <2>2
    <3>2. \A s, t \in subs' : s.name = t.name => s = t
      BY <2>2, <3>1
    <3>3. \A d \in SyncCalls : pc'[d] \in Waiting => Channel(d)' \in subs'
      BY <2>2, <3>1
    <3>. QED  BY <3>2, <3>3
  <2>. QED  BY <1>4, <2>1, <2>2 DEF Subscribe
<1>5. ASSUME NEW c \in SyncCalls, Hear(c) \/ TimeOut(c) PROVE Owned'
  BY <1>5 DEF Hear, TimeOut
<1>6. ASSUME NEW c \in SyncCalls, Unsubscribe(c) PROVE Owned'
  <2>1. UNCHANGED <<remote, uuid>> /\ pc' = [pc EXCEPT ![c] = "done"] /\ pc[c] = "unsubscribe"
    BY <1>6 DEF Unsubscribe
  <2>2. CASE UNCHANGED subs
    BY <2>1, <2>2
  <2>3. CASE subs' = {s \in subs : s.name # uuid[c]}
    <3> SUFFICES ASSUME ~remote PROVE Owned'
      BY <2>1
    <3>1. ASSUME NEW d \in SyncCalls, pc'[d] \in Waiting PROVE Channel(d)' \in subs'
      <4>1. d # c /\ pc[d] \in Waiting /\ Channel(d) \in subs /\ Channel(c) \in subs
        BY <2>1, <3>1
      <4>2. uuid[d] # uuid[c]
        BY <4>1
      <4>. QED  BY <2>1, <2>3, <4>1, <4>2
    <3>. QED  BY <2>3, <3>1
  <2>. QED  BY <1>6, <2>2, <2>3 DEF Unsubscribe
<1>7. ASSUME NEW t \in Txs, Evict(t) \/ \E r \in {"ok", "deliverErr"} : Deliver(t, r)
      PROVE  Owned'
  BY <1>7 DEF Evict, Deliver
<1>8. CASE UNCHANGED vars
  BY <1>8 DEF vars
<1>. QED
  BY <1>1, <1>2, <1>3, <1>4, <1>5, <1>6, <1>7, <1>8 DEF Next

LEMMA Invariance == Spec => []IInv
<1>1. IInv /\ [Next]_vars => IInv'
  BY NextTypeOK, NextHandshake, NextTruth, NextOwned DEF IInv
<1>. QED  BY <1>1, InitIInv, PTL DEF Spec

-----------------------------------------------------------------------------
(* IsError: a call reports success or a failure in the block only of a     *)
(* transaction that is in a block with that result, whoever else sent it   *)
(* and however many calls there are.                                       *)
THEOREM BroadcastReportsTruth == Spec => []ReportsTruth
<1>1. IInv => ReportsTruth
  BY DEF IInv, Truth
<1>. QED  BY <1>1, Invariance, PTL

(* BroadcastTxAsync never sends on a closed channel, and has ended when    *)
(* BroadcastTx returns.                                                    *)
THEOREM BroadcastOneAnswer == Spec => []OneAnswer
<1>1. IInv => OneAnswer
  BY DEF IInv, Handshake, OneAnswer, Answers
<1>. QED  BY <1>1, Invariance, PTL

(* On a node of its own, a call of WaitForTxEvent that waits when its      *)
(* transaction gets its result is sent that result, whatever subscriptions *)
(* other calls ended or left behind.                                       *)
THEOREM BroadcastEventReachesWaiter == Spec => EventReachesWaiter
<1> DEFINE Step == \A c \in SyncCalls :
                     /\ ~remote /\ pc[c] = "wait"
                     /\ result[TxOf[c]] = "none" /\ result'[TxOf[c]] # "none"
                     => inbox'[c] = result'[TxOf[c]]
<1>1. IInv /\ [Next]_vars => [Step]_vars
  <2> SUFFICES ASSUME IInv, Next,
                      NEW c \in SyncCalls, ~remote, pc[c] = "wait",
                      result[TxOf[c]] = "none", result'[TxOf[c]] # "none"
               PROVE  inbox'[c] = result'[TxOf[c]]
    OBVIOUS
  <2>1. PICK t \in Txs, r \in {"ok", "deliverErr"} : Deliver(t, r)
    BY DEF Next, Call, Marshal, PostCommit, NodeAnswers, Receive, Submit, Subscribe, Hear, TimeOut,
           Unsubscribe, Evict, node
  <2>2. t = TxOf[c] /\ result'[t] = r
    BY <2>1, CallTypes DEF Deliver, IInv, TypeOK
  <2>3. Channel(c) \in subs
    BY DEF IInv, Owned, Waiting
  <2>. QED  BY <2>1, <2>2, <2>3, CallTypes DEF Deliver
<1>. QED  BY <1>1, Invariance, PTL DEF Spec, EventReachesWaiter

(* Type correctness of the calls, the node and what is between them.       *)
THEOREM BroadcastTypeCorrect == Spec => []TypeOK
<1>1. IInv => TypeOK
  BY DEF IInv
<1>. QED  BY <1>1, Invariance, PTL
=============================================================================
