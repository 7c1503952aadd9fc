------------------------------ MODULE Proposals ------------------------------
(***************************************************************************)
(* Governance: how a transaction becomes a proposal on the command line    *)
(* (cmd/grafaincli/cmd_gov.go, cmd_batch.go), which tables it passes       *)
(* through there and on the chain (pkg/app: gov_handler.go, crontask.go,   *)
(* msg.go, CronStack), and when it takes effect.  Elections and the queue  *)
(* of scheduled tasks belong to the framework.                             *)
(*                                                                         *)
(* A message is its kind and the account that must authorize it.  Every    *)
(* table below decides by kind alone.                                      *)
(***************************************************************************)
EXTENDS Naturals, Sequences, FiniteSets

CONSTANTS
  Ids,       \* proposals
  Accounts,  \* who a message may need the authority of
  Rules,     \* election rules, accounts too
  Electors,
  Payloads,  \* transactions given to as-proposal
  Timers,    \* messages other parts of the system schedule
  MaxTime    \* bound: block times

Kinds ==
  {"cash/send", "escrow/release", "escrow/updateParties", "multisig/update",
   "validators/applyDiff", "currency/create", "distribution/create",
   "distribution/distribute", "distribution/reset", "migration/upgradeSchema",
   "gov/updateElectorate", "gov/updateElectionRule", "gov/createTextResolution",
   "escrow/return", "aswap/release", "gov/tally"}

Transaction == [batch : BOOLEAN, msgs : Seq([kind : Kinds, owner : Accounts])]

ASSUME ProposalsAssumption ==
  /\ MaxTime \in Nat /\ IsFiniteSet(Electors) /\ Rules # {} /\ Rules \subseteq Accounts
  /\ Payloads \subseteq Transaction /\ \A t \in Payloads : t.batch \/ Len(t.msgs) = 1
  /\ Timers \subseteq Kinds

VARIABLES
  now,       \* block time
  payload,   \* history, per proposal: what was given to as-proposal
  option,    \* per proposal: RawOption, as the chain decodes it
  rule,      \* per proposal: ElectionRuleID
  start,     \* per proposal: StartTime
  status,    \* per proposal: "none", "submitted", "withdrawn", "accepted", "rejected"
  yes,       \* per proposal: electors that voted for it
  tasks,     \* the queue: [at, kind, id]
  effects,   \* per proposal: messages its execution has put into effect
  blamed,    \* history: proposals a message of which was refused by its handler
  unrouted   \* history: kinds of tasks that found no handler

vars == <<now, payload, option, rule, start, status, yes, tasks, effects, blamed, unrouted>>

(* toOption: what a proposal can carry, alone or in a batch. *)
OptionKinds == Kinds \ {"escrow/return", "aswap/release", "gov/tally"}

(* Mutant: one case of the inner switch is forgotten. *)
BatchKindsWithoutReset ==
  OptionKinds \ {"currency/create", "migration/upgradeSchema", "distribution/reset"}

BatchKinds == OptionKinds \ {"currency/create", "migration/upgradeSchema"}
Carries(m) == m.kind \in BatchKinds

MsgList(o) == o.msgs

(* The loop over a batch: what the inner switch does not name is lost. *)
Kept(msgs) ==
  LET f[n \in 0 .. Len(msgs)] ==
        IF n = 0 THEN << >>
        ELSE IF Carries(msgs[n]) THEN Append(f[n - 1], msgs[n]) ELSE f[n - 1]
  IN f[Len(msgs)]

HasOption(tx) == tx.batch \/ tx.msgs[1].kind \in OptionKinds
toOption(tx) == IF tx.batch THEN [tx EXCEPT !.msgs = Kept(MsgList(tx))] ELSE tx

(* The routes of proposalOptionsExecutor and of CronStack. *)
Executable == OptionKinds \ {"multisig/update", "currency/create"}

(* Mutant: the swaps are left out. *)
CronRoutesWithoutSwaps ==
  {"gov/tally", "distribution/create", "distribution/distribute", "distribution/reset",
   "escrow/release", "escrow/return", "escrow/updateParties"}

(* Mutant: the tally is registered for transactions only. *)
CronRoutesWithoutTally ==
  {"distribution/create", "distribution/distribute", "distribution/reset",
   "escrow/release", "escrow/return", "escrow/updateParties", "aswap/release"}

CronRoutes ==
  {"gov/tally", "distribution/create", "distribution/distribute", "distribution/reset",
   "escrow/release", "escrow/return", "escrow/updateParties", "aswap/release"}

(* What MarshalTask can write, hence what can be scheduled. *)
CronTask ==
  {"escrow/release", "escrow/return", "distribution/distribute", "aswap/release", "gov/tally"}

(* Mutant: any authority is as good as the election's. *)
AuthorizedByAnyone(m, r) == TRUE

(* gov.Authenticate: the election rule of the proposal, nobody else. *)
Authorized(m, r) == m.owner = r

Init ==
  /\ now = 0
  /\ payload = [p \in Ids |-> << >>] /\ option = payload
  /\ rule = [p \in Ids |-> CHOOSE r \in Rules : TRUE]
  /\ start = [p \in Ids |-> 0]
  /\ status = [p \in Ids |-> "none"]
  /\ yes = [p \in Ids |-> {}]
  /\ tasks = {}
  /\ effects = [p \in Ids |-> << >>]
  /\ blamed = {} /\ unrouted = {}

Tally(p, t) == [at |-> t, kind |-> "gov/tally", id |-> p]

(* as-proposal, and CreateProposalMsg on the chain: the vote starts at s   *)
(* and takes one period, after which the tally is due.                     *)
Propose(p, tx, r, s) ==
  /\ status[p] = "none" /\ HasOption(tx)
  /\ now < s /\ s < MaxTime /\ "gov/tally" \in CronTask
  /\ payload' = [payload EXCEPT ![p] = tx]
  /\ option' = [option EXCEPT ![p] = toOption(tx)]
  /\ rule' = [rule EXCEPT ![p] = r]
  /\ start' = [start EXCEPT ![p] = s]
  /\ status' = [status EXCEPT ![p] = "submitted"]
  /\ tasks' = tasks \cup {Tally(p, s + 1)}
  /\ UNCHANGED <<now, yes, effects, blamed, unrouted>>

(* DeleteProposalMsg, before the vote; the tally is taken off the queue. *)
Withdraw(p) ==
  /\ status[p] = "submitted" /\ now < start[p]
  /\ status' = [status EXCEPT ![p] = "withdrawn"]
  /\ tasks' = tasks \ {Tally(p, start[p] + 1)}
  /\ UNCHANGED <<now, payload, option, rule, start, yes, effects, blamed, unrouted>>

(* VoteMsg; a later vote replaces an earlier one. *)
Vote(p, e, selected) ==
  /\ status[p] = "submitted" /\ now = start[p]
  /\ yes' = [yes EXCEPT ![p] = IF selected = "yes" THEN @ \cup {e} ELSE @ \ {e}]
  /\ UNCHANGED <<now, payload, option, rule, start, status, tasks, effects, blamed, unrouted>>

(* An escrow, a swap or a distribution puts a message into the queue. *)
Schedule(k, t) ==
  /\ k \in CronTask \ {"gov/tally"} /\ now < t /\ t <= MaxTime
  /\ [at |-> t, kind |-> k, id |-> "timer"] \notin tasks
  /\ tasks' = tasks \cup {[at |-> t, kind |-> k, id |-> "timer"]}
  /\ UNCHANGED <<now, payload, option, rule, start, status, yes, effects, blamed, unrouted>>

Wins(p) == 2 * Cardinality(yes[p]) > Cardinality(Electors)

(* The executor: every message finds a route, its authority and a handler  *)
(* that does not refuse it, or nothing happens.                            *)
Succeeds(p, refusing) ==
  /\ p \notin refusing
  /\ \A i \in DOMAIN option[p].msgs :
       option[p].msgs[i].kind \in Executable /\ Authorized(option[p].msgs[i], rule[p])

(* A block of time b, any time after the last, since none is made without  *)
(* a transaction: the tasks that are due go through CronStack.  refusing   *)
(* are the proposals one of whose messages its handler refuses.            *)
Block(b, refusing) ==
  LET due == {t \in tasks : t.at <= b}
      tallied == {p \in Ids : \E t \in due : t.kind = "gov/tally" /\ t.kind \in CronRoutes /\ t.id = p}
  IN /\ now < b /\ b <= MaxTime /\ now' = b
     /\ refusing \subseteq tallied
     /\ tasks' = tasks \ due
     /\ status' = [p \in Ids |->
          IF p \in tallied THEN IF Wins(p) THEN "accepted" ELSE "rejected" ELSE status[p]]
     /\ effects' = [p \in Ids |->
          IF p \in tallied /\ Wins(p) /\ Succeeds(p, refusing) THEN MsgList(option[p]) ELSE effects[p]]
     /\ blamed' = blamed \cup refusing
     /\ unrouted' = unrouted \cup ({t.kind : t \in due} \ CronRoutes)
     /\ UNCHANGED <<payload, option, rule, start, yes>>

Next ==
  \/ \E p \in Ids :
       \/ \E tx \in Payloads, r \in Rules, s \in 1 .. MaxTime : Propose(p, tx, r, s)
       \/ Withdraw(p)
       \/ \E e \in Electors, o \in {"yes", "no"} : Vote(p, e, o)
  \/ \E k \in Timers, t \in 1 .. MaxTime : Schedule(k, t)
  \/ \E b \in 1 .. MaxTime, refusing \in SUBSET Ids : Block(b, refusing)

Spec == Init /\ [][Next]_vars
-----------------------------------------------------------------------------
Subsequence(s, t) ==
  \E I \in SUBSET DOMAIN t : s = [k \in 1 .. Cardinality(I) |->
    t[CHOOSE i \in I : Cardinality({j \in I : j <= i}) = k]]

(* A proposal has effects only if a majority voted for it and it was not   *)
(* withdrawn; they are messages of the transaction that was proposed, in   *)
(* its order, under the authority of the rule it was voted under.          *)
EffectsAreVoted ==
  \A p \in Ids : effects[p] # << >> =>
    /\ status[p] = "accepted" /\ Wins(p)
    /\ Subsequence(effects[p], payload[p].msgs)
    /\ \A i \in DOMAIN effects[p] : effects[p][i].owner = rule[p]

(* The kinds that the tables of as-proposal, of its batches and of the     *)
(* executor all have to agree on (ExecuteProposalBatchMsg in codec.proto,  *)
(* but for multisig updates, which the executor has no route for).         *)
Agreed ==
  {"cash/send", "escrow/release", "escrow/updateParties", "validators/applyDiff",
   "distribution/create", "distribution/distribute", "distribution/reset",
   "gov/updateElectorate", "gov/updateElectionRule", "gov/createTextResolution"}

(* A proposal that won takes effect whole and in its order, unless one of  *)
(* its handlers refused it or it asks for what the rule has no authority   *)
(* over: no table on the way from as-proposal to the executor loses a      *)
(* message (cmd_gov.go:86-219, gov_handler.go:36-41, RegisterRoutes).      *)
WonTakesEffect ==
  \A p \in Ids :
    LET sent == payload[p].msgs IN
    /\ status[p] = "accepted" /\ p \notin blamed
    /\ \A i \in DOMAIN sent : sent[i].kind \in Agreed /\ sent[i].owner = rule[p]
    => effects[p] = sent

(* Whatever MarshalTask lets into the queue finds a handler when it is due. *)
TasksFindHandlers == unrouted = {}

(* No proposal is open after a block past its voting period: that block    *)
(* has run the tally, unless the author withdrew the proposal, whatever    *)
(* else was due and however many blocks were left out before it.           *)
ClosedOnTime == \A p \in Ids : status[p] = "submitted" => now <= start[p]
=============================================================================
