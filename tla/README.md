# A verification project for grafain

grafain keeps a registry of container images ("artifacts") on a blockchain and
lets a Kubernetes cluster ask it, before a pod is created, whether the images
of the pod are known. It is a [weave](https://github.com/iov-one/weave)
application on Tendermint: signed transactions create and delete artifacts,
role based access control decides who may, and an admission webhook queries
the result.

This directory holds TLA+ modules that model the program, TLC configurations
that check them on small instances, and TLAPS proofs of what matters most for
every instance. `PROJECT.json` is the machine-readable index: which definition
models which lines, which run checks which property, which hazard each
property is for.

## 1. The system

| Part | Source | State | Operations |
| --- | --- | --- | --- |
| Decorator chain, router, node wiring | `pkg/app/app.go`, `init.go`, `tx.go`, `msg.go` | none of its own: every decorator works on the store of the call | `CheckTx`, `DeliverTx` through `Chain` and `Router`; `InitChain` through `DecorateApp`; `Commit` through the store app |
| Role based access control | `pkg/rbac` | roles (id -> owner, permissions, ids of other roles), principals (unique signature index), role bindings (signature, role id) | `AuthNDecorator`, `AuthZDecorator`, `withRBAC`, `Authenticate`, `Authorize`; the buckets are written by genesis only |
| Genesis loading | `pkg/rbac/init.go`, `pkg/artifact/init.go` | position in the file | the `FromGenesis` of each initializer, in the order of `DecorateApp` |
| Artifacts | `pkg/artifact` | artifacts by image name: checksum, owner | create and delete handlers, queries by image and by owner |
| Governance and cron | `pkg/app/gov_handler.go`, `crontask.go`, `CronStack` in `app.go` | proposals and tasks live in weave | decode and execute the options of a proposal; encode and run cron tasks |
| Client | `pkg/client` | cached nonce; subscriptions | `Nonce.Query`, `Nonce.Next`; `BroadcastTx`, `BroadcastTxSync`, `BroadcastTxAsync`, `WaitForTxEvent`; queries |
| Admission webhook | `pkg/webhook` | none | `Handle`: one query per container |
| Daemon | `cmd/grafaind` | two goroutines, one error channel | `start`, `retry`, `getblock` |
| Command line tool | `cmd/grafaincli` | none but the pipe: each command reads a transaction from stdin and writes one to stdout | build, wrap (`as-batch`, `as-proposal`, `with-fee`, `with-multisig`), `sign`, `submit`, `query` |
| Codecs | `codec.proto`, `codec.pb.go` of `pkg/app`, `pkg/rbac`, `pkg/artifact` | none | `Size`, `MarshalTo`, `Unmarshal` of each message, `skipCodec` |
| Cluster set-up | `contrib/k8s` | the stateful set of the daemon, the hook configuration | `seed-cluster.sh` applies them in an order that matters |
| Dashboard | `cmd/grafainboard` | none | read-only web page |

How they interact. A user builds a transaction with the command line tool,
signs it for the sequence number the chain reports, and submits it. Every node
checks it against its check store (`CheckTx`) and, if it passes, gossips it.
Consensus puts transactions into blocks; every node executes a block on its
deliver store and commits it. A transaction passes the decorators in the order
of `Chain`: signatures (which advance the sequence of each signer), multisig
contracts, the roles bound to the conditions so far, the permission for the
message path; then the fee decorators, whose savepoint undoes a failing
handler but not the decorators above it. The handlers ask the same
authenticators who is signing. The webhook sees what the node it asks has
committed; it runs in the same process as that node, in a pod of the cluster
whose pods it judges. Every transaction, option, task, role and artifact is
written and read by the generated codecs.

What is hard here:

* *Interleaving.* `CheckTx` of many transactions falls between the calls of
  block execution and works on another copy of the store; two callers share a
  `Nonce`; confirmation events race subscriptions and timeouts.
* *Crash and recovery.* What `DeliverTx` did since the last commit is lost and
  done again after a restart; nodes must still agree byte for byte.
* *Partial failure.* A transaction can fail after its signatures were used up;
  a failed genesis entry stops the load in the middle.
* *Stale state.* Contracts, roles and owners are looked up at different moments
  of one transaction, and change between signing and delivery.
* *Recursion over data.* Roles name roles; loading must end, find them all and
  no others. Messages embed messages, and groups nest in what is skipped.
* *A circle of dependencies.* The cluster cannot create a pod without the hook,
  the hook is in a pod, and a daemon ends with the first of its halves.
* *Numbers at their limits.* What is typed passes two or three integer types of
  different width before it is in a message.

What makes each part correct:

* *rbac*: a transaction has exactly the roles its signers are bound to,
  directly or through other roles; it passes exactly if one of them permits the
  path; the walk ends on every store.
* *genesis*: what it leaves in the store has no cycle and no dangling
  reference; a well-formed file loads, any other is refused; nothing listed is
  dropped.
* *transactions*: no signature counts twice; nothing but sequences changes
  without the permission and the consent of owner or admins; a failing
  transaction leaves only its sequences behind.
* *nodes*: equal heights, equal stores, whatever crashes and checks happen;
  the mempool's view stays usable; decided blocks get committed.
* *client*: nonces are not handed out twice; a success that is reported
  happened; a wait ends.
* *webhook*: a pod is admitted only if each image was registered when asked.
* *daemon and cluster*: the seeding ends with a daemon that answers; a pod with
  registered images gets in, whatever part of the daemon failed before.
* *command line*: what was typed arrives, at the next command and on the chain,
  or somebody is told.
* *codecs*: what was written is read back, of any part, in any order, at any
  length; data that was cut is noticed where it can be.

## 2. Modules

| Module | Models | Kind |
| --- | --- | --- |
| `Permissions` | the permission language: `Allows`, `HasPermission`, `resolvePermission` | operators |
| `RoleGraph` | which roles a set of roles brings along, as a least closed set | operators, no algorithm: the reference the walk is compared with |
| `RbacStore` | roles and bindings as the buckets of `pkg/rbac` hold them | shared state and constants |
| `RbacAuth` | one transaction's pass through `AuthNDecorator` and `AuthZDecorator`, call by call | state machine |
| `Genesis` | the rbac and artifact initializers, entry by entry | state machine |
| `Access` | `Genesis` and `RbacAuth` over one store: a file is loaded, or a store filled by hand, then one transaction after the other | composition, state machine |
| `TxStack` | one transaction on one store: the decorators of `Chain`, the handlers, `Check` and `Deliver` | operators |
| `ArtifactRegistry` | what the chain promises: one registry, changed one image at a time, each change paid for with fresh signatures | abstract specification |
| `GrafainChain` | nodes that check, execute, commit, crash and restart, on a chain of transactions; EXTENDS `TxStack` | state machine, implements `ArtifactRegistry` |
| `PodAdmission` | the admission webhook between the API server of a cluster and a node: one query per container while the registry changes | state machine |
| `Deployment` | the webhook in its daemon and the daemon in its cluster: start, end, kill, seeding, own pod; EXTENDS `PodAdmission` | state machine, implements `PodAdmission` |
| `ClientNonce` | `Nonce` of the client, shared by goroutines, against a chain that commits late | state machine |
| `TxBroadcast` | `BroadcastTx`, `BroadcastTxSync` and `WaitForTxEvent` against a node that refuses, evicts, commits or is lost | state machine |
| `Proposals` | a transaction made into a proposal, voted on, tallied by the cron stack and executed, and the tables it passes on the way | state machine |
| `CliValues` | the numbers of the command line, from the text to the message | operators, and the reference they are compared with |
| `TxStream` | a session of commands writing into a pipe, and `as-batch`, `set-validators` or `as-proposal` reading it; EXTENDS `CliValues` | state machine |
| `TxPipeline` | copies of transactions that are wrapped, changed and signed in any order, and submitted | state machine |
| `CodecTables` | the messages with their field numbers, as the generated codecs know them | tables |
| `Codec` | `Size` and `MarshalTo` of each message; `Unmarshal` and `skipCodec`, one byte per step; EXTENDS `CodecTables` | operators and state machine |
| `Access_proofs`, `GrafainChain_proofs`, `PodAdmission_proofs`, `ClientNonce_proofs`, `TxBroadcast_proofs`, `Proposals_proofs`, `CommandLine_proofs`, `Codec_proofs` | the theorems of section 5; `Access_proofs` has those of `RbacAuth` and `Genesis` as well, `PodAdmission_proofs` those of `Deployment`, `CommandLine_proofs` those of `TxPipeline` and `TxStream` | proofs |
| `MC*` | constants of the runs | instances for TLC |

### How the modules correspond to the code

**Permissions.** A permission is a sequence of symbols; a symbol stands for a
run of characters, with separators and `*` as symbols of their own. `Allows`
compares a prefix of symbols where the code compares bytes, so the two differ
only for a pattern that cuts a word in two (`_grafain.art*`).
`strings.ToLower` is a function constant.

**RbacAuth.** `conds`, `roleIDs` and the frames of `stack` are the three nested
loops of `authRoles` and `loadRoles` (a frame is the set of role ids the loop
still has to visit; the code's order is one of those the model allows).
`processed` is `roleIdsProcessed`, which `loadRoles` marks *before* it loads
the roles the role names. `EnterLoadRoles` is the entry of one recursive call,
with its two early returns. A role that is not stored fails the transaction.
`withRBAC` and `Authorize` are the tail: the permissions of all loaded roles,
then the decision.

**Genesis.** One action per list and entry; `Fail` is any returned error. Role
ids come from a sequence that starts at 1, so that a role can only name roles
before it. A principal is its set of signatures, and whether one of them is
listed twice, which the unique index refuses like one another principal has.
`addArtifacts` has the three ways the loop body can end: stored;
the image is already there, where the code wraps a nil error and so returns
success; invalid.

**Access.** Genesis is the only code that writes roles and bindings, so the two
machines share the variables of `RbacStore` and nothing else. `Load` is the
initializer, `Transaction` an `AuthNDecorator` that is called (the context and
`roleIdsProcessed` are new with each), `Decorate` the rest of the two
decorators. `Bypassed` are stores filled past the initializer, as
`decorator_test.go` does: they have the cycles and missing roles that genesis
refuses and that the walk must survive.

**TxStack.** A store is the sequence per key, the artifacts and the multisig
contracts. `Verified` counts the signatures that pass before the first that
fails; `AfterSignatures` is the store the signature decorator leaves behind,
also when it fails half way, because nothing above it undoes its writes on
deliver. `Activated` lets a contract count the signers and the contracts listed
before it. `Conditions` and `HeldRoles` are what `HasAddress` of the chained
authenticators sees; `RolesStored` is the failure of `AuthNDecorator` on a role
that is not stored. `Valid` and `Handle` are the `validate` and `Deliver`
methods of the artifact handlers and of weave's multisig update handler; an
update is modelled because it changes, between two transactions, who may speak
for an owner. `Checked` rolls everything back on error
(`utils.NewSavepoint().OnCheck()` stands above the signature decorator),
`Delivered` keeps the sequences (the savepoint of the fee decorator stands
below). A batch is two messages for the same handlers (updates, since the
batch of `codec.proto` carries no artifacts): `AuthZDecorator` asks for the
permission of its own path, the second message meets the store the first has
left on deliver (`ValidOnDeliver`), but not on check, where handlers write
nothing (`ValidOnCheck`), and a failure undoes both. Fees, gas and tags are
left out. Signatures, multisig, batches and savepoints are code of weave: modelled from the way `Chain` stacks them, and marked
external in the map.

**GrafainChain.** `chain` and `ends` are what consensus decided: transactions
and block ends. Each node has `committed` (on disk), `deliver` and `check`
(memory), the number of transactions it has executed and the blocks it has
committed. `CheckTx`, `DeliverTx`, `Commit`, `Crash` and `Restart` are the
calls of the engine; any of them may fall between any two others, of the same
or of other nodes. `Crash` resets what is in memory to what is on disk.
`ledger` is a history variable that no action reads: the stores of one
undisturbed execution.

**PodAdmission.** `server` is the API server's view of a pod, `reply` and
`left` are the handler: the answer, and the containers and init containers it
has still to ask for. `Inspect` is one round of `doWithContainers`, one query
to the node; `QueryFails` is each of its error returns. `Decide` and `TimeOut`
are the API server as `grafain-hook.yaml` configures it (`failurePolicy: Fail`,
a time-out). The hook is asked about CREATE only, so a pod that was admitted
takes no more steps. `Register` and `Withdraw` are commits of the node the webhook
asks. A handler still busy with a request the API server gave up is dropped
when the pod is created again: its answer goes nowhere.

**Deployment.** `hook` and `node` are the two goroutines of `start` (`main.go`);
`MainEnds` is the receive from `awaitErr`, which the first to end answers, and
takes the other with it. `HookEnds` stands for each return of `startWebHook`,
with an error or without. The process can also be killed, and the pod lost;
`MaxLosses` bounds all four together. `CreateOwnPod` is possible only without
the hook (`failurePolicy: Fail`, and a webhook that would have to answer for
its own pod), `ApplyHook` waits for the node as `seed-cluster.sh` does.
`dropped` are the pods about which no handler is being asked, because none was
there or it died; the API server is refused the connection or waits its
second, which is a time-out of `PodAdmission`. `Spec` of `PodAdmission` is
therefore a property of the deployment, over the same variables.

**ClientNonce.** `Next` takes the mutex twice. `StartNext` is the first
critical section with its decision, `GetUser` the query without the mutex,
`SetNonce` the critical section of `Query`, `ReadNonce` its `return n.nonce`
after the unlock, `Take` the second critical section of `Next`. `Send`,
`Lose` and `Commit` are what a caller does with the number and what becomes of
it. `users` are the callers the `Nonce` was given to; `UsedProperly` are the
two ways of use its comments allow for, one caller who may query again, or
several after one of them has filled the cache. `StartQuery` is a call of
`Query`, which a caller makes whenever it likes, after a refusal or not; its
answer is the committed sequence, so with transactions of the signer in the
mempool it is a number that is taken. `unsure` is the history of that: a number
was lost, or a query was behind the mempool, and no query since has found the
mempool empty. `handed` lists the numbers given out since the cache was last
filled.

**TxBroadcast.** A call of `BroadcastTx` is two processes, the caller and the
goroutine of `BroadcastTxAsync`, with the channel `out` between them; closing
it and sending on it are actions of their own, so that a send on a closed
channel would show. `BroadcastTxSync` goes through `Submit`, `Subscribe`,
`Hear` or `TimeOut`, and the deferred `Unsubscribe`. The connection is
the node of the same process or HTTP (`remote`). The node keeps
subscriptions by subscriber name and query; a name is the transaction's hash
with two random bytes, a member of `Suffixes`, so that only calls with the same
transaction can have the same name. The HTTP client drops the name: all calls
are one subscriber, a second subscription for a transaction replaces the channel
of the first, and `UnsubscribeAll` of one call ends the subscriptions of all.
`Unsubscribe` may fail after any outcome of the wait, its error is dropped and
the subscription stays. `Deliver` puts a transaction into a block and its
event into the channels of the subscribers.

**Proposals.** The tables are the content: `OptionKinds` and `BatchKinds` are
the two switches of `as-proposal` (`cmd_gov.go`), `Executable` the routes of
`proposalOptionsExecutor`, `CronTask` what `MarshalTask` can write,
`CronRoutes` what `CronStack` registers. `Kept` is the loop of `toOption` over
a batch, one message at a time. `Propose`, `Withdraw`, `Vote` and
`Block` are weave's governance as far as the wiring relies on it; the vote
takes one unit of time. `Block` may have any later time, since no block need be
made in between. A message is its kind and the account, among
`Accounts`, that must authorize it, and `Authorized` is what `gov.Authenticate` answers inside the
executor.

**CliValues.** A text is the set of numbers it can be read as, a conversion
gives the set of its results: refusing is the empty set. The widths follow from
the size of a byte, so that two of them can be told apart on small numbers.
`Message` is what a command writes; `Sensible` and `Denotes` say, without the
conversions, which commands make sense and what their messages should say;
`TooWide` lists exactly the numbers the code cuts (section 6).

**TxStream.** The pipe holds units: a size, or one byte of the data of a
transaction. `WriteData` writes any part of what is left, `ReadData` takes
any part of what is there, the session may `Die` between any two writes, and a
command that refuses its arguments writes nothing and lets the next one run.
`ReadData` keeps the difference `io.ReadFull` makes between nothing read
(`io.EOF`) and part of it (`io.ErrUnexpectedEOF`). `as-batch` takes
transactions to the end, `set-validators` one or none, `as-proposal` copies its
input (`Collect`) and then tries it as a transaction, else as text (`Propose`).
`printed` are, command by command, those that have written a transaction.

**Codec.** A message is a record of sequences, a field table says which number
goes into which part, and how: replaced, merged into, appended, or chosen from
a oneof. The messages of weave come from the same generator and have a field
each that stands for all of theirs. `Unmarshal` is a stack of frames, one per
embedded message; a step reads one byte or does what follows a varint.
`SkipGroup` and `SkipGroupEnd` count the groups of `skipCodec`. `AsInt` and
`Signed` are the conversions to `int` and `int32`, whose widths are parameters.
Where other modules treat a transaction as a value that is written and read
unharmed (`TxStream`, `TxPipeline`, `Proposals`), `DecodesToMeaning` is the
reason.

**TxPipeline.** `files` is every transaction anybody keeps a copy of: a command
reads some and writes a new one. A signature holds the bytes it was made over
and the sequence it was made for; `had` is history. The signing commands take
the committed sequence, because each process has a `Nonce` of its own.

## 3. What the runs check

Where the bounded histories come to an end the configuration says
`CHECK_DEADLOCK FALSE`: a chain with its last transaction executed, a client
that has used up its numbers, a call that returned, a pipe that was read,
data that was decoded are final states, and so is a cluster that lost the pod
of grafain under the hook. `access` leaves deadlock checking on. Type
correctness is a theorem of section 5 wherever it is part of an invariant there
and is not checked again by a run.

| Run | Question | Instance | Why it is enough |
| --- | --- | --- | --- |
| `access` | which files load; does the walk end, load exactly the held roles; is each decision the one the file asks for | role lists up to three entries, principal and binding lists up to two in every combination, invalid entries among them; hand-made stores up to three roles with self references, cycles and missing roles; two addresses, every set of signers, permissions with wildcards and without | every error of every initializer is the first to strike in some file; chains and diamonds of roles need three; a role is met twice, along two ways and from two signers; a transaction follows any other; 286,704 states |
| `genesis_duplicate_image` | are all listed artifacts stored | as above | expected to fail, section 6 |
| `chain` | does what takes effect follow from fresh signatures of those who may; does the chain implement the registry; do nodes agree, do they serve what the chain says, is the check store a usable preview, does every decided block get committed | all chains of four out of fifteen transactions, as they are proposed; and, on all chains of up to three other transactions, two nodes, one of them with a pool of three, two blocks, one crash | *chains:* three transactions set a trap (register, hand over the contract, act on the old right), the fourth springs it; among the fifteen are replays, forged, missing and doubled signatures, contracts that name each other, a batch that hands over two contracts and one whose first message takes the right to the second. *Nodes:* one is in the middle of a block while the other is a block ahead and one of them crashes; the second transaction, a batch, passes `CheckTx` and fails in a block, the third waits behind it. `MCNext` names the two parts; 136,602 states |
| `overwrite` | does only the owner of an artifact change it | all chains of three out of the fifteen transactions | expected to fail, section 6 |
| `admission` | does the webhook tell the truth, wherever the daemon ends; does the seeding end; does a registered pod get in after refusals, time-outs, failing queries and crashes; is a deployment an admission | a pod with an init container and one that cannot be decoded, two images, two losses | the registry changes between two queries of one pod; either half of the daemon ends in any state of a request, and the second loss falls into the recovery from the first; 61,354 states |
| `nonce` | does every caller get the number after the last; is a single caller refused without cause; does asking again help | one caller who may query at any time, or three with a filled cache; numbers up to 3, two lost | all three between the two critical sections at once; a query with transactions in the mempool, a query for the first number, a lost number each lead to a refusal, and the second loss falls into the recovery; 41,802 states |
| `nonce_cold` | the same for callers that share an empty cache | two callers | expected to fail, section 6 |
| `broadcast` | does what is reported happen, does each call return, does nobody write to a closed channel, does the event reach each call that waits for it | four calls of both kinds, three of them with one transaction, one that cannot be marshalled; two suffixes of subscriber names; HTTP, or the node itself | two calls racing for one transaction in each pairing of kinds, colliding names, subscriptions left behind by calls before; 77,336 states |
| `proposals` | is what takes effect voted for, does what won take effect whole, does what is queued find a handler, is a proposal closed by the block after its vote | two proposals over six payloads, two rules, two electors, one swap, block times to 3 | two tallies in one block, a vote changed, a withdrawal, a batch of which one message lacks authority, one of each kind the tables agree on; 106,135 states |
| `stream` | does what was typed arrive, is a cut noticed, does the reader end | every command with the numbers around the limits of its types, bytes of one bit (a word of 4, a long of 8); all sessions of three out of five commands, one of which is refused; transactions of 2, 3 and 1 bytes | each conversion is at its boundary from both sides; cuts inside, at the end of, and across transactions; a refusal first, between and last; 43,957 states |
| `pipeline` | is what is accepted what was signed, and refused only for a cause | two messages, two signers, six copies | two signatures, with each change possible before, between and after; the sixth copy is a second wrap; 378,334 states |
| `codec` | is what is read back what was written, do sizes agree, does reading end and stay in range | all fourteen kinds, each field, pairs of fields in both orders, later fields of each wire type and nested groups, lengths of 124 to 128, each cut at every byte; data nobody wrote up to five bytes | a length or a tag takes a second byte, the length of a length as well; a oneof is chosen twice, an optional message read twice, a merged one cut; 16-bit integers overflow within three bytes of a varint; 163,720 states |

Each property has at least one mutant in `PROJECT.json`: a plausible slip in
one mapped definition (a savepoint in the wrong place, a counter that is not
advanced, a lock left out, a message type without a route) under which the
same run finds the property violated.

## 4. Fairness

Safety is checked without fairness. The liveness properties assume no more than
the following.

* `Access` (`Terminates`): decorators that were called take their next step.
  The walk is sequential code. Loading and new transactions are never forced.
* `GrafainChain` (`DecidedGetsCommitted`): weak fairness of `DeliverTx`,
  `Commit` and `Restart`. The engine hands decided blocks to the application
  until it has committed them, and a supervisor restarts a dead node. New
  transactions, blocks, checks and crashes are never forced; crashes are
  bounded. The property is written with `[]<>` because a decided block stays
  decided; it says the same as a leads-to.
* `Deployment` (`RegisteredGetsIn`, `SeedingEnds`): weak fairness of the stateful
  set's pod and container (`CreateOwnPod`, `Start`), of the script
  (`ApplyHook`), of what was started (`HookServes`, `NodeServes`, `MainEnds`),
  of a controller that creates a refused pod again, of the handler, and of the
  API server reading an answer or noticing a lost connection. Losses, query
  failures, time-outs and blocks are never forced. That the images stay
  registered and that failures and time-outs of a serving daemon end is a
  premise of `RegisteredGetsIn`, because nothing in the code forces it. Both
  assume `PodStays`: a pod of grafain that is lost while the hook is applied
  cannot come back, by the circle of section 1, which `contrib/k8s/README.md`
  leaves to the operator.
* `ClientNonce` (`RefusedRecovers`): weak fairness of a goroutine's steps and
  of a block while a transaction waits (which holds without empty blocks, too);
  strong fairness of a *successful* query, a connection that comes and goes, and
  of the call of `Query` by a caller that keeps being refused. That a refused
  caller asks again is the premise of the property and up to the caller, for whom `Query`
  is there "to force a query" (`pkg/client/base_client.go:66`).
* `TxBroadcast` (`EveryCallReturns`): goroutines run, the timer of
  `BroadcastTxSync` fires, the node answers a pending request, if only with an
  error (Tendermint's `timeout_broadcast_tx_commit`). That a transaction is
  delivered is not assumed.
* `TxStream` (`ArrivesAsTyped`, `ReaderEnds`): the session ends, whether it
  finishes or dies, and the reader is scheduled.
* `Codec` (`Terminates`): the program takes its next step.

`Proposals` has no liveness property. The daemon is started with
`--consensus.create_empty_blocks=false` (`contrib/k8s/grafain.yaml:183`), so
after the last vote the block that would tally it comes only with a next
transaction, and a proposal may stay open for ever. What the code does promise is
safety, `ClosedOnTime`: the first block past the vote closes it.

## 5. What is proved

TLAPS checks the following for every value of the constants, that is for any
number of nodes, keys, contracts, images, roles, callers and containers, and
for histories of any length. (The bounds of section 3 are constants the proofs
know nothing of beyond their being numbers.)

| Theorem | Of | States |
| --- | --- | --- |
| `RbacTypeCorrect`, `RbacLoadedExactly`, `RbacDecidedByHeldRoles`, `RbacFailsOnMissingRole` | `RbacAuth` | the walk loads the least closed set above the bindings of the signers, on cyclic stores as well; the decision follows it |
| `GenesisTypeCorrect`, `GenesisRolesAcyclic`, `GenesisNothingDangles` | `Genesis` | no file leaves a cycle or a dangling reference behind |
| `GenesisLoadsWellFormed` | `Genesis` | a file gets in exactly when its rbac part is consistent, and what is in the store then is what is in the file |
| `AccessFollows` | `Access` | each decision is the one the file asks for, and no transaction fails on a store genesis wrote |
| `AccessWalksSound`, `AccessStoreIsGenesis` | `Access` | what holds for one walk and for one load holds for every transaction of a node's life, over the store of any file, or one filled by hand |
| `ChainTypeCorrect`, `ChainReplicasAgree`, `ChainCheckIsolated` | `GrafainChain` | equal heights mean equal stores, checks stay to themselves |
| `ChainNoReplay`, `ChangesAreEntitled` as `ChainChangesAreEntitled` | `GrafainChain` | signatures count once; an entry changes only with the consent of its owner of before or of after, contracts with that of their admins (that the owner of *before* need not be asked is the finding `overwrite`) |
| `ChainImplementsRegistry` | `GrafainChain` | every step of the chain is a step or a stutter of `ArtifactRegistry` |
| `ChainEntriesHaveProvenance` | `GrafainChain` | each artifact a node serves, and each missing one, is the outcome of the last accepted transaction about its image, or as genesis has it if there was none |
| `ChainMempoolStaysDeliverable` | `GrafainChain` | while a block begins with the first transactions of a node's pool, the signatures of the next one still verify, whatever crashes and checks came before |
| `NonceTypeCorrect`, `NonceAlwaysIncrements` | `ClientNonce` | a single caller, or any number that share a filled cache, get consecutive numbers |
| `NonceRefusedOnlyForCause` | `ClientNonce` | a caller that is alone with its key, and queries whenever it likes, is refused a number only if one of its numbers was lost or a query came while transactions waited, and no query since found none waiting |
| `BroadcastReportsTruth`, `BroadcastOneAnswer`, `BroadcastEventReachesWaiter`, `BroadcastTypeCorrect` | `TxBroadcast` | what a call reports happened, no goroutine sends on a channel that was closed or outlives its call, and on a node of its own a call that waits when its transaction gets a result is sent it, whatever other calls ended or left behind |
| `ProposalEffectsAreVoted`, `ProposalWonTakesEffect`, `ProposalTasksFindHandlers`, `ProposalClosedOnTime` | `Proposals` | only what won its vote takes effect, in the order of the transaction; what won takes effect whole but for a refusing handler or a missing authority; no task is queued that has no route; no block past its vote leaves a proposal open |
| `PipelineAcceptedAsSigned`, `PipelineRefusedForCause` | `TxPipeline` | what is accepted is what each signer had before them; people can sign one after the other |
| `StreamCutDataIsNoticed` | `TxStream` | a reader that is content has every transaction of which data was written, whole and in order, for sessions and data of any length and every way the pipe cuts them |
| `AdmissionTypeCorrect`, `AdmissionWasRegistered`, `AdmissionRefusedForCause` | `PodAdmission` | no change of the registry while the webhook asks admits an image that was never there, or blames one that never was missing |
| `ClusterImplementsAdmission`, `ClusterAdmitsRegistered` | `Deployment` | the cluster with its daemons that end and start is an admission, step by step; so an admitted pod had its images registered in the deployment, too |
| `CodecInBounds` | `Codec` | no data and no table of messages makes a decoder read out of range, in integers of any width |
| `CodecSizeIsExact` | `Codec` | for every message of every kind that can be read, nested and of any length, Marshal writes as many bytes as Size allocates |

The arguments:

* *RbacAuth.* `LoadedExactly` is not inductive: in the middle of the walk the
  loaded roles are not closed. The invariant adds that every loaded role is
  reachable, and that every role a loaded one names is loaded too or waits in
  some frame of the stack; when the stack is empty this is closure, and
  `RoleGraph` turns closure into the least closed set. That the stack
  remembers what is owed, and not that the recursion is well-founded, is why
  cycles do no harm.
* *Genesis.* Ids come from a sequence and a role may name only stored ones, so
  that the numbering itself is the order the theorem asks for. For
  `LoadsWellFormed` the invariant (`ReadInv`) says of each list that the entries
  before the position were well-formed and are what the store holds, and of a
  failure that some entry was not.
* *Access.* `AccessInv` puts the invariant of the walk next to those of genesis;
  what ties them is that nothing is loaded once a transaction is at work, so
  that the store is the file's, the roles the signers hold in the store are the
  ones the file gives them (`HeldIsGiven`), and a walk on a store where nothing
  dangles cannot meet a missing role. A store filled by hand keeps the
  invariant of the walk and nothing of genesis, which is all that
  `AccessWalksSound` needs.
* *GrafainChain.* The invariant is `TypeOK /\ Executed /\ OnLedger /\
  CheckIsolated /\ SpentForGood`. `Executed` says the ledger is the chain
  executed once; `OnLedger`, that a node's committed store and its deliver
  store are entries of the ledger, at the positions its counters name: this is
  what survives a crash, and agreement of the replicas follows since equal
  heights name equal positions. `SpentForGood` says that the signatures a
  transaction used up are below the sequences of every later store: from it
  no replay. The lemmas about one transaction come first: sequences
  never fall, a signature that verifies has the current sequence and raises
  it, a refused transaction changes nothing but sequences, activated contracts
  are spoken for by the verified keys. Provenance goes along the ledger: at
  each of its stores an image is as its last accepted change left it
  (`LastDecides`), and a node's store is one of them. The mempool needs an
  invariant of its own, `PoolTrailed`: between what a node has committed and
  its check store there is one store for each transaction of the pool, each
  the one before with the signatures counted. As `CheckTx` and `DeliverTx`
  judge signatures by sequences alone (`JudgedByNonces`), the trail is a
  delivery.
* *ClientNonce.* The number in the cache is the last one handed out, or nothing
  was handed out since the cache was filled; only a caller who has the `Nonce`
  to itself is ever between the query and its answer; a query, whenever it comes,
  starts the count anew; a shared cache never
  looks empty again, since its number is positive or marked as the answer of a
  query. That the cache is filled before it is shared is an assumption
  (`UsedProperly`), and the finding `nonce_cold` shows why it is needed. For
  the caller that is alone, `InStep` says at each place of `Next` and `Query` how the
  cache stands to what the chain has and will have committed, as long as the
  caller is not `unsure`.
* *TxBroadcast.* A result is given once, because the node takes no transaction
  that has one, and each place an answer passes on its way to the caller
  (`Truth`) carries it. `Handshake` pairs the places of the caller, the
  goroutine and the channel: the goroutine has ended before the caller closes.
  `Owned`: on a node of its own no two subscriptions have one name, for a second
  under a name is refused, and a call that waits has one; so what another call
  ends, or fails to end, does not touch it. Over HTTP there is no such thing, and
  the property does not claim it.
* *Proposals.* `Queue` ties the tally that is queued to the one proposal under
  vote it belongs to, so that nothing is tallied twice or after a withdrawal;
  `Scheduled`, the other way round, that each proposal under vote has a tally to
  come, so that no block can pass it by;
  `Carried` says that the option is what `toOption` makes of the payload, `Open`
  and `Decided` what effects go with which status. The lemmas are about `Kept`:
  it picks messages in their order, and all of them if each kind is one of
  `BatchKinds`.
* *TxPipeline.* A command writes a new file or moves a sequence up, so what a
  file says of its signatures stays true (`FilesAreGood`): each is over the
  content its signer had, with a sequence that is not ahead of the chain.
* *TxStream.* The session says what the whole stream is; `Thing` names what it
  has at each offset, by where each transaction ends. The pipe is the part
  between what was taken and what was put (`Flow`), so how much a reader has
  taken tells where it is: between two transactions, with the messages of those
  before (`AtSize`), or in the data of one (`AtData`). A size with no data after
  it can only be the last thing, which is the exception the property names.
* *PodAdmission.* `left` is always a suffix of the containers and init
  containers, and what precedes it was seen registered.
* *Deployment.* Each step is a step of `PodAdmission` or leaves its variables
  alone; a handler that is lost is one whose pod can only time out. The
  theorems of `PodAdmission` then hold in the cluster.
* *Codec.* `Positions` bounds the index by place: before a field it is within the
  innermost message, inside a varint it is not past its end. `Nested` keeps
  the ends of the frames inside one another, which is what `Fits` checks before
  a frame is pushed. Neither needs the tables. For the sizes, `Typed` says that
  each message on the stack is one its table allows and goes into the field it
  was read for. `WellTyped` need not know the messages inside a message: it asks
  of an embedded one only that its own size is exact (`Sound`), so that no
  induction over the nesting is needed; that a message which its table allows is
  exact (`MessageIsExact`) is shown for each kind from the parts its `MarshalTo`
  and `Size` put together, and is what makes it `Sound` when the embedded
  `Unmarshal` returns.

Recursion. No installed prover can instantiate an induction theorem, whose
parameter is an operator. Where the code loops over a list whose length is known,
the proofs do without: the loop is a function on `0 .. n`, and that every set
which holds 0 and the successors of its members covers `0 .. n` (`UpTo`)
follows from the order of the naturals being well-founded, which the library
states without an operator. From it come that such a loop has a value at
each index, equal to the step applied to the value before (`LoopExists`),
what `Kept` and `printed` compute, and what is true along the ledger. Operators
of the library that are defined by folds or by nested recursion (`SelectSeq`,
`FoldLeft`) have no such facts; `Kept`, `printed` and `Total` are written as loops
for that reason. `EncodeVarint` and `Sov` recur on the digits of a number; that
such a function exists (`DigitsExist`) comes from tables of its values up to
each number. The tables of the messages are sets of records, and not built with
`:>` and `@@`, which the prover does not expand.

Left to TLC: liveness, that is everything of section 4, `ArrivesAsTyped` among
it; `DecodesToMeaning`, which compares a machine that reads bytes with nested
folds over what was written.

## 6. Where code and documentation disagree

With a run that is expected to end in a counterexample, and the line it
contradicts in `PROJECT.json`:

* `genesis_duplicate_image`: an image listed twice ends the load of artifacts
  with success and drops the rest (`pkg/artifact/init.go:40`; line 41 has the
  error that should have been returned).
* `nonce_cold`: callers sharing an empty cache can get the same number
  (`pkg/client/base_client.go:85`; line 89 says it always increments).
* `overwrite`: a create message for an image that exists replaces the entry of
  somebody else (`pkg/artifact/handler.go:56`) and asks only the new owner,
  although `pkg/artifact/codec.proto:10` calls the owner the address that is
  allowed to modify or delete it, and README.md:29 speaks of owner based
  permissions. `OwnerDecides` fails; `ChangesAreEntitled` is what does hold.

Met while modelling and left in the models as the code has them:

* `pkg/client/base_client.go:274`: the deferred `UnsubscribeAll` drops its
  error, and after a time-out it runs in a context that is over, so that
  subscriptions stay on the node although line 272 says to make sure; over HTTP
  it ends those of other calls, too. `Unsubscribe` has all of this;
  `EventReachesWaiter` states what holds of it.
* `cmd/grafaincli/cmd_gov.go:230`: `as-proposal` reads its input before it asks
  whether anything is piped in, so at a terminal it waits; and an input without
  a byte becomes a text resolution without a text (line 240). `ReaderEnds` and
  `CutDataIsNoticed` have these exceptions.
* `cmd/grafaincli/cmd_validators.go:36`: `set-validators` takes the end of an
  empty input for the beginning of the chain: what a command before it should
  have written, had it not been refused, is missing without an error.
* Numbers that are cut after they were checked (`TooWide`): a numerator or
  denominator from 2^32 on (`flag.go:235`), a weight from 2^31 on, parsed as
  unsigned and stored as signed (`cmd_distribution.go:77`), a validator's power
  from 2^63 on (`cmd_validators.go:56`), a negative number given to
  `as-sequence` (`cmd_sequence.go:26`), and a key from 2^63 on, printed negative
  by a query (`cmd_query.go:290`).
* `cmd/grafaincli/cmd_gov.go:422`: `with-elector` returns no error when it could
  not write.
* `pkg/app/gov_handler.go:36`: `multisig.UpdateMsg` and `currency.CreateMsg`
  can be proposed and accepted, but the executor has no route for them,
  although the comment at line 35 asks for all items (`Executable`;
  `WonTakesEffect` is stated for the kinds on which all tables agree).
* `cmd/grafaincli/cmd_gov.go:117`: a batch made into a proposal loses the
  messages the inner switch does not name, without an error (`toOption`).
* `cmd/grafaincli/common.go:150`: a writer that dies right after a size looks to
  `as-batch` like the end of the input. `CutDataIsNoticed` has exactly this
  exception.
* `contrib/k8s/grafain-hook.yaml:17`: the hook is asked about CREATE only, so an
  admitted pod can be given any image, although README.md:34 speaks of white
  listed images only.
* `pkg/webhook/validatingwebhook.go:37` still says that all requests are
  accepted; the checksum of an artifact (line 96) is never compared with
  anything.

## 7. What is not modelled

* *Fees.* The fee decorators stand between permission and handler. Their
  savepoint is modelled, their coins are not: no property here is about
  balances, which belong to weave's `cash`.
* *Batches of more than two messages, or of others than contract updates.*
  Two messages show each of the questions: order, consent by then, undoing.
* *Other message types of weave* (escrow, swaps, distribution, validators,
  accounts): routed by `Router`, handled by library code. `Proposals` models
  the routes where they decide something.
* *The dashboard, queries, views, keys of the command line; client queries*:
  one request or one file at a time, without state of their own; formatting and
  cryptography.
* *Times, coins, addresses, hex strings and the threshold of an election rule on
  the command line*: parsed and checked by libraries.
* *HTTP, certificates and the manager of the webhook*: the controller runtime's.
  `getblock` and `retry` of the daemon are read-only calls of the framework.
* *Header subscriptions of the client* (`SubscribeHeaders`): no caller in the
  repository; whether its goroutine ends after a cancel is up to the library.
* *A size cut inside its four bytes*: the pipe holds a size as one unit. A
  relay that cut it would make `readTx` fail, as a cut in the data does.
* *One command of a session that is killed between its size and its data while
  the shell starts the next*: the reader then takes what the next one writes for
  the missing data. In `TxStream` the session dies as a whole.
* *The codecs' getters, `String` and descriptors*, which have no behaviour of
  their own; the fields of weave's messages, of which one stands for all.
* *Manifests* beyond the daemon's, the hook's and the seeding script; build files.

## 8. Plan

Built so far, in this order: `Permissions`, `RoleGraph`, `RbacAuth`,
`Genesis`, `TxStack`, `ArtifactRegistry`, `GrafainChain`, `PodAdmission`,
`ClientNonce`, `TxBroadcast`, `Proposals`, `TxStream`, `TxPipeline`,
`CodecTables`, `Codec`, `Deployment`, `RbacStore` and `Access`, `CliValues`.

Next, extending the model:

1. The fee decorators in `TxStack`: what a failing transaction pays.
2. Electorates in `TxPipeline` and `Proposals`.

Next, proving: of `DecodesToMeaning`, that a message which comes back from one
field is the field that was written.
