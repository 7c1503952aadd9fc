------------------------------ MODULE Deployment ------------------------------
(***************************************************************************)
(* The admission webhook where it lives: in the daemon cmd/grafaind, which *)
(* runs it next to the node it asks, in a pod of the cluster whose pods it *)
(* judges (contrib/k8s).  The daemon may end, be killed and be started     *)
(* again between any two steps of a request, and its own pod is created    *)
(* under the same rules as every other.                                    *)
(***************************************************************************)
EXTENDS PodAdmission

CONSTANT MaxLosses  \* bound on what goes wrong with the daemon and its pod

ASSUME DeploymentAssumption == MaxLosses \in Nat

VARIABLES
  applied,  \* grafain-hook.yaml is applied
  present,  \* the pod of grafain exists
  hook,     \* goroutine of startWebHook: "none", "starting", "serving", "ended"
  node,     \* goroutine of server.StartCmd, the same
  dropped,  \* pods about which no handler is asked, or one that died
  losses

cluster == <<applied, present, hook, node, dropped, losses>>
daemon == <<hook, node>>
all == <<vars, cluster>>

ClusterInit ==
  /\ Init
  /\ applied = FALSE /\ present = FALSE
  /\ hook = "none" /\ node = "none"
  /\ dropped = {} /\ losses = 0

Serving == hook = "serving"
Running == hook # "none"

(* What the webhook was busy with is lost with it. *)
Drop == dropped' = dropped \cup {p \in Pods : Handling(p)}
Lose == losses < MaxLosses /\ losses' = losses + 1
Stop == hook' = "none" /\ node' = "none" /\ Drop
-----------------------------------------------------------------------------
(* seed-cluster.sh and the API server *)

(* The stateful set creates its pod; once the hook is applied the API      *)
(* server asks a webhook that is not there, and failurePolicy is Fail.     *)
CreateOwnPod ==
  /\ ~present /\ ~applied
  /\ present' = TRUE
  /\ UNCHANGED <<vars, applied, daemon, dropped, losses>>

(* Mutant: the hook is applied with the other manifests. *)
ApplyHookAtOnce ==
  /\ ~applied
  /\ applied' = TRUE
  /\ UNCHANGED <<vars, present, daemon, dropped, losses>>

(* The script waits until tendermint is ready, which asks the node. *)
ApplyHook ==
  /\ ~applied /\ present /\ node = "serving"
  /\ applied' = TRUE
  /\ UNCHANGED <<vars, present, daemon, dropped, losses>>

LosePod ==
  /\ present /\ Lose
  /\ present' = FALSE /\ Stop
  /\ UNCHANGED <<vars, applied>>
-----------------------------------------------------------------------------
(* grafaind start *)

(* The kubelet starts the container, or starts it again whatever its exit  *)
(* status was; the pod is not created anew.                                *)
Start ==
  /\ present /\ ~Running
  /\ hook' = "starting" /\ node' = "starting"
  /\ UNCHANGED <<vars, applied, present, dropped, losses>>

HookServes ==
  /\ hook = "starting" /\ hook' = "serving"
  /\ UNCHANGED <<vars, applied, present, node, dropped, losses>>

NodeServes ==
  /\ node = "starting" /\ node' = "serving"
  /\ UNCHANGED <<vars, applied, present, hook, dropped, losses>>

(* startWebHook returns: no configuration, no manager, an invalid address, *)
(* no certificates; or, without an error, because the manager stopped.     *)
HookEnds ==
  /\ hook \in {"starting", "serving"} /\ Lose
  /\ hook' = "ended" /\ Drop
  /\ UNCHANGED <<vars, applied, present, node>>

NodeEnds ==
  /\ node \in {"starting", "serving"} /\ Lose
  /\ node' = "ended"
  /\ UNCHANGED <<vars, applied, present, hook, dropped>>

(* Mutant: only the node's result is waited for. *)
MainEndsWithNode ==
  /\ node = "ended" /\ Stop
  /\ UNCHANGED <<vars, applied, present, losses>>

(* err = <-awaitErr: the first of the two that ends takes the other along. *)
MainEnds ==
  /\ hook = "ended" \/ node = "ended"
  /\ Stop
  /\ UNCHANGED <<vars, applied, present, losses>>

(* The process is killed. *)
Kill ==
  /\ Running /\ Lose /\ Stop
  /\ UNCHANGED <<vars, applied, present>>
-----------------------------------------------------------------------------
(* Requests *)

(* A webhook that does not serve gets no request, and the API server no    *)
(* answer; a pod that cannot be decoded is refused either way.             *)
CreatePod(p) ==
  /\ applied /\ (Serving \/ p \notin Undecodable)
  /\ Create(p)
  /\ dropped' = IF Serving THEN dropped \ {p} ELSE dropped \cup {p}
  /\ UNCHANGED <<applied, present, daemon, losses>>

(* The handler asks tendermint, which asks the node of the same process. *)
Handle(p) ==
  /\ Serving /\ p \notin dropped
  /\ \/ Inspect(p) /\ node = "serving"
     \/ Allow(p)
     \/ QueryFails(p)
  /\ UNCHANGED cluster

(* Mutant: failurePolicy is Ignore, as grafain-hook.yaml has it commented. *)
ConcludeIgnoring(p) ==
  /\ \/ Decide(p)
     \/ server[p] = "waiting" /\ server' = [server EXCEPT ![p] = "admitted"]
        /\ UNCHANGED <<registry, reply, left, history>>
  /\ UNCHANGED cluster

(* The API server gets an answer, is refused the connection, or waits no   *)
(* longer.                                                                 *)
Conclude(p) == (Decide(p) \/ TimeOut(p)) /\ UNCHANGED cluster

(* The node commits a block. *)
CommitBlock ==
  /\ node = "serving"
  /\ \E x \in Images : Register(x) \/ Withdraw(x)
  /\ UNCHANGED cluster

ClusterNext ==
  \/ CreateOwnPod \/ ApplyHook \/ LosePod
  \/ Start \/ HookServes \/ NodeServes \/ HookEnds \/ NodeEnds \/ MainEnds \/ Kill
  \/ \E p \in Pods : CreatePod(p) \/ Handle(p) \/ Conclude(p)
  \/ CommitBlock

ClusterSpec == ClusterInit /\ [][ClusterNext]_all

(* The cluster keeps its stateful set and its containers going, what       *)
(* starts serves or ends, pods that were refused are created again (a      *)
(* replica set does so), the handler runs, and the API server reads the    *)
(* answer or notices that the connection is gone.                          *)
Fairness ==
  /\ WF_all(CreateOwnPod) /\ WF_all(ApplyHook) /\ WF_all(Start)
  /\ WF_all(HookServes) /\ WF_all(NodeServes) /\ WF_all(MainEnds)
  /\ \A p \in Pods :
       /\ WF_all(CreatePod(p)) /\ WF_all(Handle(p) /\ ~QueryFails(p))
       /\ WF_all(Decide(p) /\ UNCHANGED cluster)
       /\ WF_all(p \in dropped /\ Conclude(p))
FairClusterSpec == ClusterSpec /\ Fairness
-----------------------------------------------------------------------------
(* Nobody takes grafain's pod away while the hook is applied. *)
PodStays == [](applied /\ present => []present)

(* seed-cluster.sh ends with a daemon that answers, whatever fails on the  *)
(* way; contrib/k8s/README.md asks for the order that makes this so.       *)
SeedingEnds == PodStays => <>(applied /\ Serving /\ node = "serving")

(* A pod all of whose images stay registered gets in, once the node        *)
(* answers queries and answers come in time, and whenever the daemon ended *)
(* or was killed before: main.go:76 ends it with the first of its parts,   *)
(* so that the cluster starts both again.                                  *)
RegisteredGetsIn ==
  \A p \in Pods \ Undecodable :
    (/\ PodStays
     /\ <>[](PodImages(p) \subseteq registry)
     /\ <>[][/\ ~(QueryFails(p) /\ node = "serving")
             /\ ~(TimeOut(p) /\ p \notin dropped)]_all)
      => <>(server[p] = "admitted")

(* The webhook in its daemon gives no answer PodAdmission would not give:  *)
(* requests that are lost with it look like ones that time out.            *)
ImplementsAdmission == Spec
=============================================================================
