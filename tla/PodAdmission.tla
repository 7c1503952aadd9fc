---------------------------- MODULE PodAdmission ----------------------------
(***************************************************************************)
(* The admission webhook (pkg/webhook/validatingwebhook.go) between the    *)
(* API server of a cluster, configured by contrib/k8s/grafain-hook.yaml,   *)
(* and a grafain node.  Handle asks the node about one container after the *)
(* other; in the meantime other requests are handled, and blocks register  *)
(* and withdraw images.                                                    *)
(*                                                                         *)
(* registry is what the node the webhook asks has committed.  It changes   *)
(* the way ArtifactRegistry says, one image at a time.  A query that never *)
(* returns is one that is never taken: the client sets no timeout.         *)
(***************************************************************************)
EXTENDS Naturals, Sequences, Functions

CONSTANTS
  Images,
  Pods,           \* pods someone tries to create
  Containers,     \* pod.Spec.Containers: the images, by pod
  InitContainers, \* pod.Spec.InitContainers
  Undecodable     \* pods the decoder refuses

ASSUME PodAdmissionAssumption ==
  /\ Containers \in [Pods -> Seq(Images)]
  /\ InitContainers \in [Pods -> Seq(Images)]
  /\ Undecodable \subseteq Pods

VARIABLES
  registry,
  server,   \* API server, per pod: "none", "waiting", "admitted", "refused"
  reply,    \* the webhook's answer: "none", "allowed", "errored", "notfound"
  left,     \* images the webhook has still to ask for
  seen,     \* history: images registered at some time since the request
  lacked,   \* history: images missing at some time since the request
  failed    \* history: pods whose request met a failing query

vars == <<registry, server, reply, left, seen, lacked, failed>>
history == <<seen, lacked, failed>>

Init ==
  /\ registry \in SUBSET Images
  /\ server = [p \in Pods |-> "none"]
  /\ reply = [p \in Pods |-> "none"]
  /\ left = [p \in Pods |-> << >>]
  /\ seen = [p \in Pods |-> {}]
  /\ lacked = [p \in Pods |-> {}]
  /\ failed = {}

Handling(p) == server[p] # "none" /\ reply[p] = "none"
Answer(p, r) == reply' = [reply EXCEPT ![p] = r]

(* Mutant: init containers are not looked at. *)
CreateWithoutInit(p) ==
  /\ server[p] \in {"none", "refused"}
  /\ server' = [server EXCEPT ![p] = "waiting"]
  /\ Answer(p, IF p \in Undecodable THEN "errored" ELSE "none")
  /\ left' = [left EXCEPT ![p] = Containers[p]]
  /\ seen' = [seen EXCEPT ![p] = registry]
  /\ lacked' = [lacked EXCEPT ![p] = Images \ registry]
  /\ failed' = failed \ {p}
  /\ UNCHANGED registry

(* A pod is created, or created again after a refusal: the API server asks *)
(* the webhook, which decodes the pod and begins with its containers, then *)
(* its init containers.  A handler that is still busy with an earlier try  *)
(* answers nobody.                                                         *)
Create(p) ==
  /\ server[p] \in {"none", "refused"}
  /\ server' = [server EXCEPT ![p] = "waiting"]
  /\ Answer(p, IF p \in Undecodable THEN "errored" ELSE "none")
  /\ left' = [left EXCEPT ![p] = Containers[p] \o InitContainers[p]]
  /\ seen' = [seen EXCEPT ![p] = registry]
  /\ lacked' = [lacked EXCEPT ![p] = Images \ registry]
  /\ failed' = failed \ {p}
  /\ UNCHANGED registry

(* Mutant: an answer without models is taken for an error of the query. *)
InspectNoModels(p) ==
  /\ Handling(p) /\ left[p] # << >>
  /\ \/ Head(left[p]) \in registry
        /\ left' = [left EXCEPT ![p] = Tail(left[p])] /\ UNCHANGED reply
     \/ Head(left[p]) \notin registry /\ Answer(p, "errored") /\ UNCHANGED left
  /\ UNCHANGED <<registry, server, history>>

(* One round of doWithContainers. *)
Inspect(p) ==
  /\ Handling(p) /\ left[p] # << >>
  /\ \/ Head(left[p]) \in registry
        /\ left' = [left EXCEPT ![p] = Tail(left[p])] /\ UNCHANGED reply
     \/ Head(left[p]) \notin registry /\ Answer(p, "notfound") /\ UNCHANGED left
  /\ UNCHANGED <<registry, server, history>>

(* The query fails or its value cannot be unmarshalled. *)
QueryFails(p) ==
  /\ Handling(p) /\ left[p] # << >>
  /\ Answer(p, "errored")
  /\ failed' = failed \cup {p}
  /\ UNCHANGED <<registry, server, left, seen, lacked>>

Allow(p) ==
  /\ Handling(p) /\ left[p] = << >>
  /\ Answer(p, "allowed")
  /\ UNCHANGED <<registry, server, left, history>>

PodImages(p) == Range(Containers[p]) \cup Range(InitContainers[p])

(* Mutant: the reason of a refusal is handed through. *)
DecideByReason(p) ==
  /\ server[p] = "waiting" /\ reply[p] # "none"
  /\ server' = [server EXCEPT ![p] = IF reply[p] = "allowed" THEN "admitted" ELSE reply[p]]
  /\ UNCHANGED <<registry, reply, left, history>>

(* The API server acts on the answer it was waiting for. *)
Decide(p) ==
  /\ server[p] = "waiting" /\ reply[p] # "none"
  /\ server' = [server EXCEPT ![p] = IF reply[p] = "allowed" THEN "admitted" ELSE "refused"]
  /\ UNCHANGED <<registry, reply, left, history>>

(* timeoutSeconds passes; failurePolicy is Fail. *)
TimeOut(p) ==
  /\ server[p] = "waiting"
  /\ server' = [server EXCEPT ![p] = "refused"]
  /\ UNCHANGED <<registry, reply, left, history>>

Register(x) ==
  /\ x \notin registry
  /\ registry' = registry \cup {x}
  /\ seen' = [p \in Pods |-> IF Handling(p) THEN seen[p] \cup {x} ELSE seen[p]]
  /\ UNCHANGED <<server, reply, left, lacked, failed>>

Withdraw(x) ==
  /\ x \in registry
  /\ registry' = registry \ {x}
  /\ lacked' = [p \in Pods |-> IF Handling(p) THEN lacked[p] \cup {x} ELSE lacked[p]]
  /\ UNCHANGED <<server, reply, left, seen, failed>>

Next ==
  \/ \E p \in Pods :
       \/ Create(p) \/ Inspect(p) \/ QueryFails(p) \/ Allow(p) \/ Decide(p) \/ TimeOut(p)
  \/ \E x \in Images : Register(x) \/ Withdraw(x)

Spec == Init /\ [][Next]_vars
-----------------------------------------------------------------------------
TypeOK ==
  /\ registry \subseteq Images
  /\ server \in [Pods -> {"none", "waiting", "admitted", "refused"}]
  /\ reply \in [Pods -> {"none", "allowed", "errored", "notfound"}]
  /\ left \in [Pods -> Seq(Images)]
  /\ seen \in [Pods -> SUBSET Images]
  /\ lacked \in [Pods -> SUBSET Images]
  /\ failed \subseteq Pods

(* Every image of an admitted pod, init containers included, was in the    *)
(* registry at some moment between the request and the answer, however the *)
(* registry changed while the webhook was asking.                          *)
AdmittedWasRegistered ==
  \A p \in Pods : server[p] = "admitted" => PodImages(p) \subseteq seen[p]

(* A pod is not called unknown unless one of its images was missing, and   *)
(* not failed unless a query failed or the pod could not be read.          *)
RefusedForCause ==
  \A p \in Pods :
    /\ reply[p] = "notfound" => PodImages(p) \cap lacked[p] # {}
    /\ reply[p] = "errored" => p \in failed \cup Undecodable
=============================================================================
