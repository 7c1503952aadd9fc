------------------------ MODULE PodAdmission_proofs ------------------------
(* What an admission and a refusal tell about the registry, for every set  *)
(* of pods and images and every way the registry changes meanwhile, and    *)
(* however often the daemon that answers dies.                             *)
EXTENDS Deployment, TLAPS

(* Of a request the webhook has not answered "errored" or "notfound", the  *)
(* images not yet asked for are the last of the pod, and those asked for   *)
(* were registered.                                                        *)
Inspected(p) ==
  server[p] # "none" /\ reply[p] \in {"none", "allowed"} =>
    PodImages(p) \subseteq seen[p] \cup Range(left[p])

(* What is still to be asked for are images of the pod; none is left when  *)
(* the answer is "allowed"; the history follows the registry while the     *)
(* request is handled.                                                     *)
Walk(p) ==
  /\ Range(left[p]) \subseteq PodImages(p)
  /\ reply[p] = "allowed" => left[p] = << >>
  /\ Handling(p) => registry \subseteq seen[p] /\ Images \ registry \subseteq lacked[p]
  /\ server[p] = "none" => reply[p] = "none" /\ left[p] = << >>
  /\ server[p] = "admitted" => reply[p] = "allowed"

AdmissionInv ==
  /\ TypeOK
  /\ \A p \in Pods : Inspected(p) /\ Walk(p)
  /\ RefusedForCause

LEMMA RangeOfConcat ==
  ASSUME NEW S, NEW s \in Seq(S), NEW t \in Seq(S)
  PROVE  Range(s \o t) = Range(s) \cup Range(t)
<1>1. /\ Len(s \o t) = Len(s) + Len(t)
      /\ \A i \in 1 .. Len(s) + Len(t) :
           (s \o t)[i] = IF i <= Len(s) THEN s[i] ELSE t[i - Len(s)]
      /\ DOMAIN (s \o t) = 1 .. Len(s) + Len(t)
      /\ DOMAIN s = 1 .. Len(s) /\ DOMAIN t = 1 .. Len(t)
      /\ Len(s) \in Nat /\ Len(t) \in Nat
  BY SMT
<1>2. ASSUME NEW x \in Range(s \o t) PROVE x \in Range(s) \cup Range(t)
  <2>1. PICK i \in 1 .. Len(s) + Len(t) : (s \o t)[i] = x
    BY <1>1, <1>2 DEF Range
  <2>2. CASE i <= Len(s)
    <3>1. i \in 1 .. Len(s) /\ s[i] = x  BY <2>1, <2>2, <1>1, SMT
    <3>. QED  BY <3>1, <1>1 DEF Range
  <2>3. CASE ~(i <= Len(s))
    <3>1. i - Len(s) \in 1 .. Len(t) /\ t[i - Len(s)] = x  BY <2>1, <2>3, <1>1, SMT
    <3>. QED  BY <3>1, <1>1 DEF Range
  <2>. QED  BY <2>2, <2>3
<1>3. ASSUME NEW x \in Range(s) PROVE x \in Range(s \o t)
  <2>1. PICK i \in 1 .. Len(s) : s[i] = x  BY <1>1, <1>3 DEF Range
  <2>2. i \in 1 .. Len(s) + Len(t) /\ (s \o t)[i] = x  BY <2>1, <1>1, SMT
  <2>. QED  BY <2>2, <1>1 DEF Range
<1>4. ASSUME NEW x \in Range(t) PROVE x \in Range(s \o t)
  <2>1. PICK i \in 1 .. Len(t) : t[i] = x  BY <1>1, <1>4 DEF Range
  <2>2. i + Len(s) \in 1 .. Len(s) + Len(t) /\ (s \o t)[i + Len(s)] = x
    BY <2>1, <1>1, SMT
  <2>. QED  BY <2>2, <1>1 DEF Range
<1>. QED  BY <1>2, <1>3, <1>4

LEMMA RangeOfHeadAndTail ==
  ASSUME NEW S, NEW s \in Seq(S), s # << >>
  PROVE  Head(s) \in S /\ Tail(s) \in Seq(S) /\ Range(s) = {Head(s)} \cup Range(Tail(s))
<1>1. /\ Head(s) = s[1] /\ Head(s) \in S /\ Tail(s) \in Seq(S) /\ Len(Tail(s)) = Len(s) - 1
      /\ \A i \in 1 .. Len(s) - 1 : Tail(s)[i] = s[i + 1]
      /\ DOMAIN s = 1 .. Len(s) /\ DOMAIN Tail(s) = 1 .. Len(s) - 1
      /\ Len(s) \in Nat /\ Len(s) > 0
  BY SMT
<1>2. ASSUME NEW x \in Range(s) PROVE x \in {Head(s)} \cup Range(Tail(s))
  <2>1. PICK i \in 1 .. Len(s) : s[i] = x  BY <1>1, <1>2 DEF Range
  <2>2. CASE i = 1  BY <2>1, <2>2, <1>1
  <2>3. CASE i # 1
    <3>1. i - 1 \in 1 .. Len(s) - 1 /\ Tail(s)[i - 1] = x
      BY <2>1, <2>3, <1>1, SMT
    <3>. QED  BY <3>1, <1>1 DEF Range
  <2>. QED  BY <2>2, <2>3
<1>3. Head(s) \in Range(s)
  BY <1>1, SMT DEF Range
<1>4. ASSUME NEW x \in Range(Tail(s)) PROVE x \in Range(s)
  <2>1. PICK i \in 1 .. Len(s) - 1 : Tail(s)[i] = x  BY <1>1, <1>4 DEF Range
  <2>2. i + 1 \in 1 .. Len(s) /\ s[i + 1] = x  BY <2>1, <1>1, SMT
  <2>. QED  BY <2>2, <1>1 DEF Range
<1>. QED  BY <1>1, <1>2, <1>3, <1>4

LEMMA RangeOfImages ==
  ASSUME NEW S, NEW s \in Seq(S)
  PROVE  Range(s) \subseteq S
  BY SMT DEF Range

LEMMA RangeOfEmpty == Range(<< >>) = {}
  BY SMT DEF Range

LEMMA AdmissionInvInit == Init => AdmissionInv
<1> SUFFICES ASSUME Init PROVE AdmissionInv
  OBVIOUS
<1>1. TypeOK
  BY SMT DEF Init, TypeOK
<1>2. ASSUME NEW p \in Pods PROVE Inspected(p) /\ Walk(p)
  BY RangeOfEmpty DEF Init, Inspected, Walk, Handling
<1>3. RefusedForCause
  BY DEF Init, RefusedForCause
<1>. QED  BY <1>1, <1>2, <1>3 DEF AdmissionInv

(* The part of the invariant that is about one pod does not change when    *)
(* what the variables say of this pod does not.                            *)
LEMMA OtherPodsKeep ==
  ASSUME AdmissionInv, NEW q \in Pods, UNCHANGED registry,
         server'[q] = server[q], reply'[q] = reply[q], left'[q] = left[q],
         seen'[q] = seen[q], lacked'[q] = lacked[q], q \in failed => q \in failed'
  PROVE  /\ (Inspected(q) /\ Walk(q))'
         /\ reply'[q] = "notfound" => PodImages(q) \cap lacked'[q] # {}
         /\ reply'[q] = "errored" => q \in failed' \cup Undecodable
  BY DEF AdmissionInv, Inspected, Walk, Handling, PodImages, RefusedForCause

LEMMA CreateKeeps ==
  ASSUME AdmissionInv, NEW p \in Pods, Create(p)
  PROVE  AdmissionInv'
<1>1. /\ Containers[p] \in Seq(Images) /\ InitContainers[p] \in Seq(Images)
      /\ Containers[p] \o InitContainers[p] \in Seq(Images)
  BY PodAdmissionAssumption, SMT
<1>2. Range(Containers[p] \o InitContainers[p]) = PodImages(p)
  BY <1>1, RangeOfConcat DEF PodImages
<1>3. TypeOK'
  BY <1>1, SMT DEF AdmissionInv, TypeOK, Create, Answer
<1>4. /\ server'[p] = "waiting"
      /\ reply'[p] = IF p \in Undecodable THEN "errored" ELSE "none"
      /\ left'[p] = Containers[p] \o InitContainers[p]
      /\ seen'[p] = registry /\ lacked'[p] = Images \ registry
      /\ UNCHANGED registry /\ failed' = failed \ {p}
  BY DEF AdmissionInv, TypeOK, Create, Answer
<1>5. (Inspected(p) /\ Walk(p))'
  BY <1>2, <1>4 DEF Inspected, Walk, Handling, PodImages
<1>6. ASSUME NEW q \in Pods, q # p
      PROVE  /\ (Inspected(q) /\ Walk(q))'
             /\ reply'[q] = "notfound" => PodImages(q) \cap lacked'[q] # {}
             /\ reply'[q] = "errored" => q \in failed' \cup Undecodable
  <2>1. /\ server'[q] = server[q] /\ reply'[q] = reply[q] /\ left'[q] = left[q]
        /\ seen'[q] = seen[q] /\ lacked'[q] = lacked[q]
    BY <1>6 DEF AdmissionInv, TypeOK, Create, Answer
  <2>. QED  BY <1>4, <1>6, <2>1, OtherPodsKeep
<1>7. RefusedForCause'
  BY <1>4, <1>6 DEF RefusedForCause, PodImages
<1>. QED  BY <1>3, <1>5, <1>6, <1>7 DEF AdmissionInv

LEMMA InspectKeeps ==
  ASSUME AdmissionInv, NEW p \in Pods, Inspect(p)
  PROVE  AdmissionInv'
<1>1. left[p] \in Seq(Images) /\ left[p] # << >>
  BY DEF AdmissionInv, TypeOK, Inspect
<1>2. /\ Head(left[p]) \in Images /\ Tail(left[p]) \in Seq(Images)
      /\ Range(left[p]) = {Head(left[p])} \cup Range(Tail(left[p]))
  BY <1>1, RangeOfHeadAndTail
<1>3. TypeOK'
  <2>1. left' \in [Pods -> Seq(Images)]
    BY <1>2 DEF AdmissionInv, TypeOK, Inspect
  <2>2. reply' \in [Pods -> {"none", "allowed", "errored", "notfound"}]
    BY DEF AdmissionInv, TypeOK, Inspect, Answer
  <2>. QED  BY <2>1, <2>2 DEF AdmissionInv, TypeOK, Inspect, history
<1>4. /\ UNCHANGED <<registry, server, seen, lacked, failed>>
      /\ server[p] # "none" /\ reply[p] = "none"
  BY DEF Inspect, history, Handling
<1>5. \/ /\ Head(left[p]) \in registry
         /\ left'[p] = Tail(left[p]) /\ reply'[p] = "none"
      \/ /\ Head(left[p]) \notin registry
         /\ left'[p] = left[p] /\ reply'[p] = "notfound"
  BY <1>4 DEF AdmissionInv, TypeOK, Inspect, Answer
<1>6. (Inspected(p) /\ Walk(p))'
  <2>1. Inspected(p) /\ Walk(p) /\ Handling(p) /\ registry \subseteq seen[p]
    BY <1>4 DEF AdmissionInv, Walk, Handling
  <2>. QED  BY <1>2, <1>4, <1>5, <2>1 DEF Inspected, Walk, Handling, PodImages
<1>7. reply'[p] = "notfound" => PodImages(p) \cap lacked'[p] # {}
  BY <1>2, <1>4, <1>5 DEF AdmissionInv, Walk, Handling
<1>8. ASSUME NEW q \in Pods, q # p
      PROVE  /\ (Inspected(q) /\ Walk(q))'
             /\ reply'[q] = "notfound" => PodImages(q) \cap lacked'[q] # {}
             /\ reply'[q] = "errored" => q \in failed' \cup Undecodable
  <2>1. reply'[q] = reply[q] /\ left'[q] = left[q]
    BY <1>8 DEF AdmissionInv, TypeOK, Inspect, Answer
  <2>. QED  BY <1>4, <1>8, <2>1, OtherPodsKeep
<1>9. RefusedForCause'
  BY <1>5, <1>7, <1>8 DEF RefusedForCause, PodImages
<1>. QED  BY <1>3, <1>6, <1>8, <1>9 DEF AdmissionInv

LEMMA QueryFailsKeeps ==
  ASSUME AdmissionInv, NEW p \in Pods, QueryFails(p)
  PROVE  AdmissionInv'
<1>1. TypeOK'
  BY SMT DEF AdmissionInv, TypeOK, QueryFails, Answer
<1>2. /\ UNCHANGED <<registry, server, left, seen, lacked>> /\ failed' = failed \cup {p}
      /\ server[p] # "none" /\ reply'[p] = "errored" /\ Handling(p)
  BY DEF AdmissionInv, TypeOK, QueryFails, Answer, Handling
<1>3. (Inspected(p) /\ Walk(p))'
  BY <1>2 DEF AdmissionInv, Inspected, Walk, Handling, PodImages
<1>4. ASSUME NEW q \in Pods, q # p
      PROVE  /\ (Inspected(q) /\ Walk(q))'
             /\ reply'[q] = "notfound" => PodImages(q) \cap lacked'[q] # {}
             /\ reply'[q] = "errored" => q \in failed' \cup Undecodable
  <2>1. reply'[q] = reply[q]
    BY <1>4 DEF AdmissionInv, TypeOK, QueryFails, Answer
  <2>. QED  BY <1>2, <1>4, <2>1, OtherPodsKeep
<1>5. RefusedForCause'
  BY <1>2, <1>4 DEF RefusedForCause, PodImages
<1>. QED  BY <1>1, <1>3, <1>4, <1>5 DEF AdmissionInv

LEMMA AllowKeeps ==
  ASSUME AdmissionInv, NEW p \in Pods, Allow(p)
  PROVE  AdmissionInv'
<1>1. TypeOK'
  BY SMT DEF AdmissionInv, TypeOK, Allow, Answer, history
<1>2. /\ UNCHANGED <<registry, server, left, seen, lacked, failed>>
      /\ left[p] = << >> /\ reply'[p] = "allowed" /\ Handling(p)
  BY DEF AdmissionInv, TypeOK, Allow, Answer, Handling, history
<1>3. (Inspected(p) /\ Walk(p))'
  BY <1>2 DEF AdmissionInv, Inspected, Walk, Handling, PodImages
<1>4. ASSUME NEW q \in Pods, q # p
      PROVE  /\ (Inspected(q) /\ Walk(q))'
             /\ reply'[q] = "notfound" => PodImages(q) \cap lacked'[q] # {}
             /\ reply'[q] = "errored" => q \in failed' \cup Undecodable
  <2>1. reply'[q] = reply[q]
    BY <1>4 DEF AdmissionInv, TypeOK, Allow, Answer
  <2>. QED  BY <1>2, <1>4, <2>1, OtherPodsKeep
<1>5. RefusedForCause'
  BY <1>2, <1>4 DEF RefusedForCause, PodImages
<1>. QED  BY <1>1, <1>3, <1>4, <1>5 DEF AdmissionInv

(* The API server reads the answer or gives up waiting: what the webhook   *)
(* knows of the request stays.                                             *)
LEMMA ServerKeeps ==
  ASSUME AdmissionInv, NEW p \in Pods, Decide(p) \/ TimeOut(p)
  PROVE  AdmissionInv'
<1>1. TypeOK'
  <2>1. UNCHANGED <<registry, reply, left, seen, lacked, failed>>
    BY DEF Decide, TimeOut, history
  <2>2. server' \in [Pods -> {"none", "waiting", "admitted", "refused"}]
    BY DEF AdmissionInv, TypeOK, Decide, TimeOut
  <2>. QED  BY <2>1, <2>2 DEF AdmissionInv, TypeOK
<1>2. /\ UNCHANGED <<registry, reply, left, seen, lacked, failed>>
      /\ server[p] # "none" /\ server'[p] # "none"
      /\ server'[p] = "admitted" => reply[p] = "allowed"
  BY DEF AdmissionInv, TypeOK, Walk, Decide, TimeOut, history
<1>3. (Inspected(p) /\ Walk(p))'
  BY <1>2 DEF AdmissionInv, Inspected, Walk, Handling, PodImages
<1>4. ASSUME NEW q \in Pods, q # p
      PROVE  (Inspected(q) /\ Walk(q))'
  <2>1. server'[q] = server[q]
    BY <1>4 DEF AdmissionInv, TypeOK, Decide, TimeOut
  <2>. QED  BY <1>2, <1>4, <2>1, OtherPodsKeep
<1>5. RefusedForCause'
  BY <1>2 DEF AdmissionInv, RefusedForCause, PodImages
<1>. QED  BY <1>1, <1>3, <1>4, <1>5 DEF AdmissionInv

LEMMA RegistryKeeps ==
  ASSUME AdmissionInv, NEW x \in Images, Register(x) \/ Withdraw(x)
  PROVE  AdmissionInv'
<1>1. UNCHANGED <<server, reply, left, failed>>
  BY DEF Register, Withdraw
<1>2. ASSUME NEW p \in Pods
      PROVE  /\ seen[p] \subseteq seen'[p] /\ lacked[p] \subseteq lacked'[p]
             /\ Handling(p) /\ Register(x) => x \in seen'[p] /\ registry' = registry \cup {x}
             /\ Handling(p) /\ Withdraw(x) => x \in lacked'[p] /\ registry' = registry \ {x}
  BY DEF AdmissionInv, TypeOK, Register, Withdraw
<1>3. TypeOK'
  <2>1. seen' \in [Pods -> SUBSET Images]
    <3>1. CASE Register(x)
      BY <3>1 DEF AdmissionInv, TypeOK, Register
    <3>2. CASE Withdraw(x)
      BY <3>2 DEF AdmissionInv, TypeOK, Withdraw
    <3>. QED  BY <3>1, <3>2
  <2>3. lacked' \in [Pods -> SUBSET Images]
    <3>1. CASE Register(x)
      BY <3>1 DEF AdmissionInv, TypeOK, Register
    <3>2. CASE Withdraw(x)
      BY <3>2 DEF AdmissionInv, TypeOK, Withdraw
    <3>. QED  BY <3>1, <3>2
  <2>2. registry' \subseteq Images
    BY DEF AdmissionInv, TypeOK, Register, Withdraw
  <2>. QED  BY <1>1, <2>1, <2>2, <2>3 DEF AdmissionInv, TypeOK
<1>4. ASSUME NEW p \in Pods PROVE (Inspected(p) /\ Walk(p))'
  BY <1>1, <1>2 DEF AdmissionInv, Inspected, Walk, Handling, PodImages
<1>5. RefusedForCause'
  BY <1>1, <1>2 DEF AdmissionInv, RefusedForCause, PodImages
<1>. QED  BY <1>3, <1>4, <1>5 DEF AdmissionInv

LEMMA AdmissionInvStep == AdmissionInv /\ [Next]_vars => AdmissionInv'
<1> SUFFICES ASSUME AdmissionInv, [Next]_vars PROVE AdmissionInv'
  OBVIOUS
<1>1. CASE UNCHANGED vars
  BY <1>1 DEF vars, AdmissionInv, TypeOK, Inspected, Walk, Handling, PodImages, RefusedForCause
<1>2. CASE Next
  BY <1>2, CreateKeeps, InspectKeeps, QueryFailsKeeps, AllowKeeps, ServerKeeps, RegistryKeeps
     DEF Next
<1>. QED  BY <1>1, <1>2

LEMMA AdmissionAlways == Spec => []AdmissionInv
  BY AdmissionInvInit, AdmissionInvStep, PTL DEF Spec

(* The variables of the webhook and of the API server keep their types.    *)
THEOREM AdmissionTypeCorrect == Spec => []TypeOK
<1>1. AdmissionInv => TypeOK
  BY DEF AdmissionInv
<1>. QED  BY AdmissionAlways, <1>1, PTL

(* doWithContainers asks for every image of the pod, and a pod whose       *)
(* images it all found is admitted on what the node said of each of them   *)
(* while it was asking: true for pods of any size.                         *)
THEOREM AdmissionWasRegistered == Spec => []AdmittedWasRegistered
<1>1. AdmissionInv => AdmittedWasRegistered
  BY RangeOfEmpty DEF AdmissionInv, AdmittedWasRegistered, Inspected, Walk
<1>. QED  BY AdmissionAlways, <1>1, PTL

(* A pod is refused only because an image was missing, a query failed or   *)
(* the pod could not be decoded.                                           *)
THEOREM AdmissionRefusedForCause == Spec => []RefusedForCause
<1>1. AdmissionInv => RefusedForCause
  BY DEF AdmissionInv
<1>. QED  BY AdmissionAlways, <1>1, PTL

LEMMA ClusterStep == [ClusterNext]_all => [Next]_vars
<1> SUFFICES ASSUME [ClusterNext]_all PROVE [Next]_vars
  OBVIOUS
<1>1. CASE UNCHANGED all
  BY <1>1 DEF all
<1>2. CASE CreateOwnPod \/ ApplyHook \/ LosePod
  BY <1>2 DEF CreateOwnPod, ApplyHook, LosePod
<1>3. CASE Start \/ HookServes \/ NodeServes \/ HookEnds \/ NodeEnds \/ MainEnds \/ Kill
  BY <1>3 DEF Start, HookServes, NodeServes, HookEnds, NodeEnds, MainEnds, Kill
<1>4. ASSUME NEW p \in Pods, CreatePod(p) \/ Handle(p) \/ Conclude(p)
      PROVE  Next
  BY <1>4 DEF CreatePod, Handle, Conclude, Next
<1>5. CASE CommitBlock
  BY <1>5 DEF CommitBlock, Next
<1>. QED  BY <1>1, <1>2, <1>3, <1>4, <1>5 DEF ClusterNext

(* main.go and the manifests around the webhook do not change what its     *)
(* answers mean: with any number of restarts, lost pods and lost requests  *)
(* the cluster sees what PodAdmission allows, so the two theorems above    *)
(* hold of it as well.                                                     *)
THEOREM ClusterImplementsAdmission == ClusterSpec => ImplementsAdmission
<1>1. ClusterInit => Init
  BY DEF ClusterInit
<1>. QED  BY <1>1, ClusterStep, PTL DEF ClusterSpec, ImplementsAdmission, Spec

(* Whatever became of the daemon meanwhile, an admitted pod's images were  *)
(* registered between its request and the answer.                          *)
THEOREM ClusterAdmitsRegistered == ClusterSpec => []AdmittedWasRegistered
  BY ClusterImplementsAdmission, AdmissionWasRegistered DEF ImplementsAdmission
=============================================================================
