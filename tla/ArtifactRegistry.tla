-------------------------- MODULE ArtifactRegistry --------------------------
(***************************************************************************)
(* What the chain promises to those who sign and to those who read: one    *)
(* registry of artifacts, changed one image at a time, each change paid    *)
(* for with at least one signature that was never used before and stays    *)
(* used for ever.  Signatures may also be spent for nothing.               *)
(***************************************************************************)
CONSTANTS Images, Artifact, NoArtifact

VARIABLES
  registry,  \* image -> artifact
  spent      \* signatures used: <<key, sequence>>

Pay == spent \subseteq spent' /\ spent' # spent

Publish(image, artifact) ==
  Pay /\ registry' = [registry EXCEPT ![image] = artifact]

Withdraw(image) ==
  /\ Pay
  /\ registry[image] # NoArtifact
  /\ registry' = [registry EXCEPT ![image] = NoArtifact]

(* A refused transaction, or one that is not about artifacts. *)
Burn == Pay /\ UNCHANGED registry

Init ==
  /\ registry \in [Images -> Artifact \cup {NoArtifact}]
  /\ spent = {}

Next ==
  \/ Burn
  \/ \E image \in Images :
       Withdraw(image) \/ \E artifact \in Artifact : Publish(image, artifact)

Spec == Init /\ [][Next]_<<registry, spent>>
=============================================================================
