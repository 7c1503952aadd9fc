----------------------------- MODULE MCDeployment -----------------------------
(* A pod with an init container, and one that cannot be decoded. *)
EXTENDS Deployment

MCContainers == [p \in Pods |-> <<"nginx">>]
MCInitContainers == [p \in Pods |-> IF p = "web" THEN <<"setup">> ELSE << >>]
=============================================================================
