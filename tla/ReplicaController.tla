------------------------- MODULE ReplicaController -------------------------
(***************************************************************************)
(* examples/k8scontroller/ReplicaController.tla, the abstract controller   *)
(* that recorded traces of the reconciler are validated against.           *)
(***************************************************************************)
EXTENDS Naturals, FiniteSets

CONSTANTS Pods, MaxReplicas

VARIABLES desired, \* the replica count the user asks for
          pods     \* the pods that run

vars == <<desired, pods>>

Running == Cardinality(pods)

Init == desired = 1 /\ pods = {}

ChangeDesired == /\ desired' \in (0..MaxReplicas) \ {desired}
                 /\ UNCHANGED pods

Gone(p) == /\ p \in pods
           /\ pods' = pods \ {p}
           /\ UNCHANGED desired

PodCrash == \E p \in pods : Gone(p)

CreatePod == /\ Running < desired
             /\ \E p \in Pods \ pods : pods' = pods \cup {p}
             /\ UNCHANGED desired

DeletePod == /\ Running > desired
             /\ \E p \in pods : Gone(p)

Next == ChangeDesired \/ PodCrash \/ CreatePod \/ DeletePod

Fairness == WF_vars(CreatePod) /\ WF_vars(DeletePod)

Spec == Init /\ [][Next]_vars /\ Fairness
=============================================================================
