------------------------- MODULE ReplicaReconciler -------------------------
(***************************************************************************)
(* examples/k8scontroller: Reconcile, called until it no longer asks to be *)
(* requeued (reconcileToLevel), against the FakeCluster whose desired      *)
(* count a user changes and whose pods crash between two of its calls.     *)
(* The names of pods are numbers: their order is the one Pods() sorts by.  *)
(***************************************************************************)
EXTENDS Naturals, FiniteSetsExt, SequencesExt

CONSTANTS PodPool,      \* the names the controller may create, in its order
          MaxReplicas,  \* the largest desired count a user asks for
          BatchCreate,  \* the deliberate bug switch
          MaxMoves      \* bound on the moves of the environment

PodNames == ToSet(PodPool)

ASSUME ReplicaAssumption == /\ PodPool \in Seq(Nat) /\ IsInjective(PodPool)
                            /\ MaxReplicas \in Nat \ {0} /\ MaxMoves \in Nat
                            /\ BatchCreate \in BOOLEAN

VARIABLES desired, pods, \* the FakeCluster
          active,        \* reconcileToLevel has not returned
          act,           \* the action the last step is recorded as, "" if none
          moves          \* moves of the environment so far

vars == <<desired, pods, active, act, moves>>

Running == Cardinality(pods)

Init == /\ desired = 1 /\ pods = {}
        /\ active = TRUE
        /\ act = "Init"
        /\ moves = 0
-----------------------------------------------------------------------------
\* Mutant: two pods at a time without the switch.
WantTwo == IF desired - Running >= 2 THEN 2 ELSE 1

Want == IF BatchCreate /\ desired - Running >= 2 THEN 2 ELSE 1

\* Where in the pool there are names that do not run.
Free == {i \in DOMAIN PodPool : PodPool[i] \notin pods}

\* The loop over the pool creates the first Want of them, or all there are.
Chosen == {PodPool[i] : i \in {j \in Free :
                                  Cardinality({k \in Free : k < j}) < Want}}

\* Reconcile's Result and annotation.
Finish(requeue, name) == /\ active' = requeue
                         /\ act' = name

\* Mutant: the pods that were wanted are counted, not those created.
ReconcileUpWanted == /\ Running < desired
                     /\ pods' = pods \cup Chosen
                     /\ Finish(Running + Want # desired, "CreatePod")

ReconcileUp == /\ Running < desired
               /\ pods' = pods \cup Chosen
               /\ Finish(Running + Cardinality(Chosen) # desired, "CreatePod")

\* Mutants: a pod is deleted at the desired count too; one deletion is taken
\* to be enough.
ReconcileDownEager == /\ Running >= desired /\ Running > 0
                      /\ pods' = pods \ {Min(pods)}
                      /\ Finish(Running - 1 # desired, "DeletePod")

ReconcileDownOnce == /\ Running > desired
                     /\ pods' = pods \ {Min(pods)}
                     /\ Finish(FALSE, "DeletePod")

ReconcileDown == /\ Running > desired
                 /\ pods' = pods \ {Min(pods)}
                 /\ Finish(Running - 1 # desired, "DeletePod")

ReconcileLevel == /\ Running = desired
                  /\ Finish(FALSE, "")
                  /\ UNCHANGED pods

Reconcile == /\ active
             /\ ReconcileUp \/ ReconcileDown \/ ReconcileLevel
             /\ UNCHANGED <<desired, moves>>

\* After each of its moves the harness calls reconcileToLevel.
Move(name) == /\ moves < MaxMoves /\ moves' = moves + 1
              /\ active' = TRUE /\ act' = name

SetDesired == /\ Move("ChangeDesired")
              /\ desired' \in (0..MaxReplicas) \ {desired}
              /\ UNCHANGED pods

CrashPod == /\ Move("PodCrash")
            /\ \E p \in pods : pods' = pods \ {p}
            /\ UNCHANGED desired

Next == Reconcile \/ SetDesired \/ CrashPod

\* The loop in reconcileToLevel goes on until Reconcile is level.
Spec == Init /\ [][Next]_vars /\ WF_vars(Reconcile)
-----------------------------------------------------------------------------
\* The values the variables range over.
TypeOK == /\ desired \in 0..MaxReplicas /\ pods \subseteq PodNames
          /\ active \in BOOLEAN
          /\ act \in {"Init", "", "ChangeDesired", "PodCrash", "CreatePod", "DeletePod"}
          /\ moves \in 0..MaxMoves

\* Reconcile asks not to be requeued, from counts it read before it created
\* or deleted, only when the cluster is level.
LevelWhenIdle == ~active => Running = desired

RC == INSTANCE ReplicaController WITH Pods <- PodNames

Claim(name) == CASE name = "CreatePod"     -> RC!CreatePod
                 [] name = "DeletePod"     -> RC!DeletePod
                 [] name = "ChangeDesired" -> RC!ChangeDesired
                 [] name = "PodCrash"      -> RC!PodCrash
                 [] OTHER                  -> UNCHANGED <<desired, pods>>

\* controller.go:97-100: a step is recorded under the name of an action of
\* the abstract specification that it is a step of, and one that is not
\* recorded changes nothing, as long as the pool is as large as the count.
AnnotationsAreClaims ==
  [][desired <= Len(PodPool) => Claim(act')]_vars

\* The reconciler implements the abstract controller, its fairness
\* included; a controller whose pool is exhausted spins and changes nothing.
RefinesController == RC!Spec

\* Once the environment is quiet the pods settle at the desired count, or at
\* the size of the pool.
Settles ==
  <>[](Running = IF desired <= Len(PodPool) THEN desired ELSE Len(PodPool))
=============================================================================
