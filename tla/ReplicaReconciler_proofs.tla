---------------------- MODULE ReplicaReconciler_proofs ----------------------
(***************************************************************************)
(* The example controller for every pool and every replica count: it stops *)
(* only when the cluster is level, its annotations are true, and without   *)
(* the deliberate bug its steps are steps of the abstract controller.      *)
(***************************************************************************)
EXTENDS ReplicaReconciler, FiniteSetTheorems, TLAPS

IInv == TypeOK /\ LevelWhenIdle

-----------------------------------------------------------------------------
(***************************************************************************)
(* The pool and what is chosen from it.                                    *)
(***************************************************************************)
LEMMA LeastNumber ==
  ASSUME NEW T \in SUBSET Nat, T # {}
  PROVE  \E x \in T : \A y \in T : x <= y
<1>1. PICK x \in T : \A y \in T : ~(<<y, x>> \in OpToRel(<, Nat))
  BY NatLessThanWellFounded, WFMin
<1>2. \A y \in T : ~(y < x)
  BY <1>1 DEF OpToRel
<1> QED
  BY <1>2

LEMMA IntervalSize ==
  ASSUME NEW n \in Nat
  PROVE  IsFiniteSet(1..n) /\ Cardinality(1..n) = n
<1>1. 1 \in Int /\ n \in Int
  OBVIOUS
<1>2. /\ IsFiniteSet(1..n)
      /\ Cardinality(1..n) = IF 1 > n THEN 0 ELSE n - 1 + 1
  BY ONLY <1>1, FS_Interval
<1> QED
  BY <1>2

LEMMA Pool ==
  /\ Len(PodPool) \in Nat /\ DOMAIN PodPool = 1..Len(PodPool)
  /\ \A i \in 1..Len(PodPool) : PodPool[i] \in PodNames
  /\ PodNames \subseteq Nat
  /\ IsFiniteSet(PodNames) /\ Cardinality(PodNames) = Len(PodPool)
<1> DEFINE I == 1..Len(PodPool)
<1>1. PodPool \in Seq(Nat) /\ Len(PodPool) \in Nat /\ DOMAIN PodPool = I
  BY ReplicaAssumption
<1>2. PodNames = {PodPool[i] : i \in I}
  BY <1>1 DEF PodNames, ToSet
<1>3. PodNames \subseteq Nat
  BY <1>1, <1>2
<1>4. PodPool \in [I -> PodNames]
  BY <1>1, <1>2
<1>5. PodPool \in Surjection(I, PodNames)
  BY <1>2, <1>4 DEF Surjection
<1>6. PodPool \in Injection(I, PodNames)
  BY <1>1, <1>4, ReplicaAssumption DEF Injection, IsInjective
<1>7. IsFiniteSet(I) /\ Cardinality(I) = Len(PodPool)
  BY <1>1, IntervalSize
<1> QED
  BY <1>1, <1>2, <1>3, <1>5, <1>6, <1>7, FS_Surjection

LEMMA Bounds == MaxReplicas \in Nat /\ MaxMoves \in Nat
BY ReplicaAssumption

LEMMA PodsFinite ==
  ASSUME TypeOK
  PROVE  IsFiniteSet(pods) /\ Running \in Nat /\ desired \in Nat
<1>1. IsFiniteSet(pods)
  BY Pool, FS_Subset DEF TypeOK
<1>2. Cardinality(pods) \in Nat
  BY <1>1, FS_CardinalityType
<1>3. desired \in 0..MaxReplicas
  BY DEF TypeOK
<1> QED
  BY <1>1, <1>2, <1>3, Bounds DEF Running

\* The abstract controller counts the same pods.
LEMMA SameCount == RC!Running = Running
BY DEF RC!Running, RC!Cardinality, RC!IsFiniteSet, Running, Cardinality, IsFiniteSet

\* What is chosen does not run yet.
LEMMA ChosenAreFree == Chosen \subseteq PodNames \ pods
BY Pool DEF Chosen, Free

LEMMA FreeFinite ==
  /\ IsFiniteSet(Free)
  /\ \A j : IsFiniteSet({k \in Free : k < j})
<1>1. IsFiniteSet(1..Len(PodPool)) /\ Free \subseteq 1..Len(PodPool)
  BY Pool, FS_Interval DEF Free
<1> QED
  BY <1>1, FS_Subset

\* Without the bug it is one name, as long as there is one.
LEMMA ChosenIsOne ==
  ASSUME ~BatchCreate
  PROVE  \/ Chosen = {} /\ PodNames \subseteq pods
         \/ \E p \in PodNames \ pods : Chosen = {p}
<1> DEFINE below(j) == {k \in Free : k < j}
<1>1. Free \subseteq Nat /\ Want = 1
  BY Pool DEF Free, Want
<1>2. Chosen = {PodPool[i] : i \in {j \in Free : below(j) = {}}}
  <2>1. \A j \in Free : Cardinality(below(j)) < 1 <=> below(j) = {}
    <3>1. \A j : IsFiniteSet(below(j))
      BY FreeFinite
    <3> HIDE DEF below
    <3> QED
      BY <3>1, FS_EmptySet, FS_CardinalityType
  <2> QED
    BY <1>1, <2>1 DEF Chosen
<1>3. CASE Free = {}
  <2>1. Chosen = {}
    BY <1>2, <1>3
  <2>2. PodNames \subseteq pods
    BY <1>3, ReplicaAssumption DEF Free, PodNames, ToSet
  <2> QED
    BY <2>1, <2>2
<1>4. CASE Free # {}
  <2>1. PICK i \in Free : \A j \in Free : i <= j
    BY <1>1, <1>4, LeastNumber
  <2>2. {j \in Free : below(j) = {}} = {i}
    <3>1. below(i) = {}
      <4>1. \A k \in Free : ~(k < i)
        BY <1>1, <2>1
      <4> QED
        BY <4>1
    <3>2. ASSUME NEW j \in Free, below(j) = {} PROVE j = i
      <4>1. ~(i < j) /\ i <= j
        BY <2>1, <3>2
      <4> QED
        BY <1>1, <2>1, <4>1
    <3> QED
      BY <2>1, <3>1, <3>2
  <2>3. Chosen = {PodPool[i]}
    BY <1>2, <2>2
  <2> QED
    BY <2>3, ChosenAreFree
<1> QED
  BY <1>3, <1>4

LEMMA LeastPod ==
  ASSUME TypeOK, pods # {}
  PROVE  Min(pods) \in pods
<1>1. pods \subseteq Nat
  BY Pool DEF TypeOK
<1> QED
  BY <1>1, LeastNumber DEF Min

-----------------------------------------------------------------------------
\* What Reconcile has counted is what there is afterwards.
LEMMA UpCounts ==
  ASSUME TypeOK, ReconcileUp
  PROVE  Running' = Running + Cardinality(Chosen)
<1>1. IsFiniteSet(Chosen) /\ IsFiniteSet(pods) /\ pods \cap Chosen = {}
  BY ChosenAreFree, Pool, PodsFinite, FS_Subset
<1>2. Cardinality(pods \cup Chosen) =
        Cardinality(pods) + Cardinality(Chosen) - Cardinality(pods \cap Chosen)
  BY <1>1, FS_Union
<1>3. Cardinality(pods) \in Nat /\ Cardinality(Chosen) \in Nat
  BY <1>1, FS_CardinalityType
<1>4. Cardinality(pods \cap Chosen) = 0
  BY <1>1, FS_EmptySet
<1> QED
  BY <1>2, <1>3, <1>4 DEF ReconcileUp, Running

LEMMA DownCounts ==
  ASSUME TypeOK, ReconcileDown
  PROVE  Min(pods) \in pods /\ Running' = Running - 1
<1>1. IsFiniteSet(pods) /\ Running > 0
  BY PodsFinite DEF ReconcileDown
<1>2. pods # {}
  BY <1>1, FS_EmptySet DEF Running
<1>3. Min(pods) \in pods
  BY <1>2, LeastPod
<1> QED
  BY <1>1, <1>3, FS_RemoveElement DEF ReconcileDown, Running

LEMMA InitInv == Init => IInv
  BY ReplicaAssumption DEF Init, IInv, TypeOK, LevelWhenIdle

LEMMA ReconcileInv == IInv /\ Reconcile => IInv'
<1> SUFFICES ASSUME IInv, Reconcile PROVE IInv'
  OBVIOUS
<1>1. TypeOK /\ UNCHANGED <<desired, moves>>
  BY DEF IInv, Reconcile
<1>2. CASE ReconcileUp
  <2>1. TypeOK'
    BY <1>1, <1>2, ChosenAreFree DEF TypeOK, ReconcileUp, Finish
  <2>2. LevelWhenIdle'
    BY <1>1, <1>2, UpCounts DEF LevelWhenIdle, ReconcileUp, Finish
  <2> QED
    BY <2>1, <2>2 DEF IInv
<1>3. CASE ReconcileDown
  <2>1. TypeOK'
    BY <1>1, <1>3 DEF TypeOK, ReconcileDown, Finish
  <2>2. LevelWhenIdle'
    BY <1>1, <1>3, DownCounts DEF LevelWhenIdle, ReconcileDown, Finish
  <2> QED
    BY <2>1, <2>2 DEF IInv
<1>4. CASE ReconcileLevel
  BY <1>1, <1>4 DEF IInv, TypeOK, LevelWhenIdle, ReconcileLevel, Finish, Running
<1> QED
  BY <1>2, <1>3, <1>4 DEF Reconcile

LEMMA NextInv == IInv /\ [Next]_vars => IInv'
<1> SUFFICES ASSUME IInv, [Next]_vars PROVE IInv'
  OBVIOUS
<1>1. CASE UNCHANGED vars
  BY <1>1 DEF vars, IInv, TypeOK, LevelWhenIdle, Running
<1>2. CASE Reconcile
  BY <1>2, ReconcileInv
<1>3. ASSUME NEW name \in {"ChangeDesired", "PodCrash"}, Move(name)
      PROVE  /\ LevelWhenIdle' /\ active' \in BOOLEAN /\ moves' \in 0..MaxMoves
             /\ act' \in {"Init", "", "ChangeDesired", "PodCrash", "CreatePod", "DeletePod"}
  <2>1. moves \in 0..MaxMoves /\ moves < MaxMoves /\ moves' = moves + 1
    BY <1>3 DEF IInv, TypeOK, Move
  <2>2. moves' \in 0..MaxMoves
    BY <2>1, Bounds
  <2> QED
    BY <1>3, <2>2 DEF LevelWhenIdle, Move
<1>4. CASE SetDesired
  <2>1. desired' \in 0..MaxReplicas /\ pods' \subseteq PodNames
    BY <1>4 DEF IInv, TypeOK, SetDesired
  <2> QED
    BY <1>3, <1>4, <2>1 DEF IInv, TypeOK, SetDesired
<1>5. CASE CrashPod
  <2>1. desired' \in 0..MaxReplicas /\ pods' \subseteq PodNames
    BY <1>5 DEF IInv, TypeOK, CrashPod
  <2> QED
    BY <1>3, <1>5, <2>1 DEF IInv, TypeOK, CrashPod
<1> QED
  BY <1>1, <1>2, <1>4, <1>5 DEF Next

LEMMA SpecInv == Spec => []IInv
  BY InitInv, NextInv, PTL DEF Spec

\* controller.go:107-132: Reconcile asks not to be requeued, from the counts
\* it has made, only when there are as many pods as desired, whatever the
\* pool, with the bug or without.
THEOREM AlwaysLevel == Spec => []LevelWhenIdle
<1>1. IInv => LevelWhenIdle
  BY DEF IInv
<1> QED
  BY <1>1, SpecInv, PTL

\* What a step of Reconcile does to the cluster, without the bug.
LEMMA ReconcileIsAStep ==
  ASSUME IInv, ~BatchCreate, Reconcile
  PROVE  \/ act' = "CreatePod" /\ RC!CreatePod
         \/ act' = "DeletePod" /\ RC!DeletePod
         \/ act' = "" /\ UNCHANGED <<desired, pods>>
         \/ desired > Len(PodPool) /\ UNCHANGED <<desired, pods>>
<1>1. TypeOK /\ desired' = desired
  BY DEF IInv, Reconcile
<1>2. CASE ReconcileUp
  <2>1. /\ Running < desired /\ pods' = pods \cup Chosen /\ act' = "CreatePod"
    BY <1>2 DEF ReconcileUp, Finish
  <2>2. CASE Chosen = {} /\ PodNames \subseteq pods
    <3>1. pods = PodNames
      BY <1>1, <2>2 DEF TypeOK
    <3>2. desired > Len(PodPool)
      BY <1>1, <2>1, <3>1, Pool, PodsFinite DEF Running
    <3> QED
      BY <1>1, <2>1, <2>2, <3>2
  <2>3. ASSUME NEW p \in PodNames \ pods, Chosen = {p}
        PROVE  act' = "CreatePod" /\ RC!CreatePod
    <3>1. pods' = pods \cup {p}
      BY <2>1, <2>3
    <3> QED
      BY <1>1, <2>1, <3>1, SameCount DEF RC!CreatePod
  <2> QED
    BY <2>2, <2>3, ChosenIsOne
<1>3. CASE ReconcileDown
  <2>1. Min(pods) \in pods
    BY <1>1, <1>3, DownCounts
  <2>2. Running > desired /\ pods' = pods \ {Min(pods)} /\ act' = "DeletePod"
    BY <1>3 DEF ReconcileDown, Finish
  <2>3. RC!Gone(Min(pods))
    BY <1>1, <2>1, <2>2 DEF RC!Gone
  <2>4. \E p \in pods : RC!Gone(p)
    <3> WITNESS Min(pods) \in pods
    <3> QED
      BY <2>3
  <2>5. RC!DeletePod
    BY <2>2, <2>4, SameCount DEF RC!DeletePod
  <2> QED
    BY <2>2, <2>5
<1>4. CASE ReconcileLevel
  BY <1>1, <1>4 DEF ReconcileLevel, Finish
<1> QED
  BY <1>2, <1>3, <1>4 DEF Reconcile

LEMMA MoveIsAStep ==
  ASSUME SetDesired \/ CrashPod
  PROVE  \/ act' = "ChangeDesired" /\ RC!ChangeDesired
         \/ act' = "PodCrash" /\ RC!PodCrash
BY DEF SetDesired, CrashPod, Move, RC!ChangeDesired, RC!PodCrash, RC!Gone

\* controller.go:97-100: without the bug the annotations are true, whatever
\* the pool and the counts.
THEOREM AnnotationsAreTrue ==
  ASSUME ~BatchCreate
  PROVE  Spec => AnnotationsAreClaims
<1>1. IInv /\ [Next]_vars => [desired <= Len(PodPool) => Claim(act')]_vars
  <2> SUFFICES ASSUME IInv, Next, desired <= Len(PodPool) PROVE Claim(act')
    OBVIOUS
  <2>1. ~(desired > Len(PodPool))
    BY Pool, PodsFinite DEF IInv
  <2>2. CASE Reconcile
    BY <2>1, <2>2, ReconcileIsAStep DEF Claim
  <2>3. CASE SetDesired \/ CrashPod
    BY <2>3, MoveIsAStep DEF Claim
  <2> QED
    BY <2>2, <2>3 DEF Next
<1> QED
  BY <1>1, SpecInv, PTL DEF Spec, AnnotationsAreClaims

\* examples/k8scontroller/ReplicaController.tla: without the bug every
\* behaviour of the reconciler is one of the abstract controller.
THEOREM ReconcilerIsSafe ==
  ASSUME ~BatchCreate
  PROVE  Spec => RC!Init /\ [][RC!Next]_RC!vars
<1>1. Init => RC!Init
  BY DEF Init, RC!Init
<1>2. IInv /\ [Next]_vars => [RC!Next]_RC!vars
  <2> SUFFICES ASSUME IInv, [Next]_vars PROVE [RC!Next]_RC!vars
    OBVIOUS
  <2>1. CASE UNCHANGED vars
    BY <2>1 DEF vars, RC!vars
  <2>2. CASE Reconcile
    BY <2>2, ReconcileIsAStep DEF RC!Next, RC!vars
  <2>3. CASE SetDesired \/ CrashPod
    BY <2>3, MoveIsAStep DEF RC!Next
  <2> QED
    BY <2>1, <2>2, <2>3 DEF Next
<1> QED
  BY <1>1, <1>2, SpecInv, PTL DEF Spec
=============================================================================
