----------------------- MODULE TraceValidation_proofs -----------------------
(***************************************************************************)
(* For every abstract specification, mapping, trace and order of TLC's     *)
(* search: the search is sound, Validate's reading of TLC's verdict is     *)
(* justified, and Validate implements the oracle.                          *)
(***************************************************************************)
EXTENDS TraceValidation, Integers, WellFoundedInduction, TLAPS

Ends(n) == \E r \in [1..n[1] -> States] : IsRun(job, n[1], r) /\ r[n[1]] = n[2]

\* An unexpanded node, or a last one, at or above every node of the search.
Leads(x) == \E y \in seen : y[1] >= x[1] /\ (y[1] = TraceLen \/ y \in frontier)

\* What TLC's search has established while it is running.
Searching ==
  /\ TraceInit \subseteq seen
  /\ \A n \in seen : n[2] \in job.invariant
  /\ \A n \in seen \ frontier : TraceNext(n) \subseteq seen
  /\ ~job.quiet => \A n \in seen : Leads(n)

IInv ==
  /\ TypeOK
  /\ SearchIsSound
  /\ VerdictIsJustified
  /\ phase \in {"generate", "init"} => seen = {}
  /\ phase \in {"init", "search", "interpret"} => WellPosed(job)
  /\ phase \in {"generate", "init", "search"} => tlc = NoVerdict
  /\ phase = "search" => Searching
  /\ phase # "done" => answer = Pending
-----------------------------------------------------------------------------
\* Every nonempty set of natural numbers has a least element: the induction
\* over the length of a trace.
LEMMA LeastElement ==
  ASSUME NEW T \in SUBSET Nat, T # {}
  PROVE  \E x \in T : \A y \in T : x <= y
<1>1. PICK x \in T : \A y \in T : ~(<<y, x>> \in OpToRel(<, Nat))
  BY NatLessThanWellFounded, WFMin
<1>2. ASSUME NEW y \in T PROVE ~(y < x)
  <2>1. y \in Nat /\ x \in Nat
    OBVIOUS
  <2>2. y < x => <<y, x>> \in OpToRel(<, Nat)
    BY <2>1 DEF OpToRel
  <2> QED
    BY <1>1, <2>2
<1>3. \A y \in T : x <= y
  BY <1>2
<1> QED
  BY <1>3

LEMMA SeqElements ==
  ASSUME NEW E, NEW s \in Seq(E) PROVE \A k \in 1..Len(s) : s[k] \in E
OBVIOUS

LEMMA TraceLenNat == TypeOK => TraceLen \in Nat
BY DEF TypeOK, ValidJob, JobType, TraceLen

LEMMA NodeParts ==
  \A n \in Nodes : n[1] \in 1..TraceLen /\ n[2] \in States /\ n = <<n[1], n[2]>>
BY DEF Nodes

\* The steps of the generated module are the recorded steps that the mapping
\* admits, exactly (tracecheck.rs:295-391).
LEMMA AdvanceAdmits ==
  ASSUME TypeOK, NEW n \in Nodes, ~Incomplete(n), NEW m \in Advance(n)
  PROVE  /\ m \in Nodes /\ m[1] = n[1] + 1
         /\ Shows(job, m[1], m[2])
         /\ Admits(job, m[1], n[2], m[2])
<1>1. /\ m \in Nodes /\ m[1] = n[1] + 1 /\ n[1] < TraceLen
      /\ job.bind[m[2]] = job.trace[m[1]].vars
      /\ TraceMatch(m[1], n[2], m[2])
  BY DEF Advance
<1>2. Shows(job, m[1], m[2])
  BY <1>1 DEF Shows
<1>3. CASE job.trace[m[1]].act \in job.mapped
  BY <1>1, <1>2, <1>3 DEF TraceMatch, Admits
<1>4. CASE job.trace[m[1]].act \notin job.mapped
  <2>1. <<n[2], m[2]>> \in job.next \/ job.bind[n[2]] = job.bind[m[2]]
    BY <1>1, <1>4 DEF TraceMatch
  <2>2. CASE job.bound
    <3>1. n[2] \in States /\ m[2] \in States
      BY <1>1, NodeParts
    <3>2. job.bind[n[2]] = job.bind[m[2]] => n[2] = m[2]
      BY <2>2, <3>1 DEF TypeOK, ValidJob
    <3> QED
      BY <1>1, <1>2, <1>4, <2>1, <3>2 DEF Admits
  <2>3. CASE ~job.bound
    <3>1. job.bind[n[2]] # job.trace[m[1]].vars
      BY <1>1, <1>4, <2>3 DEF Incomplete
    <3> QED
      BY <1>1, <1>2, <1>4, <2>1, <3>1 DEF Admits
  <2> QED
    BY <2>2, <2>3
<1> QED
  BY <1>1, <1>2, <1>3, <1>4

LEMMA AdmitsAdvance ==
  ASSUME TypeOK, NEW k \in 1..TraceLen, k < TraceLen, NEW s \in States, NEW t \in States,
         Shows(job, k, s), Shows(job, k + 1, t), Admits(job, k + 1, s, t)
  PROVE  <<k + 1, t>> \in Advance(<<k, s>>)
<1>1. k + 1 \in 1..TraceLen
  BY TraceLenNat
<1>2. TraceMatch(k + 1, s, t)
  BY DEF Admits, TraceMatch
<1>3. <<k + 1, t>> \in Nodes
  BY <1>1 DEF Nodes
<1> QED
  BY <1>2, <1>3 DEF Advance, Shows

\* A run over k recorded states is one over the first i of them.
LEMMA RunsAreExtended ==
  ASSUME TypeOK, NEW k \in 1..TraceLen, k < TraceLen,
         NEW r \in [1..k -> States], IsRun(job, k, r),
         NEW t \in States, Shows(job, k + 1, t), Admits(job, k + 1, r[k], t)
  PROVE  \E q \in [1..(k + 1) -> States] : IsRun(job, k + 1, q) /\ q[k + 1] = t
<1> DEFINE q == [i \in 1..(k + 1) |-> IF i = k + 1 THEN t ELSE r[i]]
<1>1. k \in Nat /\ k >= 1
  BY TraceLenNat
<1>2. q \in [1..(k + 1) -> States]
  BY <1>1
<1>3. q[k + 1] = t /\ \A i \in 1..k : q[i] = r[i]
  BY <1>1
<1>4. Starts(job, q[1])
  BY <1>1, <1>3 DEF IsRun
<1>5. \A i \in 1..(k + 1) : Shows(job, i, q[i])
  <2> SUFFICES ASSUME NEW i \in 1..(k + 1) PROVE Shows(job, i, q[i])
    OBVIOUS
  <2>1. CASE i = k + 1
    BY <2>1, <1>3
  <2>2. CASE i \in 1..k
    BY <2>2, <1>3 DEF IsRun
  <2> QED
    BY <2>1, <2>2, <1>1
<1>6. \A i \in 1..k : Admits(job, i + 1, q[i], q[i + 1])
  <2> SUFFICES ASSUME NEW i \in 1..k PROVE Admits(job, i + 1, q[i], q[i + 1])
    OBVIOUS
  <2>1. CASE i = k
    BY <2>1, <1>1, <1>3
  <2>2. CASE i \in 1..(k - 1)
    <3>1. i + 1 \in 1..k
      BY <2>2, <1>1
    <3> QED
      BY <2>2, <3>1, <1>3 DEF IsRun
  <2> QED
    BY <2>1, <2>2, <1>1
<1>7. (k + 1) - 1 = k
  BY <1>1
<1>8. IsRun(job, k + 1, q)
  BY <1>2, <1>4, <1>5, <1>6, <1>7 DEF IsRun
<1> QED
  BY <1>2, <1>3, <1>8

\* What is allowed up to k is allowed up to every m before it.
LEMMA PrefixIsReached ==
  ASSUME NEW j, NEW k \in Nat, NEW m \in 1..k, Reaches(j, k) PROVE Reaches(j, m)
<1>1. PICK r \in [1..k -> States] : IsRun(j, k, r)
  BY DEF Reaches
<1> DEFINE q == [i \in 1..m |-> r[i]]
<1>2. m \in Nat /\ m >= 1 /\ m <= k
  OBVIOUS
<1>3. q \in [1..m -> States] /\ \A i \in 1..m : q[i] = r[i] /\ i \in 1..k
  BY <1>2
<1>4. Starts(j, q[1]) /\ \A i \in 1..m : Shows(j, i, q[i])
  BY <1>1, <1>2, <1>3 DEF IsRun
<1>5. \A i \in 1..(m - 1) : i \in 1..m /\ i + 1 \in 1..m /\ i \in 1..(k - 1)
  BY <1>2
<1>6. \A i \in 1..(m - 1) : Admits(j, i + 1, q[i], q[i + 1])
  BY <1>1, <1>3, <1>5 DEF IsRun
<1>7. IsRun(j, m, q)
  BY <1>3, <1>4, <1>6 DEF IsRun
<1> QED
  BY <1>3, <1>7 DEF Reaches

LEMMA InitialNodesEnd ==
  ASSUME TypeOK, NEW n \in TraceInit PROVE Ends(n)
<1> DEFINE r == [i \in 1..1 |-> n[2]]
<1>1. /\ n \in Nodes /\ n[1] = 1 /\ n[2] \in States
      /\ Shows(job, 1, n[2]) /\ Starts(job, n[2])
  BY NodeParts DEF TraceInit, Shows, Starts
<1>2. r \in [1..1 -> States] /\ r[1] = n[2]
  BY <1>1
<1>3. \A i \in 1..1 : i = 1
  OBVIOUS
<1>4. 1..(1 - 1) = {}
  OBVIOUS
<1>5. IsRun(job, 1, r)
  BY <1>1, <1>2, <1>3, <1>4 DEF IsRun
<1> QED
  BY <1>1, <1>2, <1>5 DEF Ends

LEMMA SuccessorsEnd ==
  ASSUME TypeOK, NEW n \in Nodes, Ends(n), ~Incomplete(n), NEW m \in TraceNext(n)
  PROVE  Ends(m)
<1>1. CASE m \in Done(n)
  BY <1>1 DEF Done
<1>2. CASE m \in Advance(n)
  <2>1. /\ m \in Nodes /\ m[1] = n[1] + 1 /\ m[2] \in States
        /\ Shows(job, n[1] + 1, m[2]) /\ Admits(job, n[1] + 1, n[2], m[2])
    BY <1>2, AdvanceAdmits, NodeParts
  <2>2. n[1] \in 1..TraceLen /\ n[1] < TraceLen
    BY <1>2, NodeParts DEF Advance
  <2>3. PICK r \in [1..n[1] -> States] : IsRun(job, n[1], r) /\ r[n[1]] = n[2]
    BY DEF Ends
  <2>4. \E q \in [1..(n[1] + 1) -> States] :
          IsRun(job, n[1] + 1, q) /\ q[n[1] + 1] = m[2]
    BY <2>1, <2>2, <2>3, RunsAreExtended
  <2> QED
    BY <2>1, <2>4 DEF Ends
<1> QED
  BY <1>1, <1>2 DEF TraceNext
-----------------------------------------------------------------------------
\* A search that ends with nothing to expand has seen every state of every
\* run: the first of a run that it had not seen would be a successor of one
\* that it expanded.
LEMMA AllRunsAreSeen ==
  ASSUME TypeOK, Searching, frontier = {},
         NEW k \in 1..TraceLen, NEW r \in [1..k -> States], IsRun(job, k, r)
  PROVE  <<k, r[k]>> \in seen
<1> DEFINE T == {i \in 1..k : <<i, r[i]>> \notin seen}
<1> SUFFICES ASSUME <<k, r[k]>> \notin seen PROVE FALSE
  OBVIOUS
<1>1. TraceLen \in Nat /\ k \in Nat /\ k >= 1
  BY TraceLenNat
<1>2. T \in SUBSET Nat /\ k \in T
  BY <1>1
<1>3. PICK i \in T : \A j \in T : i <= j
  BY <1>2, LeastElement
<1>4. i \in 1..k /\ <<i, r[i]>> \notin seen
  BY <1>3
<1>5. CASE i = 1
  <2>1. <<1, r[1]>> \in Nodes
    BY <1>1 DEF Nodes
  <2>2. <<1, r[1]>> \in TraceInit
    BY <1>1, <2>1 DEF TraceInit, IsRun, Starts, Shows
  <2> QED
    BY <1>4, <1>5, <2>2 DEF Searching
<1>6. CASE i > 1
  <2> DEFINE h == i - 1
  <2>1. h \in 1..(k - 1) /\ h \in 1..k /\ h + 1 = i /\ h \in 1..TraceLen /\ h < TraceLen
    BY <1>1, <1>4, <1>6
  <2>2. h \notin T
    BY <1>3, <2>1
  <2>3. <<h, r[h]>> \in seen
    BY <2>1, <2>2
  <2>4. r[h] \in States /\ r[h + 1] \in States
    BY <1>4, <2>1
  <2>5. /\ Shows(job, h, r[h]) /\ Shows(job, h + 1, r[h + 1])
        /\ Admits(job, h + 1, r[h], r[h + 1])
    BY <1>4, <2>1 DEF IsRun
  <2> HIDE DEF h
  <2>6. <<h + 1, r[h + 1]>> \in Advance(<<h, r[h]>>)
    BY <2>1, <2>4, <2>5, AdmitsAdvance
  <2>7. <<h + 1, r[h + 1]>> \in seen
    BY <2>3, <2>6 DEF Searching, TraceNext
  <2> QED
    BY <1>4, <2>1, <2>7
<1> QED
  BY <1>1, <1>4, <1>5, <1>6

\* When every variable is bound, a node without a successor is where the
\* specification cannot take the next recorded step.
LEMMA DeadlockIsDivergence ==
  ASSUME TypeOK, NEW n \in Nodes, TraceNext(n) = {}, Ends(n)
  PROVE  /\ n[1] \in 1..(TraceLen - 1)
         /\ Reaches(job, n[1])
         /\ job.bound => ~Reaches(job, n[1] + 1)
<1>1. TraceLen \in Nat /\ n[1] \in 1..TraceLen /\ n[2] \in States /\ n = <<n[1], n[2]>>
  BY TraceLenNat, NodeParts
<1>2. n[1] # TraceLen
  BY DEF TraceNext, Done
<1>3. PICK q \in [1..n[1] -> States] : IsRun(job, n[1], q) /\ q[n[1]] = n[2]
  BY DEF Ends
<1>4. ASSUME job.bound, NEW r \in [1..(n[1] + 1) -> States], IsRun(job, n[1] + 1, r)
      PROVE  FALSE
  <2> DEFINE k == n[1]
  <2>1. k \in 1..k /\ k \in 1..(k + 1) /\ k + 1 \in 1..(k + 1) /\ k \in 1..((k + 1) - 1)
    BY <1>1
  <2>2. r[k] \in States /\ r[k + 1] \in States
    BY <2>1, <1>4
  <2>3. /\ Shows(job, k, r[k]) /\ Shows(job, k + 1, r[k + 1])
        /\ Admits(job, k + 1, r[k], r[k + 1])
    BY <2>1, <1>4 DEF IsRun
  <2>4. Shows(job, k, n[2])
    BY <2>1, <1>3 DEF IsRun
  <2>5. r[k] = n[2]
    BY <1>1, <1>4, <2>2, <2>3, <2>4 DEF TypeOK, ValidJob, Shows
  <2>6. <<k + 1, r[k + 1]>> \in Advance(<<k, n[2]>>)
    BY <1>1, <1>2, <2>2, <2>3, <2>5, AdmitsAdvance
  <2> QED
    BY <1>1, <2>6 DEF TraceNext
<1> QED
  BY <1>1, <1>2, <1>3, <1>4 DEF Reaches
-----------------------------------------------------------------------------
LEMMA InitInv == Init => IInv
<1> SUFFICES ASSUME Init PROVE IInv
  OBVIOUS
<1>1. ValidJob(job)
  BY JobsAssumption DEF Init
<1>2. TraceLen \in Nat
  BY <1>1 DEF ValidJob, JobType, TraceLen
<1>3. TypeOK
  BY <1>1, <1>2 DEF Init, TypeOK, NoVerdict
<1> QED
  BY <1>3 DEF Init, IInv, SearchIsSound, VerdictIsJustified, NoVerdict

\* A call that GenModule does not refuse asks a question that makes sense.
LEMMA GenModuleInv == IInv /\ GenModule => IInv'
<1> SUFFICES ASSUME IInv, GenModule PROVE IInv'
  OBVIOUS
<1>1. UNCHANGED <<job, seen, frontier, tlc>> /\ seen = {} /\ tlc = NoVerdict
  BY DEF GenModule, IInv
<1>2. TypeOK'
  BY <1>1 DEF GenModule, IInv, TypeOK, Return, ValidJob, JobType, Nodes, TraceLen
<1>3. ~Refused => WellPosed(job)
  <2> SUFFICES ASSUME ~Refused PROVE WellPosed(job)
    OBVIOUS
  <2>1. job.trace \in Seq([act: Labels, vars: Values \cup {Unassigned}])
    BY DEF IInv, TypeOK, ValidJob, JobType
  <2>2. \A k \in 1..Len(job.trace) : job.trace[k].vars \in Values \cup {Unassigned}
    <3>1. \A k \in 1..Len(job.trace) :
            job.trace[k] \in [act: Labels, vars: Values \cup {Unassigned}]
      BY <2>1, SeqElements
    <3> QED
      BY <3>1
  <2> QED
    BY <2>1, <2>2 DEF Refused, WellPosed, TraceLen
<1>4. SearchIsSound'
  BY <1>1 DEF SearchIsSound
<1>5. VerdictIsJustified'
  BY <1>1 DEF VerdictIsJustified, NoVerdict
<1> QED
  BY <1>1, <1>2, <1>3, <1>4, <1>5 DEF GenModule, Return, IInv

\* TLC's initial states are those that the specification may start in, with
\* the first recorded values.
LEMMA ComputeInitInv == IInv /\ ComputeInit => IInv'
<1> SUFFICES ASSUME IInv, ComputeInit PROVE IInv'
  OBVIOUS
<1>0. /\ UNCHANGED <<job, answer>> /\ phase = "init" /\ seen = {} /\ tlc = NoVerdict
      /\ TypeOK /\ WellPosed(job) /\ answer = Pending
  BY DEF ComputeInit, IInv
<1>1. TraceLen \in Nat /\ TraceLen >= 1 /\ UNCHANGED TraceLen /\ UNCHANGED Nodes
  BY <1>0, TraceLenNat DEF WellPosed, TraceLen, Nodes, TypeOK, ValidJob, JobType
<1>2. CASE job.skipInit /\ ~job.bound
  <2>1. /\ phase' = "interpret" /\ tlc' = Verdict("failure", 0)
        /\ UNCHANGED <<seen, frontier>>
    BY <1>2 DEF ComputeInit, Stop
  <2>2. TypeOK'
    BY <1>0, <1>1, <2>1 DEF TypeOK, Verdict
  <2>3. SearchIsSound' /\ VerdictIsJustified'
    BY <1>0, <2>1 DEF SearchIsSound, VerdictIsJustified, Verdict
  <2> QED
    BY <1>0, <2>1, <2>2, <2>3 DEF IInv
<1>3. CASE ~(job.skipInit /\ ~job.bound)
  <2>1. /\ seen' = TraceInit /\ frontier' = TraceInit
        /\ IF Broken(TraceInit) # {}
             THEN phase' = "interpret" /\ tlc' = Verdict("safety", 1)
             ELSE phase' = "search" /\ UNCHANGED tlc
    BY <1>3 DEF ComputeInit, Stop
  <2>2. TraceInit \subseteq Nodes
    BY DEF TraceInit
  <2>3. TypeOK'
    BY <1>0, <1>1, <2>1, <2>2 DEF TypeOK, Verdict, NoVerdict
  <2>4. \A n \in TraceInit : Ends(n)
    BY <1>0, InitialNodesEnd
  <2>5. SearchIsSound'
    BY <1>0, <2>1, <2>4 DEF SearchIsSound, Ends
  <2>6. CASE Broken(TraceInit) # {}
    <3>1. PICK n \in TraceInit : n[2] \notin job.invariant
      BY <2>6 DEF Broken
    <3>2. n[1] = 1 /\ Ends(n)
      BY <2>4, <3>1 DEF TraceInit
    <3>3. \E r \in [1..1 -> States] : IsRun(job, 1, r) /\ r[1] \notin job.invariant
      BY <3>1, <3>2 DEF Ends
    <3>4. tlc'.status = "safety" /\ tlc'.idx = 1
      BY <2>1, <2>6 DEF Verdict
    <3>5. VerdictIsJustified'
      BY <1>0, <3>3, <3>4 DEF VerdictIsJustified
    <3> QED
      BY <1>0, <2>1, <2>3, <2>5, <2>6, <3>5 DEF IInv
  <2>7. CASE Broken(TraceInit) = {}
    <3>1. VerdictIsJustified'
      BY <1>0, <2>1, <2>7 DEF VerdictIsJustified, NoVerdict
    <3>2. TraceInit' = TraceInit
      BY <1>0, <1>1 DEF TraceInit
    <3>3. \A n \in TraceInit : n[1] >= n[1]
      BY DEF TraceInit
    <3>4. Searching'
      BY <1>0, <2>1, <2>7, <3>2, <3>3 DEF Searching, Broken, Leads
    <3> QED
      BY <1>0, <2>1, <2>3, <2>5, <2>7, <3>1, <3>4 DEF IInv
  <2> QED
    BY <2>6, <2>7
<1> QED
  BY <1>2, <1>3

\* The three things that can happen when TLC expands a state.
LEMMA ExpandFailsInv ==
  ASSUME IInv, NEW n \in frontier, Expand(n), Incomplete(n) PROVE IInv'
<1>1. /\ phase' = "interpret" /\ tlc' = Verdict("failure", n[1])
      /\ UNCHANGED <<job, seen, frontier, answer>> /\ phase = "search"
  BY DEF Expand, Stop
<1>2. n \in Nodes /\ n[1] \in 0..TraceLen
  BY TraceLenNat, NodeParts DEF IInv, TypeOK
<1>3. TypeOK'
  BY <1>1, <1>2 DEF IInv, TypeOK, Verdict, Nodes, TraceLen
<1>4. SearchIsSound' /\ VerdictIsJustified'
  BY <1>1 DEF IInv, SearchIsSound, VerdictIsJustified, Verdict
<1> QED
  BY <1>1, <1>3, <1>4 DEF IInv

LEMMA ExpandDeadlockInv ==
  ASSUME IInv, NEW n \in frontier, Expand(n), ~Incomplete(n),
         TraceNext(n) = {}, DeadlockChecked
  PROVE  IInv'
<1>1. /\ phase' = "interpret" /\ tlc' = Verdict("deadlock", n[1])
      /\ UNCHANGED <<job, seen, frontier, answer>> /\ phase = "search"
  BY DEF Expand, Stop
<1>2. n \in Nodes /\ n[1] \in 0..TraceLen /\ Ends(n)
  BY TraceLenNat, NodeParts DEF IInv, TypeOK, SearchIsSound, Ends
<1>3. TypeOK'
  BY <1>1, <1>2 DEF IInv, TypeOK, Verdict, Nodes, TraceLen
<1>4. /\ n[1] \in 1..(TraceLen - 1) /\ Reaches(job, n[1])
      /\ job.bound => ~Reaches(job, n[1] + 1)
  BY <1>2, DeadlockIsDivergence DEF IInv
<1>5. SearchIsSound'
  BY <1>1 DEF IInv, SearchIsSound
<1>6. VerdictIsJustified'
  BY <1>1, <1>4 DEF VerdictIsJustified, Verdict, TraceLen
<1> QED
  BY <1>1, <1>3, <1>5, <1>6 DEF IInv

LEMMA ExpandGoesOnInv ==
  ASSUME IInv, NEW n \in frontier, Expand(n), ~Incomplete(n),
         TraceNext(n) # {} \/ ~DeadlockChecked
  PROVE  IInv'
<1> DEFINE fresh == TraceNext(n) \ seen
<1>1. /\ UNCHANGED <<job, answer>> /\ phase = "search"
      /\ seen' = seen \cup fresh /\ frontier' = (frontier \ {n}) \cup fresh
      /\ IF Broken(fresh) # {}
           THEN phase' = "interpret" /\ tlc' = Verdict("safety", n[1] + 1)
           ELSE UNCHANGED <<phase, tlc>>
  BY DEF Expand, Stop, DeadlockChecked
<1>2. /\ TypeOK /\ Searching /\ SearchIsSound /\ WellPosed(job) /\ tlc = NoVerdict
      /\ n \in seen /\ n \in Nodes /\ Ends(n) /\ answer = Pending
  BY <1>1 DEF IInv, TypeOK, SearchIsSound, Ends
<1>3. TraceLen \in Nat /\ n[1] \in 1..TraceLen /\ UNCHANGED <<TraceLen, Nodes>>
  BY <1>1, <1>2, TraceLenNat, NodeParts DEF TraceLen, Nodes
<1>4. /\ fresh \subseteq Nodes
      /\ \A m \in fresh : m \in Advance(n) /\ m[1] = n[1] + 1 /\ n[1] < TraceLen /\ Ends(m)
  BY <1>2, SuccessorsEnd DEF TraceNext, Done, Advance
<1>5. fresh # {} => n[1] + 1 \in 0..TraceLen
  BY <1>3, <1>4
<1>6. TypeOK'
  BY <1>1, <1>2, <1>3, <1>4, <1>5 DEF TypeOK, Broken, Verdict
<1>7. SearchIsSound'
  <2>1. \A m \in seen : Ends(m)
    BY <1>2 DEF SearchIsSound, Ends
  <2>2. \A m \in seen \cup fresh : Ends(m)
    BY <2>1, <1>4
  <2> QED
    BY <2>2, <1>1 DEF SearchIsSound, Ends
<1>8. CASE Broken(fresh) # {}
  <2>1. PICK m \in fresh : m[2] \notin job.invariant
    BY <1>8 DEF Broken
  <2>2. m[1] = n[1] + 1 /\ Ends(m)
    BY <1>4, <2>1
  <2> DEFINE k == n[1] + 1
  <2>3. \E r \in [1..k -> States] : IsRun(job, k, r) /\ r[k] \notin job.invariant
    BY <2>1, <2>2 DEF Ends
  <2>4. tlc'.status = "safety" /\ tlc'.idx = k /\ phase' = "interpret"
    BY <1>1, <1>8 DEF Verdict
  <2>5. VerdictIsJustified'
    <3> HIDE DEF k
    <3> QED
      BY <1>1, <2>3, <2>4 DEF VerdictIsJustified
  <2> QED
    BY <1>1, <1>2, <1>6, <1>7, <2>4, <2>5 DEF IInv
<1>9. CASE Broken(fresh) = {}
  <2>0. phase' = "search" /\ tlc' = NoVerdict
    BY <1>1, <1>2, <1>9
  <2>1. VerdictIsJustified'
    BY <2>0 DEF VerdictIsJustified, NoVerdict
  <2>2. /\ TraceInit' = TraceInit
        /\ \A m : TraceNext(m)' = TraceNext(m)
    BY <1>1, <1>3 DEF TraceInit, TraceNext, Advance, Done, TraceMatch
  <2>3. \A m \in seen' : m[2] \in job.invariant
    BY <1>1, <1>2, <1>9 DEF Searching, Broken
  <2>4. \A m \in seen' \ frontier' : TraceNext(m) \subseteq seen'
    BY <1>1, <1>2 DEF Searching
  <2>5. ASSUME ~job.quiet, NEW x \in seen' PROVE Leads(x)'
    <3>1. TraceNext(n) # {}
      BY <2>5 DEF DeadlockChecked
    <3>2. x \in Nodes /\ x[1] \in Nat
      BY <1>1, <1>2, <1>4, <1>3, NodeParts DEF TypeOK
    <3>3. CASE x \in fresh
      BY <1>1, <3>2, <3>3 DEF Leads
    <3>4. CASE x \in seen
      <4>1. PICK y \in seen : y[1] >= x[1] /\ (y[1] = TraceLen \/ y \in frontier)
        BY <1>2, <2>5, <3>4 DEF Searching, Leads
      <4>2. CASE y[1] = TraceLen \/ y # n
        BY <1>1, <1>3, <4>1, <4>2 DEF Leads
      <4>3. CASE y = n /\ n[1] # TraceLen
        <5>1. PICK m \in TraceNext(n) : TRUE
          BY <3>1
        <5>2. m \in Nodes /\ m[1] = n[1] + 1
          BY <4>3, <5>1 DEF TraceNext, Done, Advance
        <5>3. m[1] >= x[1]
          BY <1>3, <3>2, <4>1, <4>3, <5>2
        <5>4. CASE m \in fresh
          BY <1>1, <5>3, <5>4 DEF Leads
        <5>5. CASE m \in seen
          <6>1. PICK z \in seen : z[1] >= m[1] /\ (z[1] = TraceLen \/ z \in frontier)
            BY <1>2, <2>5, <5>5 DEF Searching, Leads
          <6>2. z \in Nodes /\ z[1] \in Nat
            BY <1>2, <1>3, <6>1, NodeParts DEF TypeOK
          <6>3. z[1] > n[1] /\ z[1] >= x[1]
            BY <1>3, <3>2, <5>2, <5>3, <6>1, <6>2
          <6>4. z # n
            BY <1>3, <6>3
          <6> QED
            BY <1>1, <1>3, <6>1, <6>3, <6>4 DEF Leads
        <5> QED
          BY <5>1, <5>4, <5>5
      <4> QED
        BY <4>2, <4>3
    <3> QED
      BY <1>1, <3>3, <3>4
  <2>6. Searching'
    BY <1>1, <1>2, <2>2, <2>3, <2>4, <2>5 DEF Searching
  <2> QED
    BY <1>1, <1>2, <1>6, <1>7, <2>0, <2>1, <2>6 DEF IInv
<1> QED
  BY <1>8, <1>9

\* When nothing is left to expand, the deepest state is a last one, and
\* every run over the trace has been seen.
LEMMA ExhaustedInv == IInv /\ Exhausted => IInv'
<1> SUFFICES ASSUME IInv, Exhausted PROVE IInv'
  OBVIOUS
<1>1. /\ phase' = "interpret" /\ tlc' = Verdict("success", 0)
      /\ UNCHANGED <<job, seen, frontier, answer>> /\ phase = "search" /\ frontier = {}
  BY DEF Exhausted, Stop
<1>2. /\ TypeOK /\ Searching /\ SearchIsSound /\ WellPosed(job) /\ answer = Pending
      /\ TraceLen \in Nat /\ TraceLen >= 1
  BY <1>1, TraceLenNat DEF IInv, WellPosed, TraceLen, TypeOK, ValidJob, JobType
<1>3. TypeOK'
  BY <1>1, <1>2 DEF TypeOK, Verdict, Nodes, TraceLen
<1>4. ASSUME seen = {} PROVE FirstStateRefused(job)
  <2>1. ASSUME NEW r \in [1..1 -> States], IsRun(job, 1, r) PROVE FALSE
    <3>1. 1 \in 1..TraceLen
      BY <1>2
    <3>2. <<1, r[1]>> \in seen
      BY <1>1, <1>2, <2>1, <3>1, AllRunsAreSeen
    <3> QED
      BY <1>4, <3>2
  <2> QED
    BY <2>1 DEF Reaches, FirstStateRefused
<1>5. ASSUME seen # {}, ~job.quiet PROVE Allowed(job)
  <2>1. PICK n \in seen : n[1] = TraceLen
    BY <1>1, <1>2, <1>5 DEF Searching, Leads
  <2>2. Ends(n)
    BY <1>2, <2>1 DEF SearchIsSound, Ends
  <2> QED
    BY <2>1, <2>2 DEF Ends, Allowed, Reaches, TraceLen
<1>6. ASSUME NEW k \in 1..TraceLen, NEW r \in [1..k -> States], IsRun(job, k, r)
      PROVE  r[k] \in job.invariant
  <2>1. <<k, r[k]>> \in seen
    BY <1>1, <1>2, <1>6, AllRunsAreSeen
  <2> QED
    BY <1>2, <2>1 DEF Searching
<1>7. Allowed(job) \/ FirstStateRefused(job) \/ job.quiet
  BY <1>4, <1>5
<1>8. VerdictIsJustified'
  BY <1>1, <1>6, <1>7 DEF VerdictIsJustified, Verdict, TraceLen
<1>9. SearchIsSound'
  BY <1>1, <1>2 DEF SearchIsSound
<1> QED
  BY <1>1, <1>2, <1>3, <1>8, <1>9 DEF IInv

LEMMA FailInv == IInv /\ Fail => IInv'
<1> SUFFICES ASSUME IInv, Fail PROVE IInv'
  OBVIOUS
<1>1. /\ phase' = "interpret" /\ tlc' = Verdict("failure", 0)
      /\ UNCHANGED <<job, seen, frontier, answer>> /\ phase \in {"init", "search"}
  BY DEF Fail, Stop
<1>2. TypeOK'
  BY <1>1, TraceLenNat DEF IInv, TypeOK, Verdict, Nodes, TraceLen
<1>3. SearchIsSound' /\ VerdictIsJustified'
  BY <1>1 DEF IInv, SearchIsSound, VerdictIsJustified, Verdict
<1> QED
  BY <1>1, <1>2, <1>3 DEF IInv

\* Returning an answer changes nothing that was found out before.
LEMMA ReturnInv ==
  ASSUME IInv, UNCHANGED <<job, seen, frontier, tlc>>, phase' = "done"
  PROVE  IInv'
<1>1. TypeOK'
  BY DEF IInv, TypeOK, Nodes, TraceLen
<1>2. SearchIsSound'
  BY DEF IInv, SearchIsSound
<1>3. VerdictIsJustified'
  BY DEF IInv, VerdictIsJustified, TraceLen
<1> QED
  BY <1>1, <1>2, <1>3 DEF IInv

LEMMA UnchangedInv == IInv /\ UNCHANGED vars => IInv'
<1> SUFFICES ASSUME IInv, UNCHANGED vars PROVE IInv'
  OBVIOUS
<1>0. UNCHANGED <<job, phase, seen, frontier, tlc, answer>>
  BY DEF vars
<1>1. TypeOK' /\ SearchIsSound' /\ VerdictIsJustified'
  BY <1>0 DEF IInv, TypeOK, Nodes, TraceLen, SearchIsSound, VerdictIsJustified
<1>2. /\ TraceInit' = TraceInit
      /\ \A m : TraceNext(m)' = TraceNext(m) /\ Leads(m)' = Leads(m)
  BY <1>0 DEF TraceInit, TraceNext, Advance, Done, TraceMatch, Nodes, TraceLen, Leads
<1>3. Searching => Searching'
  BY <1>0, <1>2 DEF Searching
<1> QED
  BY <1>0, <1>1, <1>3 DEF IInv

LEMMA NextInv == IInv /\ [Next]_vars => IInv'
<1> SUFFICES ASSUME IInv, [Next]_vars PROVE IInv'
  OBVIOUS
<1>1. ASSUME NEW n \in frontier, Expand(n) PROVE IInv'
  <2>1. CASE Incomplete(n)
    BY <1>1, <2>1, ExpandFailsInv
  <2>2. CASE ~Incomplete(n) /\ TraceNext(n) = {} /\ DeadlockChecked
    BY <1>1, <2>2, ExpandDeadlockInv
  <2>3. CASE ~Incomplete(n) /\ (TraceNext(n) # {} \/ ~DeadlockChecked)
    BY <1>1, <2>3, ExpandGoesOnInv
  <2> QED
    BY <2>1, <2>2, <2>3
<1>2. CASE CheckError \/ Interpret
  BY <1>2, ReturnInv DEF CheckError, Interpret, Return
<1>3. CASE Terminated \/ UNCHANGED vars
  BY <1>3, UnchangedInv DEF Terminated
<1> QED
  BY <1>1, <1>2, <1>3, GenModuleInv, ComputeInitInv, ExhaustedInv, FailInv DEF Next

LEMMA SpecInv == Spec => []IInv
  BY InitInv, NextInv, PTL DEF Spec
-----------------------------------------------------------------------------
\* The variables of a validation hold what Conformance and Nodes say.
THEOREM TypeCorrect == Spec => []TypeOK
<1>1. IInv => TypeOK
  BY DEF IInv
<1> QED
  BY <1>1, SpecInv, PTL

\* The generated module has no behaviour of its own: each state that TLC
\* finds ends a run of the abstract specification over the recorded states
\* (tracecheck.rs:226-393).
THEOREM GeneratedModuleIsSound == Spec => []SearchIsSound
<1>1. IInv => SearchIsSound
  BY DEF IInv
<1> QED
  BY <1>1, SpecInv, PTL

\* Success, deadlock and violation mean what tracecheck.rs:478-499 takes them
\* for, with the exceptions that VerdictIsJustified names.
THEOREM VerdictsAreJustified == Spec => []VerdictIsJustified
<1>1. IInv => VerdictIsJustified
  BY DEF IInv
<1> QED
  BY <1>1, SpecInv, PTL

LEMMA FailedIsAnAnswer == Failed \in Answers(job)
  BY DEF Answers

\* The last state of the counterexample that could be read is at or before
\* the one where the specification stops.
LEMMA DivergenceIsAnAnswer ==
  ASSUME IInv, phase = "interpret", tlc.status = "deadlock",
         NEW last \in 1..tlc.idx, NEW warned \in BOOLEAN,
         last < TraceLen, last < tlc.idx => warned
  PROVE  Divergence(job, last + 1, warned) \in Answers(job)
<1> DEFINE k == last + 1
           a == Divergence(job, k, warned)
<1>1. /\ WellPosed(job) /\ TraceLen \in Nat /\ TraceLen = Len(job.trace)
      /\ tlc.idx \in 1..(TraceLen - 1) /\ Reaches(job, tlc.idx)
      /\ job.bound => ~Reaches(job, tlc.idx + 1)
  BY TraceLenNat DEF IInv, TraceLen, VerdictIsJustified
<1>2. /\ tlc.idx \in Nat /\ tlc.idx + 1 \in 1..TraceLen
      /\ last \in 1..tlc.idx /\ k \in 2..TraceLen /\ k - 1 = last /\ k > 0
      /\ ~warned => k = tlc.idx + 1
  BY <1>1
<1>3. Reaches(job, k - 1)
  BY <1>1, <1>2, PrefixIsReached
<1>4. job.bound => ~Allowed(job)
  <2> SUFFICES ASSUME Allowed(job) PROVE Reaches(job, tlc.idx + 1)
    BY <1>1
  <2>1. Reaches(job, TraceLen)
    BY <1>1 DEF Allowed
  <2> QED
    BY <1>1, <1>2, <2>1, PrefixIsReached
<1>5. job.bound /\ ~warned => ~Reaches(job, k)
  BY <1>1, <1>2
<1> HIDE DEF k
<1>6. a.conforms = FALSE /\ a.divergedAt = k /\ a.warned = warned
  BY DEF Divergence, Report
<1>7. a \in {Divergence(job, i, w) : i \in 2..Len(job.trace), w \in BOOLEAN}
  BY <1>1, <1>2
<1> HIDE DEF a
<1>8. a \in Answers(job)
  BY <1>1, <1>2, <1>3, <1>4, <1>5, <1>6, <1>7 DEF Answers
<1> QED
  BY <1>8 DEF a, k

LEMMA ReportIsAnAnswer ==
  ASSUME IInv, Interpret PROVE answer' \in Answers(job)
<1>1. WellPosed(job) /\ VerdictIsJustified /\ phase = "interpret"
  BY DEF Interpret, IInv
<1>2. /\ Undetermined.conforms = FALSE /\ Undetermined.divergedAt = 0
      /\ Conforming.conforms = TRUE /\ Conforming.divergedAt = 0
  BY DEF Undetermined, Conforming, Report
<1>3. Undetermined \in Answers(job)
  BY <1>1, <1>2 DEF Answers
<1>4. CASE tlc.status = "success" /\ answer' = Conforming
  <2>1. Allowed(job) \/ FirstStateRefused(job) \/ job.quiet
    BY <1>1, <1>4 DEF VerdictIsJustified
  <2> QED
    BY <1>1, <1>2, <1>4, <2>1 DEF Answers
<1>5. ASSUME tlc.status = "deadlock",
             NEW last \in 1..tlc.idx, NEW warned \in BOOLEAN,
             last < TraceLen, last < tlc.idx => warned,
             answer' = Divergence(job, last + 1, warned)
      PROVE  answer' \in Answers(job)
  BY <1>1, <1>5, DivergenceIsAnAnswer
<1> QED
  BY <1>3, <1>4, <1>5 DEF Interpret, Return

\* Validate implements the oracle: one answer to the job it was given, and
\* one that the job admits, for every job, every order of the search and
\* every part of the counterexample that does not parse.
THEOREM ValidateAnswersTheQuestion == Spec => AnswersTheQuestion
<1>1. Init => O!OracleInit
  BY JobsAssumption DEF Init, O!OracleInit, O!ValidJob, ValidJob, O!JobType, JobType,
     O!Pending, Pending
<1>2. IInv /\ [Next]_vars => [O!Answer]_<<job, answer>>
  <2> SUFFICES ASSUME IInv, [Next]_vars PROVE O!Answer \/ UNCHANGED <<job, answer>>
    OBVIOUS
  <2>1. O!Answers(job) = Answers(job) /\ O!Pending = Pending
    <3>1. \A j, k, r : O!IsRun(j, k, r) <=> IsRun(j, k, r)
      BY DEF O!IsRun, IsRun, O!Starts, Starts, O!Shows, Shows, O!Admits, Admits
    <3>2. \A j, k : O!Reaches(j, k) <=> Reaches(j, k)
      BY <3>1 DEF O!Reaches, Reaches
    <3>3. \A j : /\ O!WellPosed(j) <=> WellPosed(j)
                 /\ O!Allowed(j) <=> Allowed(j)
                 /\ O!FirstStateRefused(j) <=> FirstStateRefused(j)
      BY <3>2 DEF O!WellPosed, WellPosed, O!Allowed, Allowed, O!FirstStateRefused,
         FirstStateRefused
    <3>4. /\ O!Pending = Pending /\ O!Failed = Failed
          /\ O!Undetermined = Undetermined /\ O!Conforming = Conforming
          /\ \A j, k, w : O!Divergence(j, k, w) = Divergence(j, k, w)
      BY DEF O!Pending, Pending, O!Failed, Failed, O!Undetermined, Undetermined,
         O!Conforming, Conforming, O!Divergence, Divergence, O!Report, Report
    <3> QED
      BY <3>2, <3>3, <3>4 DEF O!Answers, Answers
  <2>2. CASE UNCHANGED vars \/ Terminated \/ Fail \/ Exhausted \/ ComputeInit
             \/ \E n \in frontier : Expand(n)
    BY <2>2 DEF vars, Terminated, Fail, Exhausted, ComputeInit, Expand
  <2>3. CASE GenModule
    BY <2>1, <2>3, FailedIsAnAnswer DEF GenModule, Return, IInv, O!Answer
  <2>4. CASE CheckError
    BY <2>1, <2>4, FailedIsAnAnswer DEF CheckError, Return, IInv, O!Answer
  <2>5. CASE Interpret
    <3>1. answer' \in Answers(job)
      BY <2>5, ReportIsAnAnswer
    <3>2. answer = Pending /\ UNCHANGED job
      BY <2>5 DEF Interpret, IInv
    <3> QED
      BY <2>1, <3>1, <3>2 DEF O!Answer
  <2> QED
    BY <2>2, <2>3, <2>4, <2>5 DEF Next
<1> QED
  BY <1>1, <1>2, SpecInv, PTL DEF Spec, AnswersTheQuestion, O!OracleSpec
=============================================================================
