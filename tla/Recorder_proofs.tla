--------------------------- MODULE Recorder_proofs ---------------------------
(***************************************************************************)
(* The Recorder's invariants, what a step may do to the traces that were   *)
(* handed out, and what a recorded trace says of the implementation: for   *)
(* every set of goroutines, variables, values and actions and whatever the *)
(* bounds.                                                                 *)
(***************************************************************************)
EXTENDS Harness, SequenceTheorems, FiniteSetTheorems, TLAPS

\* The part of the invariants that is about one trace.
TraceInv(t) ==
  /\ \A j, k \in 1..Len(t.states) :
       j <= k => DOMAIN t.states[j].vars \subseteq DOMAIN t.states[k].vars
  /\ \A k \in 1..Len(t.states) : t.states[k].index = k
  /\ t.names = UNION {DOMAIN t.states[k].vars : k \in 1..Len(t.states)}

TracesInv == \A i \in 1..Len(traces) : TraceInv(traces[i])

IInv == TypeOK /\ TracesInv /\ CurIsLastState

\* Merge yields an assignment when all the updates convert, and never
\* loses a variable (recorder.go:96-110).
LEMMA MergeAssigns ==
  ASSUME NEW old \in Assignments, NEW u \in Updates, Converts(u)
  PROVE  /\ Merge(old, u) \in Assignments
         /\ DOMAIN old \subseteq DOMAIN Merge(old, u)
<1>1. PICK D \in SUBSET Variables : old \in [D -> Vals]
  BY DEF Assignments
<1>2. PICK E \in SUBSET Variables : u \in [E -> Vals \cup {Unconvertible}]
  BY DEF Updates
<1>3. \A v \in E : u[v] \in Vals
  BY <1>2 DEF Converts
<1>4. Merge(old, u) \in [D \cup E -> Vals]
  BY <1>1, <1>2, <1>3 DEF Merge
<1>5. D \cup E \in SUBSET Variables
  OBVIOUS
<1> QED
  BY <1>1, <1>4, <1>5 DEF Assignments

LEMMA EmptyAssigns == EmptyVars \in Assignments
<1>1. EmptyVars \in [{} -> Vals]
  BY DEF EmptyVars
<1> QED
  BY <1>1 DEF Assignments

\* An empty trace is well formed (trace.go:40).
LEMMA NewTraceInv == NewTrace \in TraceType /\ TraceInv(NewTrace)
<1>1. NewTrace \in TraceType
  BY EmptySeq DEF NewTrace, TraceType
<1>2. TraceInv(NewTrace)
  BY DEF NewTrace, TraceInv
<1> QED
  BY <1>1, <1>2

\* AddState keeps a trace well formed when the new assignment has the
\* variables of the last one, and only extends it (trace.go:43-57).
LEMMA AddStateInv ==
  ASSUME NEW t \in TraceType, TraceInv(t),
         NEW action \in Actions \cup {InitAction}, NEW new \in Assignments,
         t.states # <<>> => DOMAIN t.states[Len(t.states)].vars \subseteq DOMAIN new
  PROVE  LET s == AddState(t, action, new) IN
         /\ s \in TraceType
         /\ TraceInv(s)
         /\ Grows(t, s)
         /\ s.states # <<>> /\ s.states[Len(s.states)].vars = new
<1> DEFINE n == Len(t.states)
           e == [index |-> n + 1, action |-> action, vars |-> new]
           s == AddState(t, action, new)
<1>1. t.states \in Seq(StateType) /\ n \in Nat /\ t.names \in SUBSET Variables
  BY DEF TraceType
<1>2. e \in StateType
  BY <1>1 DEF StateType
<1>3. s = [names |-> t.names \cup DOMAIN new, states |-> Append(t.states, e)]
  BY DEF AddState
<1>4. /\ s.states \in Seq(StateType)
      /\ Len(s.states) = n + 1
      /\ \A k \in 1..n : s.states[k] = t.states[k]
      /\ s.states[n + 1] = e
  BY <1>1, <1>2, <1>3, AppendProperties
<1>5. DOMAIN new \in SUBSET Variables
  BY DEF Assignments
<1>6. s \in TraceType
  BY <1>1, <1>3, <1>4, <1>5 DEF TraceType
<1>7. Grows(t, s)
  BY <1>1, <1>4 DEF Grows
<1>8. s.states # <<>> /\ s.states[Len(s.states)].vars = new
  BY <1>1, <1>4
<1>9. \A j \in 1..n : DOMAIN t.states[j].vars \subseteq DOMAIN new
  BY <1>1 DEF TraceInv
<1>10. \A j, k \in 1..(n + 1) :
         j <= k => DOMAIN s.states[j].vars \subseteq DOMAIN s.states[k].vars
  <2> SUFFICES ASSUME NEW j \in 1..(n + 1), NEW k \in 1..(n + 1), j <= k
               PROVE  DOMAIN s.states[j].vars \subseteq DOMAIN s.states[k].vars
    OBVIOUS
  <2>1. CASE k \in 1..n
    <3>1. j \in 1..n
      BY <2>1, <1>1
    <3>2. DOMAIN t.states[j].vars \subseteq DOMAIN t.states[k].vars
      BY <2>1, <3>1 DEF TraceInv
    <3> HIDE DEF s
    <3> QED
      BY <2>1, <3>1, <3>2, <1>4
  <2>2. CASE k = n + 1 /\ j \in 1..n
    BY <2>2, <1>1, <1>4, <1>9
  <2>3. CASE k = n + 1 /\ j = n + 1
    BY <2>3
  <2> QED
    BY <2>1, <2>2, <2>3, <1>1
<1>11. \A k \in 1..(n + 1) : s.states[k].index = k
  BY <1>1, <1>4 DEF TraceInv
<1>12. s.names = UNION {DOMAIN s.states[k].vars : k \in 1..(n + 1)}
  <2>1. 1..(n + 1) = (1..n) \cup {n + 1}
    BY <1>1
  <2>2. {DOMAIN s.states[k].vars : k \in 1..(n + 1)} =
          {DOMAIN t.states[k].vars : k \in 1..n} \cup {DOMAIN new}
    BY <2>1, <1>4
  <2> QED
    BY <2>2, <1>3 DEF TraceInv
<1>13. TraceInv(s)
  BY <1>4, <1>10, <1>11, <1>12 DEF TraceInv
<1> QED
  BY <1>6, <1>7, <1>8, <1>13
-----------------------------------------------------------------------------
LEMMA InitInv == Init => IInv
<1> SUFFICES ASSUME Init PROVE IInv
  OBVIOUS
<1>1. traces \in Seq(TraceType) /\ Len(traces) = 1 /\ traces[1] = NewTrace
  BY NewTraceInv DEF Init
<1>2. TypeOK
  BY <1>1 DEF Init, TypeOK
<1>3. TracesInv
  BY <1>1, NewTraceInv DEF TracesInv
<1>4. CurIsLastState
  BY <1>1 DEF CurIsLastState, Init, NewTrace
<1> QED
  BY <1>2, <1>3, <1>4 DEF IInv

\* Init starts a trace of its own, even when it fails.
LEMMA RecordInitInv ==
  ASSUME IInv, NEW u \in Updates, RecordInit(u)
  PROVE  /\ IInv'
         /\ \A i \in 1..Len(traces) : traces'[i] = traces[i]
<1> DEFINE n == Len(traces)
<1>1. traces \in Seq(TraceType) /\ n \in Nat
  BY DEF IInv, TypeOK
<1>2. PICK t \in TraceType :
        /\ traces' = Append(traces, t)
        /\ TraceInv(t)
        /\ cur' \in Assignments
        /\ t.states # <<>> => cur' = t.states[Len(t.states)].vars
  <2>1. CASE Converts(u)
    <3>1. cur' \in Assignments
      BY <2>1, EmptyAssigns, MergeAssigns DEF RecordInit
    <3>2. NewTrace.states = <<>>
      BY DEF NewTrace
    <3> DEFINE t == AddState(NewTrace, InitAction, cur')
    <3>3. /\ t \in TraceType /\ TraceInv(t)
          /\ t.states[Len(t.states)].vars = cur'
      BY <3>1, <3>2, NewTraceInv, AddStateInv
    <3> QED
      BY <2>1, <3>1, <3>3 DEF RecordInit
  <2>2. CASE ~Converts(u)
    BY <2>2, EmptyAssigns, NewTraceInv DEF RecordInit, NewTrace
  <2> QED
    BY <2>1, <2>2
<1>3. /\ traces' \in Seq(TraceType) /\ Len(traces') = n + 1
      /\ \A i \in 1..n : traces'[i] = traces[i]
      /\ traces'[n + 1] = t
  BY <1>1, <1>2, AppendProperties
<1>4. tr' = n + 1
  BY DEF RecordInit
<1>5. TypeOK'
  BY <1>1, <1>2, <1>3, <1>4 DEF TypeOK
<1>6. TracesInv'
  BY <1>1, <1>2, <1>3 DEF IInv, TracesInv
<1>7. CurIsLastState'
  <2>1. cur' # Nil /\ tr' # 1
    <3>1. n >= 1
      BY <1>1 DEF IInv, TypeOK
    <3> QED
      BY <3>1, <1>1, <1>2, <1>4, RecorderAssumption
  <2>2. traces'[tr'] = t
    BY <1>3, <1>4
  <2> QED
    BY <2>1, <2>2, <1>2 DEF CurIsLastState
<1> QED
  BY <1>3, <1>5, <1>6, <1>7 DEF IInv

\* Step appends to the trace of tr and to no other.
LEMMA RecordStepInv ==
  ASSUME IInv, NEW u \in Updates, NEW a \in Actions, RecordStep(a, u)
  PROVE  /\ IInv'
         /\ \A i \in 1..Len(traces) : Grows(traces[i], traces'[i])
         /\ \A i \in 1..Len(traces) : i # tr => traces'[i] = traces[i]
<1> DEFINE t == traces[tr]
           s == AddState(t, a, cur')
<1>1. /\ traces \in Seq(TraceType) /\ tr \in 1..Len(traces) /\ Len(traces) \in Nat
      /\ t \in TraceType /\ TraceInv(t)
  BY DEF IInv, TypeOK, TracesInv
<1>2. cur \in Assignments
  BY DEF IInv, TypeOK, RecordStep
<1>3. cur' \in Assignments /\ DOMAIN cur \subseteq DOMAIN cur'
  BY <1>2, MergeAssigns DEF RecordStep
<1>4. t.states # <<>> => DOMAIN t.states[Len(t.states)].vars \subseteq DOMAIN cur'
  BY <1>3 DEF IInv, CurIsLastState
<1>5. /\ s \in TraceType /\ TraceInv(s) /\ Grows(t, s)
      /\ s.states # <<>> /\ s.states[Len(s.states)].vars = cur'
  BY <1>1, <1>3, <1>4, AddStateInv
<1>6. traces' = [traces EXCEPT ![tr] = s] /\ tr' = tr
  BY DEF RecordStep
<1>7. /\ traces' \in Seq(TraceType) /\ Len(traces') = Len(traces)
      /\ \A i \in 1..Len(traces) : traces'[i] = IF i = tr THEN s ELSE traces[i]
  BY <1>1, <1>5, <1>6, ExceptSeq
<1>8. TypeOK'
  BY <1>1, <1>3, <1>6, <1>7 DEF TypeOK
<1>9. TracesInv'
  BY <1>5, <1>7 DEF IInv, TracesInv
<1>10. CurIsLastState'
  <2>1. cur # Nil /\ cur' # Nil
    BY <1>2, <1>3, RecorderAssumption
  <2>2. tr' # 1
    BY <2>1, <1>6 DEF IInv, CurIsLastState
  <2>3. traces'[tr'] = s
    BY <1>1, <1>6, <1>7
  <2> HIDE DEF s
  <2> QED
    BY <2>1, <2>2, <2>3, <1>5 DEF CurIsLastState
<1>11. \A i \in 1..Len(traces) : Grows(traces[i], traces'[i])
  <2>1. \A i \in 1..Len(traces) : Grows(traces[i], traces[i])
    BY <1>1 DEF Grows, TraceType
  <2> QED
    BY <2>1, <1>5, <1>7
<1> QED
  BY <1>7, <1>8, <1>9, <1>10, <1>11 DEF IInv

LEMMA UnchangedInv == IInv /\ UNCHANGED vars => IInv'
  BY DEF IInv, vars, TypeOK, TracesInv, CurIsLastState

LEMMA NextInv == IInv /\ [Next]_vars => IInv'
<1> SUFFICES ASSUME IInv, [Next]_vars PROVE IInv'
  OBVIOUS
<1>1. CASE UNCHANGED vars
  BY <1>1, UnchangedInv
<1>2. CASE Next
  <2>1. PICK u \in Updates : \/ RecordInit(u)
                             \/ \E a \in Actions : RecordStep(a, u)
                             \/ RefuseStep(u)
    BY <1>2 DEF Next
  <2>2. CASE RecordInit(u)
    BY <2>2, RecordInitInv
  <2>3. CASE \E a \in Actions : RecordStep(a, u)
    BY <2>3, RecordStepInv
  <2>4. CASE RefuseStep(u)
    BY <2>4, UnchangedInv DEF RefuseStep
  <2> QED
    BY <2>1, <2>2, <2>3, <2>4
<1> QED
  BY <1>1, <1>2

LEMMA SpecInv == Spec => []IInv
  BY InitInv, NextInv, PTL DEF Spec

\* Whatever is recorded, refused or restarted, the variables hold what the
\* types in recorder.go and trace.go say.
THEOREM TypeCorrect == Spec => []TypeOK
<1>1. IInv => TypeOK
  BY DEF IInv
<1> QED
  BY <1>1, SpecInv, PTL

\* A variable that one state of a trace assigns is assigned by all the later
\* ones: what GenModule relies on (spec.go:20-22).
THEOREM AlwaysCarriedForward == Spec => []CarriedForward
<1>1. IInv => CarriedForward
  BY DEF IInv, TracesInv, TraceInv, CarriedForward
<1> QED
  BY <1>1, SpecInv, PTL

\* The assignment that the next Step merges into is that of the last state
\* of the trace it extends (recorder.go:88-119).
THEOREM AlwaysLastState == Spec => []CurIsLastState
<1>1. IInv => CurIsLastState
  BY DEF IInv
<1> QED
  BY <1>1, SpecInv, PTL

\* Index and Vars of every trace are what trace.go:17-30 says.
THEOREM AlwaysWellNumbered == Spec => []WellNumbered
<1>1. IInv => WellNumbered
  BY DEF IInv, TracesInv, TraceInv, WellNumbered
<1> QED
  BY <1>1, SpecInv, PTL

\* A trace that was handed out is only ever extended, and not any more once
\* Init has been called again (recorder.go:122-126).
THEOREM HandedOutOnlyGrow == Spec => HandlesOnlyGrow
<1> DEFINE Step == \A i \in 1..Len(traces) :
                     /\ Grows(traces[i], traces'[i])
                     /\ i # tr \/ tr' # tr => traces'[i] = traces[i]
<1>1. IInv /\ [Next]_vars => [Step]_vars
  <2> SUFFICES ASSUME IInv, Next PROVE Step \/ UNCHANGED vars
    OBVIOUS
  <2>1. \A i \in 1..Len(traces) : Grows(traces[i], traces[i])
    <3>1. \A i \in 1..Len(traces) : traces[i] \in TraceType
      BY DEF IInv, TypeOK
    <3> QED
      BY <3>1 DEF Grows, TraceType
  <2>2. PICK u \in Updates : \/ RecordInit(u)
                             \/ \E a \in Actions : RecordStep(a, u)
                             \/ RefuseStep(u)
    BY DEF Next
  <2>3. CASE RecordInit(u)
    BY <2>1, <2>3, RecordInitInv
  <2>4. CASE \E a \in Actions : RecordStep(a, u)
    <3>1. tr' = tr
      BY <2>4 DEF RecordStep
    <3> QED
      BY <2>4, <3>1, RecordStepInv
  <2>5. CASE RefuseStep(u)
    BY <2>5 DEF RefuseStep
  <2> QED
    BY <2>2, <2>3, <2>4, <2>5
<1> QED
  BY <1>1, SpecInv, PTL DEF Spec, HandlesOnlyGrow
-----------------------------------------------------------------------------
(***************************************************************************)
(* The harness.  The invariant has a part for every schedule, one for      *)
(* harnesses that record snapshots and one for those that take turns.      *)
(***************************************************************************)
States == traces[tr].states

\* What no schedule breaks: changes, records and spans are counted, and the log
\* ends with the state the implementation is in.
Counted ==
  /\ Len(log) = Len(States) + Cardinality(Unrecorded)
  /\ Len(spans) = Len(States)
  /\ log # <<>> => States # <<>> /\ cur \in ImplStates /\ log[Len(log)] = impl

\* Each value in s is one that its variable had between two places of the log.
Between(s, from, to) ==
  /\ from \in 1..Len(log) /\ to \in 1..Len(log)
  /\ \A v \in DOMAIN s : \E j \in 1..Len(log) :
       from <= j /\ j <= to /\ s[v] = log[j][v]

\* Of a harness that records whole states: what is recorded, and what has
\* been read to be recorded, are values of the time they were read in.
Real ==
  /\ \A g \in Unrecorded : \/ DOMAIN doing[g].updates = {}
                           \/ Between(doing[g].updates, doing[g].from, doing[g].to)
  /\ \A g \in At("read") : /\ doing[g].updates \in ImplStates
                           /\ Between(doing[g].updates, doing[g].from, doing[g].to)
  /\ \A i \in 1..Len(States) : /\ States[i].vars \in ImplStates
                               /\ Between(States[i].vars, spans[i].from, spans[i].to)

\* Of a harness that takes turns: one goroutine is busy; what it did not
\* touch is as it was recorded last, what it has read is as it is, and at
\* last it has read all that it touched.
OneAtATime ==
  /\ \A g, h \in Busy : g = h
  /\ At("panicked") = {}
  /\ \A g \in At("measured") : doing[g].size = Len(traces[doing[g].held].states)
  /\ \A g \in Unrecorded :
       /\ \A v \in Variables \ doing[g].touched : impl[v] = cur[v]
       /\ \A v \in DOMAIN doing[g].updates : doing[g].updates[v] = impl[v]
  /\ \A g \in At("read") : doing[g].touched \subseteq DOMAIN doing[g].updates
  /\ \A i \in 1..Len(States) : States[i].vars = log[i]

HInv == /\ IInv /\ HarnessTypeOK /\ Counted
        /\ whole => Real
        /\ serial => OneAtATime

-----------------------------------------------------------------------------
\* An empty log goes with an empty trace, and nothing left to record.
LEMMA UnrecordedFinite == IsFiniteSet(Unrecorded) /\ Cardinality(Unrecorded) \in Nat
<1>1. Unrecorded \subseteq Goroutines
  BY DEF Unrecorded, At
<1> QED
  BY <1>1, HarnessAssumption, FS_Subset, FS_CardinalityType

LEMMA StatesType ==
  ASSUME TypeOK
  PROVE  /\ traces \in Seq(TraceType) /\ tr \in 1..Len(traces) /\ Len(traces) \in Nat
         /\ States \in Seq(StateType) /\ Len(States) \in Nat
<1>1. traces \in Seq(TraceType) /\ tr \in 1..Len(traces) /\ Len(traces) \in Nat
  BY DEF TypeOK
<1>2. traces[tr] \in TraceType
  BY <1>1
<1>3. States \in Seq(StateType)
  BY <1>2 DEF TraceType, States
<1> QED
  BY <1>1, <1>3

LEMMA NothingYet ==
  ASSUME HInv, log = <<>>
  PROVE  States = <<>> /\ Unrecorded = {}
<1>1. Len(States) \in Nat /\ States \in Seq(StateType)
  BY StatesType DEF HInv, IInv
<1>2. Len(States) + Cardinality(Unrecorded) = 0
  BY DEF HInv, Counted
<1>3. Len(States) = 0 /\ Cardinality(Unrecorded) = 0
  BY <1>1, <1>2, UnrecordedFinite
<1> QED
  BY <1>1, <1>3, UnrecordedFinite, FS_EmptySet, EmptySeq

\* A whole state converts and replaces what was there (recorder.go:96-110).
LEMMA WholeStates ==
  ASSUME NEW s \in ImplStates
  PROVE  /\ s \in Updates /\ s \in Assignments /\ Converts(s)
         /\ \A old \in Assignments : Merge(old, s) = s
<1>1. s \in Updates /\ s \in Assignments
  <2>1. s \in [Variables -> Vals] /\ s \in [Variables -> Vals \cup {Unconvertible}]
    BY DEF ImplStates
  <2>2. Variables \in SUBSET Variables
    OBVIOUS
  <2> QED
    BY <2>1, <2>2 DEF Updates, Assignments
<1>2. Converts(s)
  BY RecorderAssumption DEF ImplStates, Converts
<1>3. ASSUME NEW old \in Assignments PROVE Merge(old, s) = s
  <2>1. DOMAIN old \subseteq Variables
    BY DEF Assignments
  <2> QED
    BY <2>1 DEF Merge, ImplStates
<1> QED
  BY <1>1, <1>2, <1>3

\* Init records the implementation's state as the first of a new trace.
LEMMA InitRecords ==
  ASSUME IInv, impl \in ImplStates, RecordInit(impl)
  PROVE  /\ IInv'
         /\ cur' = impl
         /\ Len(States') = 1 /\ States'[1].vars = impl /\ States' # <<>>
         /\ Len(traces') = Len(traces) + 1
         /\ \A i \in 1..Len(traces) : traces'[i] = traces[i]
<1>1. impl \in Updates /\ Converts(impl) /\ Merge(EmptyVars, impl) = impl
  BY WholeStates, EmptyAssigns
<1>2. IInv' /\ \A i \in 1..Len(traces) : traces'[i] = traces[i]
  BY <1>1, RecordInitInv
<1>3. /\ cur' = impl /\ tr' = Len(traces) + 1
      /\ traces' = Append(traces, AddState(NewTrace, InitAction, impl))
  BY <1>1 DEF RecordInit
<1>4. traces \in Seq(TraceType) /\ Len(traces) \in Nat
  BY DEF IInv, TypeOK
<1>5. traces'[tr'] = AddState(NewTrace, InitAction, impl) /\ Len(traces') = Len(traces) + 1
  BY <1>3, <1>4, AppendProperties
<1>6. AddState(NewTrace, InitAction, impl).states =
        <<[index |-> 1, action |-> InitAction, vars |-> impl]>>
  BY DEF AddState, NewTrace
<1> QED
  BY <1>2, <1>3, <1>5, <1>6 DEF States

\* Step appends what cur has become to the trace.
LEMMA StepRecords ==
  ASSUME IInv, NEW u \in Assignments, NEW a \in Actions, RecordStep(a, u)
  PROVE  /\ IInv'
         /\ cur \in Assignments /\ cur' = Merge(cur, u) /\ tr' = tr
         /\ Len(States') = Len(States) + 1 /\ States' # <<>>
         /\ \A i \in 1..Len(States) : States'[i] = States[i]
         /\ States'[Len(States) + 1].vars = cur'
         /\ Len(traces') = Len(traces)
         /\ \A i \in 1..Len(traces) : i # tr => traces'[i] = traces[i]
<1>1. u \in Updates
  BY DEF Assignments, Updates
<1>2. IInv' /\ \A i \in 1..Len(traces) : i # tr => traces'[i] = traces[i]
  BY <1>1, RecordStepInv
<1>3. /\ cur' = Merge(cur, u) /\ tr' = tr /\ cur # Nil
      /\ traces' = [traces EXCEPT ![tr] = AddState(traces[tr], a, cur')]
  BY DEF RecordStep
<1>4. /\ traces \in Seq(TraceType) /\ tr \in 1..Len(traces)
      /\ States \in Seq(StateType) /\ Len(States) \in Nat
  BY StatesType DEF IInv
<1>5. cur \in Assignments
  BY <1>3 DEF IInv, TypeOK
<1>6. Len(traces') = Len(traces) /\ States' = AddState(traces[tr], a, cur').states
  BY <1>3, <1>4 DEF States
<1>7. States' = Append(States, [index |-> Len(States) + 1, action |-> a, vars |-> cur'])
  BY <1>6 DEF AddState, States
<1>8. /\ Len(States') = Len(States) + 1
      /\ \A i \in 1..Len(States) : States'[i] = States[i]
      /\ States'[Len(States) + 1] = [index |-> Len(States) + 1, action |-> a, vars |-> cur']
  <2> DEFINE e == [index |-> Len(States) + 1, action |-> a, vars |-> cur']
  <2>1. States' = Append(States, e)
    BY <1>7
  <2> HIDE DEF e
  <2>2. /\ Len(States') = Len(States) + 1
        /\ \A i \in 1..Len(States) : States'[i] = States[i]
        /\ States'[Len(States) + 1] = e
    BY <2>1, <1>4
  <2> QED
    BY <2>2 DEF e
<1>9. States' # <<>>
  BY <1>4, <1>8
<1> QED
  BY <1>2, <1>3, <1>5, <1>6, <1>8, <1>9
-----------------------------------------------------------------------------
\* A step of one goroutine moves it in or out of those that have a change to
\* record, and moves no other.
LEMMA Moves ==
  ASSUME doing \in [Goroutines -> Doing], NEW g \in Goroutines, NEW d,
         doing' = [doing EXCEPT ![g] = d]
  PROVE  /\ d.at \in {"changed", "read"} =>
              /\ Unrecorded' = Unrecorded \cup {g}
              /\ g \notin Unrecorded => Cardinality(Unrecorded') = Cardinality(Unrecorded) + 1
         /\ d.at \notin {"changed", "read"} =>
              /\ Unrecorded' = Unrecorded \ {g}
              /\ g \in Unrecorded => Cardinality(Unrecorded') = Cardinality(Unrecorded) - 1
         /\ d.at # "rest" => Busy' = Busy \cup {g}
         /\ d.at = "rest" => Busy' = Busy \ {g}
         /\ \A p : At(p)' = IF d.at = p THEN At(p) \cup {g} ELSE At(p) \ {g}
<1>1. doing'[g] = d /\ \A h \in Goroutines \ {g} : doing'[h] = doing[h]
  OBVIOUS
<1>2. \A p : At(p)' = IF d.at = p THEN At(p) \cup {g} ELSE At(p) \ {g}
  BY <1>1 DEF At
<1>3. /\ d.at \in {"changed", "read"} => Unrecorded' = Unrecorded \cup {g}
      /\ d.at \notin {"changed", "read"} => Unrecorded' = Unrecorded \ {g}
  BY <1>1 DEF Unrecorded, At
<1>4. /\ d.at # "rest" => Busy' = Busy \cup {g}
      /\ d.at = "rest" => Busy' = Busy \ {g}
  BY <1>1 DEF Busy, At
<1> QED
  BY <1>2, <1>3, <1>4, UnrecordedFinite, FS_AddElement, FS_RemoveElement

LEMMA HarnessInitInv == HarnessInit => HInv
<1> SUFFICES ASSUME HarnessInit PROVE HInv
  OBVIOUS
<1>1. IInv /\ States = <<>> /\ Len(traces) = 1
  BY InitInv DEF HarnessInit, Init, States, NewTrace
<1>2. \A p : p # "rest" => At(p) = {}
  BY DEF HarnessInit, Resting, At
<1>3. Unrecorded = {} /\ Busy = {}
  BY <1>2 DEF Unrecorded, Busy, At, HarnessInit, Resting
<1>4. Resting \in Doing
  BY <1>1, EmptyAssigns DEF Resting, Doing
<1>5. HarnessTypeOK
  BY <1>1, <1>4, EmptySeq DEF HarnessInit, HarnessTypeOK, IInv
<1>6. Counted
  BY <1>1, <1>3, FS_EmptySet DEF Counted, HarnessInit
<1>7. Real /\ OneAtATime
  BY <1>1, <1>2, <1>3 DEF Real, OneAtATime
<1> QED
  BY <1>1, <1>5, <1>6, <1>7 DEF HInv
-----------------------------------------------------------------------------
LEMMA BeginInv ==
  ASSUME HInv, NEW g \in Goroutines, Begin(g)
  PROVE  HInv'
<1>1. /\ impl \in ImplStates /\ RecordInit(impl) /\ Unrecorded = {}
      /\ log' = <<impl>> /\ Len(log') = 1 /\ log'[1] = impl
      /\ spans' = <<[from |-> 1, to |-> 1]>> /\ Len(spans') = 1
      /\ spans'[1].from = 1 /\ spans'[1].to = 1
      /\ UNCHANGED <<impl, doing, serial, whole>>
  BY DEF HInv, HarnessTypeOK, Begin
<1>2. /\ IInv' /\ cur' = impl
      /\ Len(States') = 1 /\ States'[1].vars = impl /\ States' # <<>>
      /\ Len(traces') = Len(traces) + 1
  BY <1>1, InitRecords DEF HInv
<1>3. /\ Unrecorded' = {} /\ Busy' = Busy /\ \A p : At(p)' = At(p)
  BY <1>1 DEF Unrecorded, Busy, At
<1>4. HarnessTypeOK'
  <2>1. Len(traces) \in Nat
    BY StatesType DEF HInv, IInv
  <2>2. Doing \subseteq Doing'
    BY <1>2, <2>1 DEF Doing
  <2>3. <<impl>> \in Seq(ImplStates) /\ spans' \in Seq([from: Nat, to: Nat])
    BY <1>1
  <2>4. doing \in [Goroutines -> Doing]
    BY DEF HInv, HarnessTypeOK
  <2>5. doing' \in [Goroutines -> Doing']
    BY <1>1, <2>2, <2>4
  <2> QED
    BY <1>1, <1>2, <2>3, <2>5 DEF HInv, HarnessTypeOK, IInv, ImplStates
<1>5. Counted'
  BY <1>1, <1>2, <1>3, FS_EmptySet DEF Counted, ImplStates
<1>6. Real'
  <2>1. Between(impl, 1, 1)'
    BY <1>1 DEF Between
  <2>2. \A i \in 1..Len(States') : i = 1
    BY <1>2
  <2>3. At("read")' = {}
    BY <1>3 DEF Unrecorded
  <2> QED
    BY <1>1, <1>2, <1>3, <2>1, <2>2, <2>3 DEF Real, ImplStates
<1>7. ASSUME serial' PROVE OneAtATime'
  <2>1. Busy = {} /\ At("measured") = {} /\ At("panicked") = {} /\ At("read") = {}
    BY <1>1, <1>7 DEF Begin, MayBegin, Busy, At
  <2> QED
    BY <1>1, <1>2, <1>3, <2>1 DEF OneAtATime
<1> QED
  BY <1>1, <1>2, <1>4, <1>5, <1>6, <1>7 DEF HInv

\* The facts a change leaves alone: the Recorder's state.
LEMMA ChangeInv ==
  ASSUME HInv, NEW g \in Goroutines, NEW new \in ImplStates, Change(g, new)
  PROVE  HInv'
<1> DEFINE d == [Resting EXCEPT !.at = "changed",
                                !.touched = {v \in Variables : new[v] # impl[v]}]
<1>1. /\ doing[g].at = "rest" /\ (serial => Busy = {}) /\ log # <<>>
      /\ impl' = new /\ log' = Append(log, new)
      /\ UNCHANGED <<vars, spans, serial, whole>>
  BY DEF Change, MayBegin
<1>2. /\ log \in Seq(ImplStates) /\ Len(log) \in Nat /\ impl \in ImplStates
      /\ doing \in [Goroutines -> Doing]
  BY DEF HInv, HarnessTypeOK
<1>3. doing' = [doing EXCEPT ![g] = d]
  BY <1>2 DEF Change
<1>4. /\ d \in Doing /\ d.at = "changed" /\ DOMAIN d.updates = {}
      /\ d.touched = {v \in Variables : new[v] # impl[v]}
  <2>1. 1 \in 1..Len(traces)
    BY StatesType DEF HInv, IInv
  <2> QED
    BY <2>1, EmptyAssigns DEF Doing, Resting, EmptyVars
<1> HIDE DEF d
<1>5. /\ IInv' /\ States' = States /\ cur' = cur /\ traces' = traces /\ tr' = tr
  BY <1>1, UnchangedInv DEF HInv, vars, States
<1>6. g \notin Unrecorded /\ g \notin At("read")
  BY <1>1 DEF Unrecorded, At
<1>7. /\ Unrecorded' = Unrecorded \cup {g}
      /\ Cardinality(Unrecorded') = Cardinality(Unrecorded) + 1
      /\ Busy' = Busy \cup {g}
      /\ \A p : p # "changed" => At(p)' = At(p) \ {g}
  BY <1>2, <1>3, <1>4, <1>6, Moves
<1>8. /\ Len(log') = Len(log) + 1 /\ log' \in Seq(ImplStates)
      /\ \A j \in 1..Len(log) : log'[j] = log[j]
      /\ log'[Len(log')] = new
  BY <1>1, <1>2, AppendProperties
<1>9. Len(States) \in Nat /\ Cardinality(Unrecorded) \in Nat
  BY StatesType, UnrecordedFinite DEF HInv, IInv
<1>10. HarnessTypeOK'
  <2>1. doing' \in [Goroutines -> Doing'] /\ Doing' = Doing
    BY <1>2, <1>3, <1>4, <1>5 DEF Doing
  <2> QED
    BY <1>1, <1>5, <1>8, <2>1 DEF HInv, HarnessTypeOK, IInv, ImplStates
<1>11. Counted'
  <2>1. Len(log') = Len(States') + Cardinality(Unrecorded')
    BY <1>5, <1>7, <1>8, <1>9 DEF HInv, Counted
  <2>2. States' # <<>> /\ cur' \in ImplStates'
    BY <1>1, <1>5 DEF HInv, Counted, ImplStates
  <2>3. log'[Len(log')] = impl'
    BY <1>1, <1>8
  <2>4. Len(spans') = Len(States')
    BY <1>1, <1>5 DEF HInv, Counted
  <2> QED
    BY <2>1, <2>2, <2>3, <2>4 DEF Counted
<1>12. ASSUME whole' PROVE Real'
  <2> DEFINE Then(x, from, to) ==
               /\ from \in 1..Len(log') /\ to \in 1..Len(log')
               /\ \A v \in DOMAIN x : \E j \in 1..Len(log') :
                    from <= j /\ j <= to /\ x[v] = log'[j][v]
  <2>1. Real /\ Len(spans') = Len(States')
    BY <1>1, <1>5, <1>12 DEF HInv, Counted
  <2>2. ASSUME NEW x, NEW from, NEW to, Between(x, from, to) PROVE Then(x, from, to)
    BY <1>2, <1>8, <2>2 DEF Between
  <2> HIDE DEF Then
  <2>3. \A h \in Unrecorded' : h # g => h \in Unrecorded /\ doing'[h] = doing[h]
    BY <1>2, <1>3, <1>7 DEF Unrecorded, At
  <2>4. \A h \in At("read")' : h # g /\ h \in At("read") /\ doing'[h] = doing[h]
    BY <1>2, <1>3, <1>6, <1>7 DEF At
  <2>5. doing'[g] = d
    BY <1>2, <1>3
  <2>6. \A h \in Unrecorded' : \/ DOMAIN doing'[h].updates = {}
                              \/ Then(doing'[h].updates, doing'[h].from, doing'[h].to)
    BY <1>4, <2>1, <2>2, <2>3, <2>5 DEF Real
  <2>7. \A h \in At("read")' :
          doing'[h].updates \in ImplStates /\ Then(doing'[h].updates, doing'[h].from, doing'[h].to)
    BY <2>1, <2>2, <2>4 DEF Real
  <2>8. \A i \in 1..Len(States') :
          States'[i].vars \in ImplStates /\ Then(States'[i].vars, spans'[i].from, spans'[i].to)
    BY <1>1, <1>5, <2>1, <2>2 DEF Real
  <2> QED
    BY <2>6, <2>7, <2>8 DEF Real, Between, Then, ImplStates
<1>13. ASSUME serial' PROVE OneAtATime'
  <2>1. OneAtATime /\ Busy = {}
    BY <1>1, <1>13 DEF HInv
  <2>2. /\ Busy' = {g} /\ Unrecorded' \subseteq {g}
        /\ At("read")' = {} /\ At("measured")' = {} /\ At("panicked")' = {}
    <3>1. Unrecorded = {} /\ At("read") = {} /\ At("measured") = {} /\ At("panicked") = {}
      BY <2>1 DEF Busy, Unrecorded, At
    <3> QED
      BY <1>7, <2>1, <3>1
  <2>3. cur = impl /\ Len(log) = Len(States)
    <3>1. Unrecorded = {}
      BY <2>1 DEF Unrecorded, Busy, At
    <3>2. Len(log) = Len(States) /\ log[Len(log)] = impl /\ States # <<>>
      BY <1>1, <1>9, <3>1, FS_EmptySet DEF HInv, Counted
    <3>3. Len(States) \in 1..Len(States)
      BY <1>9, <3>2, StatesType, EmptySeq DEF HInv, IInv
    <3>4. States[Len(States)].vars = cur
      BY <3>2 DEF HInv, IInv, CurIsLastState, States
    <3> QED
      BY <2>1, <3>2, <3>3, <3>4 DEF OneAtATime
  <2>4. doing'[g] = d
    BY <1>2, <1>3
  <2>5. \A v \in Variables \ d.touched : new[v] = cur[v]
    BY <1>4, <2>3
  <2> QED
    BY <1>1, <1>4, <1>5, <1>8, <1>9, <2>1, <2>2, <2>3, <2>4, <2>5 DEF OneAtATime
<1> QED
  BY <1>1, <1>5, <1>10, <1>11, <1>12, <1>13 DEF HInv

LEMMA ReadInv ==
  ASSUME HInv, NEW g \in Goroutines, NEW v \in Variables, Read(g, v)
  PROVE  HInv'
<1> DEFINE known == doing[g].updates
           got == [w \in DOMAIN known \cup {v} |-> IF w = v THEN impl[v] ELSE known[w]]
           place == IF DOMAIN got = Shown(g) THEN "read" ELSE "changed"
           since == IF DOMAIN known = {} THEN Len(log) ELSE doing[g].from
           d == [doing[g] EXCEPT !.at = place, !.updates = got, !.from = since, !.to = Len(log)]
<1>1. /\ doing[g].at = "changed" /\ UNCHANGED <<vars, impl, log, spans, serial, whole>>
      /\ v \in Shown(g) \ DOMAIN known
  BY DEF Read
<1>2. /\ log \in Seq(ImplStates) /\ Len(log) \in Nat /\ impl \in ImplStates
      /\ doing \in [Goroutines -> Doing] /\ doing[g] \in Doing
  BY DEF HInv, HarnessTypeOK
<1>3. doing' = [doing EXCEPT ![g] = d]
  BY <1>2 DEF Read
<1>4. known \in Assignments /\ DOMAIN known \subseteq Variables /\ doing[g].from \in Nat
  BY <1>2 DEF Doing, Assignments
<1>5. got \in Assignments
  <2>1. \A w \in DOMAIN known : known[w] \in Vals
    BY <1>4 DEF Assignments
  <2>2. impl[v] \in Vals
    BY <1>2 DEF ImplStates
  <2>3. got \in [DOMAIN known \cup {v} -> Vals]
    BY <2>1, <2>2
  <2>4. DOMAIN known \cup {v} \in SUBSET Variables
    BY <1>4
  <2> HIDE DEF got, known
  <2> QED
    BY <2>3, <2>4 DEF Assignments
<1>6. /\ DOMAIN got = DOMAIN known \cup {v} /\ got[v] = impl[v]
      /\ \A w \in DOMAIN known : got[w] = known[w]
  BY <1>1
<1>7. place \in {"changed", "read"} /\ (place = "read" => DOMAIN got = Shown(g)) /\ since \in Nat
  BY <1>2, <1>4
<1> HIDE DEF got, known, place, since
<1>8. /\ d \in Doing /\ d.at = place /\ d.touched = doing[g].touched
      /\ d.updates = got /\ d.from = since /\ d.to = Len(log)
  BY <1>2, <1>5, <1>7 DEF Doing
<1> HIDE DEF d
<1>9. /\ IInv' /\ States' = States /\ cur' = cur /\ traces' = traces /\ tr' = tr
  BY <1>1, UnchangedInv DEF HInv, vars, States
<1>10. g \in Unrecorded /\ g \in Busy /\ g \notin At("measured") /\ g \notin At("panicked")
  BY <1>1 DEF Unrecorded, At, Busy
<1>11. /\ Unrecorded' = Unrecorded /\ Busy' = Busy
       /\ At("read")' \subseteq At("read") \cup {g}
       /\ g \in At("read")' => place = "read"
       /\ At("measured")' = At("measured") /\ At("panicked")' = At("panicked")
  <2>1. /\ Unrecorded' = Unrecorded \cup {g} /\ Busy' = Busy \cup {g}
        /\ \A p : At(p)' = IF place = p THEN At(p) \cup {g} ELSE At(p) \ {g}
    BY <1>2, <1>3, <1>7, <1>8, Moves
  <2>2. /\ At("read")' = IF place = "read" THEN At("read") \cup {g} ELSE At("read") \ {g}
        /\ At("measured")' = IF place = "measured" THEN At("measured") \cup {g}
                                                  ELSE At("measured") \ {g}
        /\ At("panicked")' = IF place = "panicked" THEN At("panicked") \cup {g}
                                                  ELSE At("panicked") \ {g}
    BY <2>1
  <2> QED
    BY <1>7, <1>10, <2>1, <2>2
<1>12. doing'[g] = d /\ \A h \in Goroutines \ {g} : doing'[h] = doing[h]
  BY <1>2, <1>3
<1>13. log # <<>> /\ Len(log) \in 1..Len(log)
  <2>1. log # <<>>
    BY <1>10, NothingYet
  <2> QED
    BY <1>2, <2>1, EmptySeq
<1>14. HarnessTypeOK'
  <2>1. doing' \in [Goroutines -> Doing'] /\ Doing' = Doing
    BY <1>2, <1>3, <1>8, <1>9 DEF Doing
  <2> QED
    BY <1>1, <1>9, <2>1 DEF HInv, HarnessTypeOK, IInv, ImplStates
<1>15. Counted'
  BY <1>1, <1>9, <1>11 DEF HInv, Counted, ImplStates
<1>16. ASSUME whole' PROVE Real'
  <2>1. Real /\ Shown(g) = Variables
    BY <1>1, <1>16 DEF HInv, Shown
  <2>2. \A x, from, to : Between(x, from, to)' <=> Between(x, from, to)
    BY <1>1 DEF Between
  <2>3. Between(got, since, Len(log))
    <3>1. log[Len(log)] = impl
      BY <1>13 DEF HInv, Counted
    <3>2. DOMAIN known # {} =>
            /\ since \in 1..Len(log) /\ doing[g].to \in 1..Len(log)
            /\ \A w \in DOMAIN known : \E j \in 1..Len(log) :
                 since <= j /\ j <= doing[g].to /\ known[w] = log[j][w]
      BY <1>10, <2>1 DEF Real, Between, since, known
    <3>3. since \in 1..Len(log)
      BY <1>13, <3>2 DEF since
    <3>4. \A w \in DOMAIN known : \E j \in 1..Len(log) :
            since <= j /\ j <= Len(log) /\ got[w] = log[j][w]
      BY <1>2, <1>6, <3>2
    <3>5. since <= Len(log) /\ got[v] = log[Len(log)][v]
      BY <1>2, <1>6, <3>1, <3>3
    <3> QED
      BY <1>2, <1>6, <1>13, <3>3, <3>4, <3>5 DEF Between
  <2>4. place = "read" => got \in ImplStates
    BY <1>5, <1>7, <2>1 DEF Assignments, ImplStates
  <2>5. \A h \in At("read")' : h # g => h \in At("read") /\ doing'[h] = doing[h]
    BY <1>11, <1>12 DEF At
  <2>6. \A h \in Unrecorded' : h # g => h \in Unrecorded /\ doing'[h] = doing[h]
    BY <1>11, <1>12 DEF Unrecorded, At
  <2>7. \A h \in Unrecorded' : \/ DOMAIN doing'[h].updates = {}
                              \/ Between(doing'[h].updates, doing'[h].from, doing'[h].to)
    BY <1>8, <1>12, <2>1, <2>3, <2>6 DEF Real
  <2>8. \A h \in At("read")' :
          doing'[h].updates \in ImplStates /\ Between(doing'[h].updates, doing'[h].from, doing'[h].to)
    BY <1>8, <1>11, <1>12, <2>1, <2>3, <2>4, <2>5 DEF Real
  <2> QED
    BY <1>1, <1>9, <2>1, <2>2, <2>7, <2>8 DEF Real, ImplStates
<1>17. ASSUME serial' PROVE OneAtATime'
  <2>1. OneAtATime
    BY <1>1, <1>17 DEF HInv
  <2>2. \A h \in Busy : h = g
    BY <1>10, <2>1 DEF OneAtATime
  <2>3. Unrecorded \subseteq Busy /\ At("read") \subseteq Busy /\ At("measured") \subseteq Busy
    BY DEF Unrecorded, Busy, At
  <2>4. At("measured") = {}
    BY <1>10, <2>2, <2>3
  <2>5. \A w \in Variables \ d.touched : impl[w] = cur[w]
    BY <1>8, <1>10, <2>1 DEF OneAtATime
  <2>6. \A w \in DOMAIN d.updates : d.updates[w] = impl[w]
    <3>1. \A w \in DOMAIN known : known[w] = impl[w]
      BY <1>10, <2>1 DEF OneAtATime, known
    <3> QED
      BY <1>6, <1>8, <3>1
  <2>7. place = "read" => d.touched \subseteq DOMAIN d.updates
    BY <1>2, <1>7, <1>8 DEF Shown, Doing
  <2> QED
    BY <1>1, <1>9, <1>11, <1>12, <2>1, <2>2, <2>3, <2>4, <2>5, <2>6, <2>7 DEF OneAtATime
<1> QED
  BY <1>1, <1>9, <1>14, <1>15, <1>16, <1>17 DEF HInv

LEMMA RecordInv ==
  ASSUME HInv, NEW g \in Goroutines, NEW a \in Actions, Record(g, a)
  PROVE  HInv'
<1> DEFINE u == doing[g].updates
<1>1. /\ doing[g].at = "read" /\ RecordStep(a, u) /\ UNCHANGED <<impl, log, serial, whole>>
      /\ doing' = [doing EXCEPT ![g] = Resting]
      /\ spans' = Append(spans, [from |-> doing[g].from, to |-> doing[g].to])
  BY DEF Record
<1>2. /\ log \in Seq(ImplStates) /\ Len(log) \in Nat /\ impl \in ImplStates
      /\ doing \in [Goroutines -> Doing] /\ doing[g] \in Doing
  BY DEF HInv, HarnessTypeOK
<1>3. u \in Assignments
  BY <1>2 DEF Doing
<1> HIDE DEF u
<1>4. /\ IInv' /\ cur' = Merge(cur, u) /\ tr' = tr
      /\ Len(States') = Len(States) + 1 /\ States' # <<>>
      /\ \A i \in 1..Len(States) : States'[i] = States[i]
      /\ States'[Len(States) + 1].vars = cur'
      /\ Len(traces') = Len(traces)
  BY <1>1, <1>3, StepRecords DEF HInv
<1>5. Len(States) \in Nat /\ Len(traces) \in Nat /\ 1 \in 1..Len(traces)
      /\ Cardinality(Unrecorded) \in Nat
  BY StatesType, UnrecordedFinite DEF HInv, IInv
<1>6. g \in Unrecorded /\ g \in Busy /\ g \in At("read")
  BY <1>1 DEF Unrecorded, At, Busy
<1>7. /\ Unrecorded' = Unrecorded \ {g}
      /\ Cardinality(Unrecorded') = Cardinality(Unrecorded) - 1
      /\ Busy' = Busy \ {g}
  <2>1. Resting.at = "rest"
    BY DEF Resting
  <2> HIDE DEF Resting
  <2> QED
    BY <1>1, <1>2, <1>6, <2>1, Moves
<1>8. doing'[g] = Resting /\ \A h \in Goroutines \ {g} : doing'[h] = doing[h]
  BY <1>1, <1>2
<1>9. log # <<>>
  BY <1>6, NothingYet
<1>10. /\ Len(spans') = Len(States') /\ [from |-> doing[g].from, to |-> doing[g].to] \in [from: Nat, to: Nat]
       /\ \A i \in 1..Len(States) : spans'[i] = spans[i]
       /\ spans'[Len(States) + 1].from = doing[g].from
       /\ spans'[Len(States) + 1].to = doing[g].to
  <2> DEFINE e == [from |-> doing[g].from, to |-> doing[g].to]
  <2>1. e \in [from: Nat, to: Nat] /\ e.from = doing[g].from /\ e.to = doing[g].to
    BY <1>2 DEF Doing
  <2>2. spans' = Append(spans, e)
    BY <1>1
  <2>3. spans \in Seq([from: Nat, to: Nat]) /\ Len(spans) = Len(States)
    BY DEF HInv, HarnessTypeOK, Counted
  <2> HIDE DEF e
  <2>4. /\ Len(spans') = Len(spans) + 1 /\ spans'[Len(spans) + 1] = e
        /\ \A i \in 1..Len(spans) : spans'[i] = spans[i]
    BY <2>1, <2>2, <2>3, AppendProperties
  <2> QED
    BY <1>4, <2>1, <2>3, <2>4 DEF e
<1>11. HarnessTypeOK'
  <2>1. Resting \in Doing
    BY <1>5, EmptyAssigns DEF Resting, Doing
  <2>2. doing' \in [Goroutines -> Doing'] /\ Doing' = Doing
    BY <1>1, <1>2, <1>4, <2>1 DEF Doing
  <2>3. spans' \in Seq([from: Nat, to: Nat])
    BY <1>1, <1>10 DEF HInv, HarnessTypeOK
  <2> QED
    BY <1>1, <1>4, <2>2, <2>3 DEF HInv, HarnessTypeOK, IInv, ImplStates
<1>12. Counted'
  <2>1. Len(log') = Len(States') + Cardinality(Unrecorded')
    BY <1>1, <1>4, <1>5, <1>7 DEF HInv, Counted
  <2>2. cur \in ImplStates
    BY <1>9 DEF HInv, Counted
  <2>3. cur \in Assignments /\ u \in Updates /\ Converts(u) /\ DOMAIN u \subseteq Variables
    BY <1>1, <1>3, <2>2, WholeStates DEF RecordStep, Assignments, Updates
  <2>4. Merge(cur, u) \in ImplStates
    <3>1. Merge(cur, u) \in Assignments
      BY <2>3, MergeAssigns
    <3>2. DOMAIN Merge(cur, u) = Variables
      BY <2>2, <2>3 DEF Merge, ImplStates
    <3> QED
      BY <3>1, <3>2 DEF Assignments, ImplStates
  <2> QED
    BY <1>1, <1>4, <1>9, <1>10, <2>1, <2>4 DEF HInv, Counted, ImplStates
<1>13. ASSUME whole' PROVE Real'
  <2>1. Real
    BY <1>1, <1>13 DEF HInv
  <2>2. u \in ImplStates /\ Between(u, doing[g].from, doing[g].to)
    BY <1>6, <2>1 DEF Real, u
  <2>3. cur' = u
    <3>1. cur \in Assignments
      BY <1>1, <1>3, StepRecords DEF HInv
    <3> QED
      BY <1>4, <2>2, <3>1, WholeStates
  <2>4. \A i \in 1..Len(States') :
          States'[i].vars \in ImplStates /\ Between(States'[i].vars, spans'[i].from, spans'[i].to)
    <3> SUFFICES ASSUME NEW i \in 1..Len(States')
                 PROVE  States'[i].vars \in ImplStates
                        /\ Between(States'[i].vars, spans'[i].from, spans'[i].to)
      OBVIOUS
    <3>1. CASE i \in 1..Len(States)
      BY <1>4, <1>10, <2>1, <3>1 DEF Real
    <3>2. CASE i = Len(States) + 1
      BY <1>4, <1>10, <2>2, <2>3, <3>2
    <3> QED
      BY <1>4, <1>5, <3>1, <3>2
  <2>5. \A h \in Unrecorded' : h \in Unrecorded /\ doing'[h] = doing[h]
    BY <1>7, <1>8 DEF Unrecorded, At
  <2>6. \A h \in At("read")' : h \in At("read") /\ doing'[h] = doing[h]
    BY <1>8 DEF At, Resting
  <2>7. \A x, from, to : Between(x, from, to)' <=> Between(x, from, to)
    BY <1>1 DEF Between
  <2> QED
    BY <1>1, <2>1, <2>4, <2>5, <2>6, <2>7 DEF Real, ImplStates
<1>14. ASSUME serial' PROVE OneAtATime'
  <2>1. OneAtATime
    BY <1>1, <1>14 DEF HInv
  <2>2. Busy = {g} /\ Busy' = {}
    BY <1>6, <1>7, <2>1 DEF OneAtATime
  <2>3. /\ Unrecorded' = {} /\ At("read")' = {}
        /\ At("measured")' = {} /\ At("panicked")' = {}
    BY <2>2 DEF Unrecorded, Busy, At
  <2>4. Unrecorded = {g} /\ Len(log) = Len(States) + 1
    <3>1. Unrecorded = {g}
      BY <1>6, <2>2 DEF Unrecorded, Busy, At
    <3> QED
      BY <3>1, FS_Singleton DEF HInv, Counted
  <2>5. cur' = impl
    <3>1. /\ \A v \in Variables \ DOMAIN u : impl[v] = cur[v]
          /\ \A v \in DOMAIN u : u[v] = impl[v]
      BY <1>6, <2>1 DEF OneAtATime, u
    <3>2. cur \in ImplStates /\ DOMAIN u \subseteq Variables
      BY <1>3, <1>9 DEF HInv, Counted, Assignments
    <3>3. Merge(cur, u) = [v \in Variables |-> impl[v]]
      BY <3>1, <3>2 DEF Merge, ImplStates
    <3> QED
      BY <1>2, <1>4, <3>3 DEF ImplStates
  <2>6. log[Len(States) + 1] = impl
    BY <1>9, <2>4 DEF HInv, Counted
  <2>7. \A i \in 1..Len(States') : States'[i].vars = log'[i]
    BY <1>1, <1>4, <1>5, <2>1, <2>5, <2>6 DEF OneAtATime
  <2> QED
    BY <2>2, <2>3, <2>7 DEF OneAtATime
<1> QED
  BY <1>1, <1>4, <1>11, <1>12, <1>13, <1>14 DEF HInv

LEMMA MeasureInv ==
  ASSUME HInv, NEW g \in Goroutines, Measure(g)
  PROVE  HInv'
<1> DEFINE d == [doing[g] EXCEPT !.at = "measured", !.held = tr, !.size = Len(States)]
<1>1. /\ doing[g].at = "rest" /\ (serial => Busy = {})
      /\ UNCHANGED <<vars, impl, log, spans, serial, whole>>
  BY DEF Measure, MayBegin
<1>2. doing \in [Goroutines -> Doing] /\ doing[g] \in Doing
  BY DEF HInv, HarnessTypeOK
<1>3. tr \in 1..Len(traces) /\ Len(States) \in Nat
  BY StatesType DEF HInv, IInv
<1>4. doing' = [doing EXCEPT ![g] = d]
  BY <1>2 DEF Measure, States
<1>5. d \in Doing /\ d.at = "measured" /\ d.held = tr /\ d.size = Len(States)
  BY <1>2, <1>3 DEF Doing
<1> HIDE DEF d
<1>6. /\ IInv' /\ States' = States /\ cur' = cur /\ traces' = traces /\ tr' = tr
  BY <1>1, UnchangedInv DEF HInv, vars, States
<1>7. doing'[g] = d /\ \A h \in Goroutines \ {g} : doing'[h] = doing[h]
  BY <1>2, <1>4
<1>8. /\ Unrecorded' = Unrecorded /\ At("read")' = At("read")
      /\ Busy' = Busy \cup {g}
      /\ At("measured")' = At("measured") \cup {g} /\ At("panicked")' = At("panicked") \ {g}
  <2>1. g \notin Unrecorded /\ g \notin At("read")
    BY <1>1 DEF Unrecorded, At
  <2>2. /\ Unrecorded' = Unrecorded \ {g} /\ Busy' = Busy \cup {g}
        /\ \A p : At(p)' = IF d.at = p THEN At(p) \cup {g} ELSE At(p) \ {g}
    <3>1. d.at \notin {"changed", "read"} /\ d.at # "rest"
      BY <1>5
    <3> QED
      BY <1>2, <1>4, <3>1, Moves
  <2>3. /\ At("read")' = At("read") \ {g}
        /\ At("measured")' = At("measured") \cup {g} /\ At("panicked")' = At("panicked") \ {g}
    BY <1>5, <2>2
  <2> QED
    BY <2>1, <2>2, <2>3
<1>9. HarnessTypeOK'
  <2>1. doing' \in [Goroutines -> Doing'] /\ Doing' = Doing
    BY <1>2, <1>4, <1>5, <1>6 DEF Doing
  <2> QED
    BY <1>1, <1>6, <2>1 DEF HInv, HarnessTypeOK, IInv, ImplStates
<1>10. Counted'
  BY <1>1, <1>6, <1>8 DEF HInv, Counted, ImplStates
<1>11. ASSUME whole' PROVE Real'
  <2>1. \A h \in Unrecorded : doing'[h] = doing[h]
    BY <1>1, <1>7 DEF Unrecorded, At
  <2>2. \A x, from, to : Between(x, from, to)' <=> Between(x, from, to)
    BY <1>1 DEF Between
  <2>3. At("read") \subseteq Unrecorded
    BY DEF Unrecorded
  <2> QED
    BY <1>1, <1>6, <1>8, <1>11, <2>1, <2>2, <2>3 DEF HInv, Real, ImplStates
<1>12. ASSUME serial' PROVE OneAtATime'
  <2>1. OneAtATime /\ Busy = {}
    BY <1>1, <1>12 DEF HInv
  <2>2. Unrecorded = {} /\ At("read") = {} /\ At("measured") = {} /\ At("panicked") = {}
    BY <2>1 DEF Unrecorded, Busy, At
  <2>3. doing'[g].size = Len(traces'[doing'[g].held].states)
    BY <1>5, <1>6, <1>7 DEF States
  <2>4. \A i \in 1..Len(States') : States'[i].vars = log'[i]
    BY <1>1, <1>6, <2>1 DEF OneAtATime
  <2> QED
    BY <1>8, <2>1, <2>2, <2>3, <2>4 DEF OneAtATime
<1> QED
  BY <1>1, <1>6, <1>9, <1>10, <1>11, <1>12 DEF HInv

LEMMA GenerateInv ==
  ASSUME HInv, NEW g \in Goroutines, Generate(g)
  PROVE  HInv'
<1> DEFINE d == [doing[g] EXCEPT !.at = "panicked"]
           grown == Len(traces[doing[g].held].states) > doing[g].size
<1>1. doing[g].at = "measured" /\ UNCHANGED <<vars, impl, log, spans, serial, whole>>
  BY DEF Generate
<1>2. doing \in [Goroutines -> Doing] /\ doing[g] \in Doing
  BY DEF HInv, HarnessTypeOK
<1>3. doing' = IF grown THEN [doing EXCEPT ![g] = d] ELSE [doing EXCEPT ![g] = Resting]
  BY <1>2 DEF Generate
<1>4. d \in Doing /\ d.at = "panicked"
  BY <1>2 DEF Doing
<1>5. Resting \in Doing /\ Resting.at = "rest"
  <2>1. 1 \in 1..Len(traces)
    BY StatesType DEF HInv, IInv
  <2> QED
    BY <2>1, EmptyAssigns DEF Resting, Doing
<1> HIDE DEF d, grown, Resting
<1>6. /\ IInv' /\ States' = States /\ cur' = cur /\ traces' = traces /\ tr' = tr
  BY <1>1, UnchangedInv DEF HInv, vars, States
<1>7. PICK e \in {d, Resting} : doing' = [doing EXCEPT ![g] = e] /\ (~grown => e = Resting)
  BY <1>3
<1>8. doing'[g] = e /\ \A h \in Goroutines \ {g} : doing'[h] = doing[h]
  BY <1>2, <1>7
<1>9. e \in Doing /\ e.at \in {"panicked", "rest"}
  BY <1>4, <1>5
<1>10. Unrecorded' = Unrecorded /\ At("read")' = At("read")
  <2>1. g \notin Unrecorded /\ g \notin At("read")
    BY <1>1 DEF Unrecorded, At
  <2>2. /\ Unrecorded' = Unrecorded \ {g}
        /\ \A p : At(p)' = IF e.at = p THEN At(p) \cup {g} ELSE At(p) \ {g}
    BY <1>2, <1>7, <1>9, Moves
  <2>3. At("read")' = At("read") \ {g}
    BY <1>9, <2>2
  <2> QED
    BY <2>1, <2>2, <2>3
<1>11. HarnessTypeOK'
  <2>1. doing' \in [Goroutines -> Doing'] /\ Doing' = Doing
    BY <1>2, <1>6, <1>7, <1>9 DEF Doing
  <2> QED
    BY <1>1, <1>6, <2>1 DEF HInv, HarnessTypeOK, IInv, ImplStates
<1>12. Counted'
  BY <1>1, <1>6, <1>10 DEF HInv, Counted, ImplStates
<1>13. ASSUME whole' PROVE Real'
  <2>1. \A h \in Unrecorded : doing'[h] = doing[h]
    BY <1>1, <1>8 DEF Unrecorded, At
  <2>2. \A x, from, to : Between(x, from, to)' <=> Between(x, from, to)
    BY <1>1 DEF Between
  <2>3. At("read") \subseteq Unrecorded
    BY DEF Unrecorded
  <2> QED
    BY <1>1, <1>6, <1>10, <1>13, <2>1, <2>2, <2>3 DEF HInv, Real, ImplStates
<1>14. ASSUME serial' PROVE OneAtATime'
  <2>1. OneAtATime
    BY <1>1, <1>14 DEF HInv
  <2>2. Busy = {g}
    BY <1>1, <2>1 DEF OneAtATime, Busy, At
  <2>3. ~grown
    <3>1. g \in At("measured") /\ doing[g].size \in Nat
      BY <1>1, <1>2 DEF At, Doing
    <3>2. doing[g].size = Len(traces[doing[g].held].states)
      BY <2>1, <3>1 DEF OneAtATime
    <3> QED
      BY <3>1, <3>2 DEF grown
  <2>4. Busy' = {}
    BY <1>2, <1>5, <1>7, <2>2, <2>3, Moves
  <2>5. /\ Unrecorded' = {} /\ At("read")' = {}
        /\ At("measured")' = {} /\ At("panicked")' = {}
    BY <2>4 DEF Unrecorded, Busy, At
  <2>6. \A i \in 1..Len(States') : States'[i].vars = log'[i]
    BY <1>1, <1>6, <2>1 DEF OneAtATime
  <2> QED
    BY <2>4, <2>5, <2>6 DEF OneAtATime
<1> QED
  BY <1>1, <1>6, <1>11, <1>12, <1>13, <1>14 DEF HInv
-----------------------------------------------------------------------------
LEMMA HarnessNextInv == HInv /\ [HarnessNext]_hvars => HInv'
<1> SUFFICES ASSUME HInv, [HarnessNext]_hvars PROVE HInv'
  OBVIOUS
<1>1. CASE UNCHANGED hvars
  <2>1. IInv' /\ UNCHANGED <<traces, tr, cur, impl, log, spans, doing, serial, whole>>
    BY <1>1, UnchangedInv DEF HInv, hvars, vars
  <2>2. States' = States /\ Unrecorded' = Unrecorded /\ Busy' = Busy /\ \A p : At(p)' = At(p)
    BY <2>1 DEF States, Unrecorded, Busy, At
  <2>3. HarnessTypeOK' /\ Counted'
    BY <2>1, <2>2 DEF HInv, HarnessTypeOK, IInv, Counted, Doing, ImplStates
  <2>4. whole' => Real'
    BY <2>1, <2>2 DEF HInv, Real, Between, ImplStates
  <2>5. serial' => OneAtATime'
    BY <2>1, <2>2 DEF HInv, OneAtATime
  <2> QED
    BY <2>1, <2>3, <2>4, <2>5 DEF HInv
<1>2. CASE HarnessNext
  <2>1. PICK g \in Goroutines : \/ Begin(g)
                                \/ \E new \in ImplStates \ {impl} : Change(g, new)
                                \/ \E v \in Variables : Read(g, v)
                                \/ \E a \in Actions : Record(g, a)
                                \/ Measure(g) \/ Generate(g)
    BY <1>2 DEF HarnessNext
  <2> QED
    BY <2>1, BeginInv, ChangeInv, ReadInv, RecordInv, MeasureInv, GenerateInv
<1> QED
  BY <1>1, <1>2

LEMMA HarnessSpecInv == HarnessSpec => []HInv
  BY HarnessInitInv, HarnessNextInv, PTL DEF HarnessSpec

LEMMA RecordedIsStates ==
  ASSUME HInv
  PROVE  /\ DOMAIN Recorded = 1..Len(States) /\ Len(Recorded) = Len(States)
         /\ \A i \in 1..Len(States) : Recorded[i] = States[i].vars
         /\ DOMAIN log = 1..Len(log)
         /\ Len(log) - Len(Recorded) = Cardinality(Unrecorded)
<1>1. Len(States) \in Nat /\ Len(log) \in Nat /\ log \in Seq(ImplStates)
  BY StatesType DEF HInv, IInv, HarnessTypeOK
<1>2. Recorded = [i \in 1..Len(States) |-> States[i].vars]
  BY DEF Recorded, States
<1>3. DOMAIN Recorded = 1..Len(States) /\ Len(Recorded) = Len(States)
  BY <1>1, <1>2
<1> QED
  BY <1>1, <1>2, <1>3, UnrecordedFinite DEF HInv, Counted

\* recorder.go:36-38 and 54-56: a harness that takes turns records the
\* history of the implementation, whichever variables its Steps name.
THEOREM AlwaysHistory == HarnessSpec => []TraceIsHistory
<1>1. HInv => TraceIsHistory
  <2> SUFFICES ASSUME HInv, serial PROVE TraceIsHistory
    BY DEF TraceIsHistory
  <2>1. \A i \in 1..Len(States) : States[i].vars = log[i]
    BY DEF HInv, OneAtATime
  <2> QED
    BY <2>1, RecordedIsStates DEF TraceIsHistory
<1> QED
  BY <1>1, HarnessSpecInv, PTL

\* recorder.go:65-80, 137-151: with StepState every value that is recorded is
\* one of the time in which it was read, in any interleaving, so that only a
\* change between two reads can make a state that never was.
THEOREM AlwaysRealUnlessTorn == HarnessSpec => []SnapshotsAreRealUnlessTorn
<1>1. HInv => SnapshotsAreRealUnlessTorn
  <2> SUFFICES ASSUME HInv, whole PROVE SnapshotsAreRealUnlessTorn
    BY DEF SnapshotsAreRealUnlessTorn
  <2>1. \A i \in 1..Len(States) :
          States[i].vars \in ImplStates /\ Between(States[i].vars, spans[i].from, spans[i].to)
    BY DEF HInv, Real
  <2>2. log \in Seq(ImplStates) /\ Len(log) \in Nat
    BY DEF HInv, HarnessTypeOK
  <2>3. ASSUME NEW i \in 1..Len(States)
        PROVE  /\ \A v \in Variables : \E j \in 1..Len(log) :
                    /\ spans[i].from <= j /\ j <= spans[i].to
                    /\ States[i].vars[v] = log[j][v]
               /\ spans[i].from = spans[i].to => States[i].vars = log[spans[i].to]
    <3> DEFINE s == States[i].vars
    <3>1. /\ s \in [Variables -> Vals]
          /\ spans[i].from \in 1..Len(log) /\ spans[i].to \in 1..Len(log)
          /\ \A v \in Variables : \E j \in 1..Len(log) :
               spans[i].from <= j /\ j <= spans[i].to /\ s[v] = log[j][v]
      BY <2>1 DEF Between, ImplStates
    <3>2. ASSUME spans[i].from = spans[i].to PROVE s = log[spans[i].to]
      <4>1. \A j \in 1..Len(log) : spans[i].from <= j /\ j <= spans[i].to => j = spans[i].to
        BY <2>2, <3>1, <3>2
      <4>2. ASSUME NEW v \in Variables PROVE s[v] = log[spans[i].to][v]
        <5>1. PICK j \in 1..Len(log) :
                spans[i].from <= j /\ j <= spans[i].to /\ s[v] = log[j][v]
          BY <3>1
        <5> QED
          BY <4>1, <5>1
      <4>3. log[spans[i].to] \in [Variables -> Vals]
        BY <2>2, <3>1 DEF ImplStates
      <4> QED
        BY <3>1, <4>2, <4>3
    <3> QED
      BY <3>1, <3>2
  <2>4. /\ DOMAIN Recorded = 1..Len(States) /\ DOMAIN log = 1..Len(log)
        /\ Len(log) - Len(Recorded) = Cardinality(Unrecorded)
        /\ \A i \in 1..Len(States) : Recorded[i] = States[i].vars
    BY RecordedIsStates
  <2>5. ASSUME NEW i \in DOMAIN Recorded
        PROVE  /\ \A v \in Variables : \E j \in DOMAIN log :
                    /\ spans[i].from <= j /\ j <= spans[i].to
                    /\ Recorded[i][v] = log[j][v]
               /\ spans[i].from = spans[i].to => Recorded[i] = log[spans[i].to]
    <3>1. i \in 1..Len(States) /\ Recorded[i] = States[i].vars
      BY <2>4
    <3>2. /\ \A v \in Variables : \E j \in 1..Len(log) :
               /\ spans[i].from <= j /\ j <= spans[i].to
               /\ States[i].vars[v] = log[j][v]
          /\ spans[i].from = spans[i].to => States[i].vars = log[spans[i].to]
      BY <2>3, <3>1
    <3> QED
      BY <2>4, <3>1, <3>2
  <2> QED
    BY <2>4, <2>5 DEF SnapshotsAreRealUnlessTorn
<1> QED
  BY <1>1, HarnessSpecInv, PTL

\* spec.go:95-96: in a harness that takes turns no trace grows while a
\* module is generated from it.
THEOREM NeverPanics == HarnessSpec => []SerialNeverPanics
<1>1. HInv => SerialNeverPanics
  BY DEF HInv, OneAtATime, SerialNeverPanics
<1> QED
  BY <1>1, HarnessSpecInv, PTL
=============================================================================
