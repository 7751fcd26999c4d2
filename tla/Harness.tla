------------------------------ MODULE Harness ------------------------------
(***************************************************************************)
(* The test harness around a Recorder, as tracecheck/*_test.go and         *)
(* examples/k8scontroller/controller_test.go write it: goroutines change   *)
(* the implementation and then record what they did, either the variables  *)
(* they touched (Step) or the whole state (StepState), and hand the trace  *)
(* to GenModule.  The values are read one after another, before the        *)
(* Recorder's mutex is taken, and GenModule reads the live trace without   *)
(* it.  Two assumptions: the value of one variable is read at one moment   *)
(* (the implementation guards its own fields), and nothing changes while   *)
(* the initial state of a scenario is read.                                *)
(***************************************************************************)
EXTENDS Recorder, FiniteSets

CONSTANTS Goroutines,
          MaxChanges  \* bound on the changes between two calls of Init

ASSUME HarnessAssumption == IsFiniteSet(Goroutines) /\ MaxChanges \in Nat

VARIABLES impl,   \* the implementation's state: a value of every variable
          log,    \* the states it went through since Init was recorded
          spans,  \* per recorded state: the places in log that it was read over
          doing,  \* per goroutine: where it is in what it is doing
          serial, \* one goroutine at a time does anything
          whole   \* the harness records with StepState

hvars == <<traces, tr, cur, impl, log, spans, doing, serial, whole>>

ImplStates == [Variables -> Vals]

\* touched: what its change changed; updates: what it has read since, from
\* and to: the places of the log at the first and the last of these reads;
\* held and size: the trace that GenModule was given and its length then.
Resting == [at |-> "rest", touched |-> {}, updates |-> EmptyVars,
            from |-> 0, to |-> 0, held |-> 1, size |-> 0]

At(place) == {g \in Goroutines : doing[g].at = place}

Busy == Goroutines \ At("rest")

Unrecorded == At("changed") \cup At("read")

\* Mutant: nobody waits for a turn.
MayBeginAnytime(g) == doing[g].at = "rest"

MayBegin(g) == /\ doing[g].at = "rest"
               /\ serial => Busy = {}

HarnessInit == /\ Init
               /\ impl \in ImplStates
               /\ log = <<>> /\ spans = <<>>
               /\ doing = [g \in Goroutines |-> Resting]
               /\ serial \in BOOLEAN /\ whole \in BOOLEAN

\* rec.Init(TLAState(cl)): the goroutine that sets a scenario up does it
\* when no other is between a change and its record.
Begin(g) == /\ MayBegin(g) /\ Unrecorded = {}
            /\ RecordInit(impl)
            /\ log' = <<impl>> /\ spans' = <<[from |-> 1, to |-> 1]>>
            /\ UNCHANGED <<impl, doing, serial, whole>>

\* One step of the implementation, to any other state.
Change(g, new) ==
  /\ MayBegin(g)
  /\ log # <<>> /\ Len(log) <= MaxChanges
  /\ impl' = new /\ log' = Append(log, new)
  /\ doing' = [doing EXCEPT ![g] =
       [Resting EXCEPT !.at = "changed",
                       !.touched = {v \in Variables : new[v] # impl[v]}]]
  /\ UNCHANGED <<vars, spans, serial, whole>>

\* Mutant: StepState records only what changed.
ShownTouched(g) == doing[g].touched

\* The variables in the arguments of Step, or in Snapshot of StepState.
Shown(g) == IF whole THEN Variables ELSE doing[g].touched

\* Reads one variable more, in any order (fromStruct walks the fields,
\* TLAState calls a getter for each), outside the mutex.
Read(g, v) ==
  /\ doing[g].at = "changed"
  /\ v \in Shown(g) \ DOMAIN doing[g].updates
  /\ LET known == doing[g].updates
         got == [w \in DOMAIN known \cup {v} |-> IF w = v THEN impl[v] ELSE known[w]]
     IN doing' = [doing EXCEPT
          ![g].at = IF DOMAIN got = Shown(g) THEN "read" ELSE "changed",
          ![g].updates = got,
          ![g].from = IF DOMAIN known = {} THEN Len(log) ELSE @,
          ![g].to = Len(log)]
  /\ UNCHANGED <<vars, impl, log, spans, serial, whole>>

Record(g, a) ==
  /\ doing[g].at = "read"
  /\ RecordStep(a, doing[g].updates)
  /\ doing' = [doing EXCEPT ![g] = Resting]
  /\ spans' = Append(spans, [from |-> doing[g].from, to |-> doing[g].to])
  /\ UNCHANGED <<impl, log, serial, whole>>

\* GenModule(s, rec.Trace()): states := make([]ast.Expr, len(tr.States)) ...
Measure(g) ==
  /\ MayBegin(g) /\ traces[tr].states # <<>>
  /\ doing' = [doing EXCEPT ![g].at = "measured", ![g].held = tr,
                            ![g].size = Len(traces[tr].states)]
  /\ UNCHANGED <<vars, impl, log, spans, serial, whole>>

\* ... and then range tr.States, which takes the length anew: the loop
\* indexes past states when the trace has grown in between.
Generate(g) ==
  /\ doing[g].at = "measured"
  /\ doing' = IF Len(traces[doing[g].held].states) > doing[g].size
              THEN [doing EXCEPT ![g].at = "panicked"]
              ELSE [doing EXCEPT ![g] = Resting]
  /\ UNCHANGED <<vars, impl, log, spans, serial, whole>>

HarnessNext ==
  \E g \in Goroutines : \/ Begin(g)
                        \/ \E new \in ImplStates \ {impl} : Change(g, new)
                        \/ \E v \in Variables : Read(g, v)
                        \/ \E a \in Actions : Record(g, a)
                        \/ Measure(g) \/ Generate(g)

HarnessSpec == HarnessInit /\ [][HarnessNext]_hvars
-----------------------------------------------------------------------------
Recorded == [i \in 1..Len(traces[tr].states) |-> traces[tr].states[i].vars]

Doing == [at: {"rest", "changed", "read", "measured", "panicked"},
          touched: SUBSET Variables, updates: Assignments, from: Nat, to: Nat,
          held: 1..Len(traces), size: Nat]

\* The values the variables range over.
HarnessTypeOK ==
  /\ TypeOK
  /\ impl \in ImplStates /\ log \in Seq(ImplStates)
  /\ spans \in Seq([from: Nat, to: Nat])
  /\ doing \in [Goroutines -> Doing]
  /\ serial \in BOOLEAN /\ whole \in BOOLEAN

\* recorder.go:36-38 and 54-56: recorded from one goroutine at a time, the
\* trace is the history of the implementation, with the values that partial
\* updates do not mention carried forward; only a change whose record is
\* still to come is missing.
TraceIsHistory ==
  serial => /\ Len(log) - Len(Recorded) = Cardinality(Unrecorded)
            /\ \A i \in DOMAIN Recorded : Recorded[i] = log[i]

\* With StepState, in any interleaving, no step of the implementation stays
\* unrecorded, and every value of a recorded state is one that its variable
\* had while the state was being read; so that a recorded state is one that
\* the implementation was in unless a change fell between two of its reads.
\* Then it may be torn, of values that were never there together: nothing
\* in StepState prevents that.
SnapshotsAreRealUnlessTorn ==
  whole =>
    /\ Len(log) - Len(Recorded) = Cardinality(Unrecorded)
    /\ \A i \in DOMAIN Recorded :
         /\ \A v \in Variables : \E j \in DOMAIN log :
              /\ spans[i].from <= j /\ j <= spans[i].to
              /\ Recorded[i][v] = log[j][v]
         /\ spans[i].from = spans[i].to => Recorded[i] = log[spans[i].to]

\* spec.go:95-96: the loop over the states never leaves the slice made for
\* them, when recording and validating take turns.
SerialNeverPanics == serial => At("panicked") = {}
=============================================================================
