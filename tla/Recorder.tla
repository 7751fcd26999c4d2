------------------------------ MODULE Recorder ------------------------------
(***************************************************************************)
(* tracecheck/recorder.go: a Recorder.  Its methods run under one mutex,   *)
(* so each is one action.  What escapes the mutex is the pointer that      *)
(* Trace returns: the trace objects are kept apart here, the one the       *)
(* Recorder extends and those that a holder of an older pointer still has. *)
(***************************************************************************)
EXTENDS Naturals, Sequences

CONSTANTS Variables,     \* names a harness records
          Vals,          \* values that value.FromGo converts
          Unconvertible, \* a Go value that it rejects (a channel, a func)
          Actions,       \* names given to Step
          Nil,           \* the cur of a Recorder before Init
          MaxTraces,     \* bound on the calls of Init, plus one
          MaxLen         \* bound on the states of one trace

Assignments == UNION {[D -> Vals] : D \in SUBSET Variables}

ASSUME RecorderAssumption == /\ Unconvertible \notin Vals
                             /\ Nil \notin Assignments
                             /\ MaxTraces \in Nat /\ MaxLen \in Nat

VARIABLES traces, \* every trace object made so far
          tr,     \* the one the Recorder points to: an index into traces
          cur     \* the last assignment, or Nil

vars == <<traces, tr, cur>>

InitAction == "Init"
-----------------------------------------------------------------------------
Updates == UNION {[D -> Vals \cup {Unconvertible}] : D \in SUBSET Variables}

Converts(updates) == \A v \in DOMAIN updates : updates[v] # Unconvertible

\* Mutants: nothing is carried forward; the old values win.
MergeDropsOld(old, updates) == updates

MergeKeepsOld(old, updates) ==
  [v \in DOMAIN old \cup DOMAIN updates |-> IF v \in DOMAIN old THEN old[v] ELSE updates[v]]

\* Both loops of record that fill next: the old assignment, then the updates.
Merge(old, updates) ==
  [v \in DOMAIN old \cup DOMAIN updates |->
     IF v \in DOMAIN updates THEN updates[v] ELSE old[v]]

EmptyVars == [v \in {} |-> Nil]

\* trace.New and Trace.AddState: names is the set that Vars lists in order.
NewTrace == [names |-> {}, states |-> <<>>]

\* Mutant: the index is 0-based.
AddStateFromZero(t, action, assignment) ==
  [names  |-> t.names \cup DOMAIN assignment,
   states |-> Append(t.states, [index  |-> Len(t.states),
                                action |-> action,
                                vars   |-> assignment])]

AddState(t, action, assignment) ==
  [names  |-> t.names \cup DOMAIN assignment,
   states |-> Append(t.states, [index  |-> Len(t.states) + 1,
                                action |-> action,
                                vars   |-> assignment])]
-----------------------------------------------------------------------------
Init == /\ traces = <<NewTrace>>
        /\ tr = 1
        /\ cur = Nil

\* Mutant: Init empties the trace it has instead of making a new one.
RecordInitInPlace(updates) ==
  /\ Converts(updates)
  /\ cur' = Merge(EmptyVars, updates)
  /\ traces' = [traces EXCEPT ![tr] = AddState(NewTrace, InitAction, cur')]
  /\ UNCHANGED tr

\* record(InitAction, state, true): the trace and cur are replaced before
\* the conversion that may fail.
RecordInit(updates) ==
  /\ Len(traces) < MaxTraces
  /\ tr' = Len(traces) + 1
  /\ IF Converts(updates)
     THEN /\ cur' = Merge(EmptyVars, updates)
          /\ traces' = Append(traces, AddState(NewTrace, InitAction, cur'))
     ELSE /\ cur' = EmptyVars
          /\ traces' = Append(traces, NewTrace)

\* Mutant: the error of value.FromGo is ignored.
RecordStepUnchecked(action, updates) ==
  /\ Len(traces[tr].states) < MaxLen /\ cur # Nil
  /\ cur' = Merge(cur, updates)
  /\ traces' = [traces EXCEPT ![tr] = AddState(@, action, cur')]
  /\ UNCHANGED tr

\* record(action, updates, false), when it does not return an error.
RecordStep(action, updates) ==
  /\ Len(traces[tr].states) < MaxLen
  /\ cur # Nil /\ Converts(updates)
  /\ cur' = Merge(cur, updates)
  /\ traces' = [traces EXCEPT ![tr] = AddState(@, action, cur')]
  /\ UNCHANGED tr

\* Mutant: what converts is stored in cur before the rest is looked at.
RefuseStepLate(updates) ==
  /\ cur # Nil /\ ~Converts(updates)
  /\ LET good == {v \in DOMAIN updates : updates[v] # Unconvertible} IN
     cur' = Merge(cur, [v \in good |-> updates[v]])
  /\ UNCHANGED <<traces, tr>>

\* Step before Init, or with a value that does not convert: an error.
RefuseStep(updates) == /\ cur = Nil \/ ~Converts(updates)
                       /\ UNCHANGED vars

Next == \E u \in Updates : \/ RecordInit(u)
                           \/ \E a \in Actions : RecordStep(a, u)
                           \/ RefuseStep(u)

Spec == Init /\ [][Next]_vars
-----------------------------------------------------------------------------
StateType == [index: Nat, action: Actions \cup {InitAction}, vars: Assignments]

TraceType == [names: SUBSET Variables, states: Seq(StateType)]

\* The values the variables range over.
TypeOK == /\ traces \in Seq(TraceType)
          /\ tr \in 1..Len(traces)
          /\ cur \in Assignments \cup {Nil}

\* spec.go:20-22: "every recorded state must assign all of them (the
\* recorder's carry-forward guarantees this once Init assigns them)": no
\* state of a trace lacks a variable that an earlier state of it assigns.
CarriedForward ==
  \A i \in 1..Len(traces) : \A j, k \in 1..Len(traces[i].states) :
    j <= k => DOMAIN traces[i].states[j].vars \subseteq DOMAIN traces[i].states[k].vars

\* The state that the next Step merges into is the last one recorded, in
\* the trace it appends to, whatever failed or was restarted in between.
\* Step is refused for want of a state exactly until Init is called, with
\* whatever outcome: tracecheck_test.go:18-19 only says "Step before Init
\* should fail", and after an Init that failed it does not.
CurIsLastState ==
  LET s == traces[tr].states IN
  /\ cur = Nil => s = <<>>
  /\ s # <<>> => cur = s[Len(s)].vars
  /\ cur = Nil <=> tr = 1

\* State.Index is the 1-based number of the state in its trace and Vars
\* names the variables its states assign (trace.go:17-30), in every trace
\* that a caller may still hold.
WellNumbered ==
  \A i \in 1..Len(traces) :
    /\ \A k \in 1..Len(traces[i].states) : traces[i].states[k].index = k
    /\ traces[i].names =
         UNION {DOMAIN traces[i].states[k].vars : k \in 1..Len(traces[i].states)}

\* A trace that Trace has returned is only ever extended, and a restart by
\* Init leaves it as it is from then on: what a holder has read stays true.
Grows(old, new) ==
  /\ Len(new.states) >= Len(old.states)
  /\ \A k \in 1..Len(old.states) : new.states[k] = old.states[k]

HandlesOnlyGrow ==
  [][\A i \in 1..Len(traces) :
       /\ Grows(traces[i], traces'[i])
       /\ i # tr \/ tr' # tr => traces'[i] = traces[i]]_vars
=============================================================================
