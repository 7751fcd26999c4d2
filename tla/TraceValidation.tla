-------------------------- MODULE TraceValidation --------------------------
(***************************************************************************)
(* rust/src/tracecheck.rs, gen_module and validate (tracecheck/spec.go and *)
(* validate.go are the same design, and give the names): Validate makes a  *)
(* module whose only behaviours step through the recorded trace, has TLC   *)
(* search it with deadlock checking on, and reads the verdict back: a      *)
(* deadlock is a divergence, and the last TraceIdx of the counterexample   *)
(* that can be read says where.  TLC is external: a breadth-first search   *)
(* over the generated module, in any order (workers), that may also fail   *)
(* at any time.                                                            *)
(***************************************************************************)
EXTENDS Conformance

VARIABLES job,      \* the arguments of this call of Validate
          phase,    \* where the call is
          seen,     \* TLC's generated states: pairs <<TraceIdx, state>>
          frontier, \* those TLC has not expanded yet
          tlc,      \* TLC's exit status and the last TraceIdx it prints
          answer    \* what Validate returned

vars == <<job, phase, seen, frontier, tlc, answer>>

TraceLen == Len(job.trace)

Nodes == (1..TraceLen) \X States

NoVerdict == [status |-> "none", idx |-> 0]

Verdict(status, idx) == [status |-> status, idx |-> idx]
-----------------------------------------------------------------------------
(***************************************************************************)
(* The generated module.                                                   *)
(***************************************************************************)
\* Mutant: TraceIdx starts at 0.
TraceInitAtZero ==
  {<<0, s>> : s \in {t \in States : /\ TraceLen > 0
                                    /\ job.bind[t] = job.trace[1].vars
                                    /\ job.skipInit \/ t \in job.initial}}

TraceInit ==
  {n \in Nodes : /\ n[1] = 1
                 /\ job.bind[n[2]] = job.trace[1].vars
                 /\ job.skipInit \/ n[2] \in job.initial}

\* Mutant: the mapping is not consulted.
TraceMatchUnmapped(k, s, t) == <<s, t>> \in job.next \/ job.bind[s] = job.bind[t]

\* The CASE over the mapped action names, with [Next]_<<vars>> for OTHER.
TraceMatch(k, s, t) ==
  \/ /\ job.trace[k].act \in job.mapped
     /\ <<s, t>> \in job.operators[job.actions[job.trace[k].act]]
  \/ /\ job.trace[k].act \notin job.mapped
     /\ <<s, t>> \in job.next \/ job.bind[s] = job.bind[t]

Advance(n) ==
  {m \in Nodes : /\ n[1] < TraceLen
                 /\ m[1] = n[1] + 1
                 /\ job.bind[m[2]] = job.trace[m[1]].vars
                 /\ TraceMatch(m[1], n[2], m[2])}

Done(n) == {m \in {n} : n[1] = TraceLen}

TraceNext(n) == Advance(n) \cup Done(n)

(***************************************************************************)
(* UNCHANGED TraceVars, [Next]_<<vars>>'s stuttering half and, with        *)
(* SkipInit, the initial predicate assign only the variables in Spec.Vars: *)
(* when the specification has others, TLC stops with an error there.       *)
(***************************************************************************)
Incomplete(n) ==
  /\ ~job.bound
  /\ n[1] < TraceLen => /\ job.trace[n[1] + 1].act \notin job.mapped
                        /\ job.bind[n[2]] = job.trace[n[1] + 1].vars

\* Mutant: the configuration does not list the invariants.
BrokenNever(nodes) == {}

Broken(nodes) == {n \in nodes : n[2] \notin job.invariant}

DeadlockChecked == ~job.quiet
-----------------------------------------------------------------------------
Init == /\ job \in Jobs
        /\ phase = "generate"
        /\ seen = {} /\ frontier = {}
        /\ tlc = NoVerdict
        /\ answer = Pending

Return(a) == /\ phase' = "done"
             /\ answer' = a

\* The source does not parse, a name is refused, the trace is empty, or a
\* recorded state does not assign every variable of Spec.Vars.
Refused ==
  \/ ~job.wellFormed
  \/ TraceLen = 0
  \/ \E k \in 1..TraceLen : job.trace[k].vars = Unassigned

GenModule ==
  /\ phase = "generate"
  /\ \/ Refused /\ Return(Failed)
     \/ ~Refused /\ phase' = "init" /\ UNCHANGED answer
  /\ UNCHANGED <<job, seen, frontier, tlc>>

Stop(status, idx) == /\ phase' = "interpret"
                     /\ tlc' = Verdict(status, idx)

ComputeInit ==
  /\ phase = "init"
  /\ \/ /\ job.skipInit /\ ~job.bound
        /\ Stop("failure", 0)
        /\ UNCHANGED <<seen, frontier>>
     \/ /\ ~(job.skipInit /\ ~job.bound)
        /\ seen' = TraceInit /\ frontier' = TraceInit
        /\ IF Broken(TraceInit) # {}
           THEN Stop("safety", 1)
           ELSE phase' = "search" /\ UNCHANGED tlc
  /\ UNCHANGED <<job, answer>>

Expand(n) ==
  /\ phase = "search"
  /\ n \in frontier
  /\ LET fresh == TraceNext(n) \ seen IN
     \/ /\ Incomplete(n)
        /\ Stop("failure", n[1])
        /\ UNCHANGED <<seen, frontier>>
     \/ /\ ~Incomplete(n) /\ TraceNext(n) = {} /\ DeadlockChecked
        /\ Stop("deadlock", n[1])
        /\ UNCHANGED <<seen, frontier>>
     \/ /\ ~Incomplete(n) /\ (TraceNext(n) # {} \/ ~DeadlockChecked)
        /\ seen' = seen \cup fresh
        /\ frontier' = (frontier \ {n}) \cup fresh
        /\ IF Broken(fresh) # {}
           THEN Stop("safety", n[1] + 1)
           ELSE UNCHANGED <<phase, tlc>>
  /\ UNCHANGED <<job, answer>>

Exhausted == /\ phase = "search" /\ frontier = {}
             /\ Stop("success", 0)
             /\ UNCHANGED <<job, seen, frontier, answer>>

\* Out of memory, an evaluation error, a jar that is not TLC, ...
Fail == /\ phase \in {"init", "search"}
        /\ Stop("failure", 0)
        /\ UNCHANGED <<job, seen, frontier, answer>>

\* tlc.Check returns an error: TLC could not run, or ctx was cancelled.
CheckError == /\ phase \in {"init", "search", "interpret"}
              /\ Return(Failed)
              /\ UNCHANGED <<job, seen, frontier, tlc>>

\* Mutant: the last matched state is reported, not the one after it.
InterpretLastMatched ==
  /\ phase = "interpret"
  /\ \/ tlc.status = "success" /\ Return(Conforming)
     \/ tlc.status = "deadlock" /\ Return(Divergence(job, tlc.idx, FALSE))
     \/ tlc.status \in {"safety", "failure"} /\ Return(Undetermined)
  /\ UNCHANGED <<job, seen, frontier, tlc>>

\* The counterexample of a deadlock has the states at TraceIdx 1..tlc.idx.
\* Any of them may not parse: it is dropped and the Result warns of it
\* (tlc.rs:193-195).  The last that did parse is taken for the last matched
\* one; when there is none, the report does not say where.
Interpret ==
  /\ phase = "interpret"
  /\ \/ tlc.status = "success" /\ Return(Conforming)
     \/ /\ tlc.status = "deadlock"
        /\ \/ \E last \in 1..tlc.idx, warned \in BOOLEAN :
                /\ last < TraceLen
                /\ last < tlc.idx => warned
                /\ Return(Divergence(job, last + 1, warned))
           \/ Return(Undetermined)
     \/ tlc.status \in {"safety", "failure"} /\ Return(Undetermined)
  /\ UNCHANGED <<job, seen, frontier, tlc>>

Terminated == phase = "done" /\ UNCHANGED vars

Next == \/ GenModule \/ ComputeInit \/ (\E n \in frontier : Expand(n))
        \/ Exhausted \/ Fail \/ CheckError \/ Interpret \/ Terminated

Spec == Init /\ [][Next]_vars
-----------------------------------------------------------------------------
\* The values the variables range over.
TypeOK == /\ ValidJob(job)
          /\ phase \in {"generate", "init", "search", "interpret", "done"}
          /\ seen \subseteq Nodes
          /\ frontier \subseteq seen
          /\ tlc.status \in {"none", "success", "deadlock", "safety", "failure"}
          /\ tlc.idx \in 0..TraceLen

\* Every state TLC generates ends a behaviour of the abstract specification
\* that shows the recorded states up to its TraceIdx, one for one: the
\* generated module (gen_module) adds no behaviour of its own.
SearchIsSound ==
  \A n \in seen : \E r \in [1..n[1] -> States] :
                     IsRun(job, n[1], r) /\ r[n[1]] = n[2]

\* TLC's verdict on the generated module means what Validate takes it for:
\* success, that the whole trace is allowed and every state of every run
\* over it satisfies the job's invariants (or that it was not searched: the
\* first state was refused, or deadlocks are ignored); a deadlock, that the
\* spec cannot take the recorded step after TraceIdx (when the mapping binds
\* every variable); a safety violation, that an invariant fails on the way.
VerdictIsJustified ==
  /\ tlc.status = "success" =>
       /\ Allowed(job) \/ FirstStateRefused(job) \/ job.quiet
       /\ \A k \in 1..TraceLen : \A r \in [1..k -> States] :
            IsRun(job, k, r) => r[k] \in job.invariant
  /\ tlc.status = "deadlock" =>
       /\ tlc.idx \in 1..(TraceLen - 1)
       /\ Reaches(job, tlc.idx)
       /\ job.bound => ~Reaches(job, tlc.idx + 1)
  /\ tlc.status = "safety" =>
       \E r \in [1..tlc.idx -> States] :
         IsRun(job, tlc.idx, r) /\ r[tlc.idx] \notin job.invariant

O == INSTANCE ConformanceOracle

\* Validate implements the oracle: its one answer, whatever the order of
\* TLC's search, is one that the job admits.
AnswersTheQuestion == O!OracleSpec

\* tracecheck.rs:419, "Whether every recorded step is a behavior the spec
\* allows", for every job.
ConformsMeansAllowed == answer = Conforming => Allowed(job)

\* validate.go:59-60, "deadlock checking must stay on no matter what the
\* caller put in opts": no option makes a divergence after the first state
\* pass for conformance.
OptionsCannotHideDivergence ==
  answer = Conforming => Allowed(job) \/ FirstStateRefused(job)
=============================================================================
