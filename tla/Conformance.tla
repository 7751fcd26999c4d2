---------------------------- MODULE Conformance ----------------------------
(***************************************************************************)
(* The question tracecheck answers: is a recorded trace a behaviour of an  *)
(* abstract specification?  A job is the question, with its one answer.    *)
(* The abstract specification is arbitrary: a set of states, and what its  *)
(* Init, its Next and the action operators a mapping may name denote.      *)
(* A recorded state shows only the variables of Spec.Vars; bind[s] is the  *)
(* assignment to them in the specification's state s.                      *)
(***************************************************************************)
EXTENDS Naturals, Sequences

CONSTANTS States,     \* states of the abstract specification
          Values,     \* assignments to the variables of Spec.Vars
          Unassigned, \* a recorded state in which some of them is missing
          Labels,     \* action names a harness records
          Operators,  \* action operators of the abstract module
          Jobs        \* the calls of Validate that are considered

(***************************************************************************)
(* One call of Validate: tracecheck.Spec with its operators replaced by    *)
(* what they denote, the trace, and the caller's tlc::Options (quiet:      *)
(* extra_args or a config_path that turn deadlock checking off).  The Rust *)
(* actions are a list sorted by name and operator: TLC's CASE takes the    *)
(* first of two entries for one name, which is what the map is here.       *)
(***************************************************************************)
JobType ==
  [trace: Seq([act: Labels, vars: Values \cup {Unassigned}]),
   wellFormed: BOOLEAN,
   bind: [States -> Values],
   bound: BOOLEAN,
   initial: SUBSET States,
   next: SUBSET (States \X States),
   operators: [Operators -> SUBSET (States \X States)],
   mapped: SUBSET Labels,
   actions: [Labels -> Operators],
   skipInit: BOOLEAN,
   invariant: SUBSET States,
   quiet: BOOLEAN]

(***************************************************************************)
(* bound: Spec.Vars lists every variable of the specification, so that a   *)
(* recorded state determines the state.                                    *)
(***************************************************************************)
ValidJob(j) ==
  /\ j \in JobType
  /\ j.bound => \A s, t \in States : j.bind[s] = j.bind[t] => s = t

ASSUME JobsAssumption == /\ Unassigned \notin Values
                         /\ \A j \in Jobs : ValidJob(j)
-----------------------------------------------------------------------------
(***************************************************************************)
(* The steps the refinement mapping admits for the k-th recorded state:    *)
(* exactly the mapped operator, or [Next]_vars when the action's name is   *)
(* not mapped.                                                             *)
(***************************************************************************)
Admits(j, k, s, t) ==
  IF j.trace[k].act \in j.mapped
  THEN <<s, t>> \in j.operators[j.actions[j.trace[k].act]]
  ELSE <<s, t>> \in j.next \/ s = t

Starts(j, s) == j.skipInit \/ s \in j.initial

Shows(j, k, s) == j.bind[s] = j.trace[k].vars

(***************************************************************************)
(* r is a behaviour of the specification over the first k recorded states. *)
(***************************************************************************)
IsRun(j, k, r) ==
  /\ r \in [1..k -> States]
  /\ Starts(j, r[1])
  /\ \A i \in 1..k : Shows(j, i, r[i])
  /\ \A i \in 1..(k - 1) : Admits(j, i + 1, r[i], r[i + 1])

Reaches(j, k) == \E r \in [1..k -> States] : IsRun(j, k, r)

Allowed(j) == Reaches(j, Len(j.trace))

FirstStateRefused(j) == ~Reaches(j, 1)

(***************************************************************************)
(* The question makes sense: the specification parses, the names of the    *)
(* mapping are usable (wellFormed), and there is a trace of whole states.  *)
(***************************************************************************)
WellPosed(j) ==
  /\ j.wellFormed
  /\ j.trace # <<>>
  /\ \A k \in 1..Len(j.trace) : j.trace[k].vars \in Values
-----------------------------------------------------------------------------
(***************************************************************************)
(* The answers: Validate returns an error, or a Report.                    *)
(***************************************************************************)
Pending == [kind |-> "pending"]
Failed  == [kind |-> "error"]

(***************************************************************************)
(* warned: the Result in the report warns that a state of TLC's            *)
(* counterexample did not parse (kept where it bears on the answer).       *)
(***************************************************************************)
Report(conforms, k, names, warned) ==
  [kind |-> "report", conforms |-> conforms, divergedAt |-> k, failedAction |-> names,
   warned |-> warned]

Conforming == Report(TRUE, 0, {}, FALSE)

Undetermined == Report(FALSE, 0, {}, FALSE)

Divergence(j, k, warned) == Report(FALSE, k, {j.trace[k].act}, warned)

(***************************************************************************)
(* The answers a caller may rely on.  A trace that the specification       *)
(* allows is never said to diverge, and one that is said to diverge at k   *)
(* is allowed up to k - 1 and not further; an undetermined report is       *)
(* always possible (TLC failed, or an invariant of the job does not hold). *)
(* The code makes four exceptions: a trace whose first state the           *)
(* specification refuses, and any trace once the caller's options have     *)
(* turned deadlock checking off, is said to conform; a trace may be said   *)
(* to diverge that is allowed when the mapping leaves a variable unbound;  *)
(* and k is only a lower bound, so that the action reported may be one     *)
(* that the specification takes, when the Result warns of a state that did *)
(* not parse.                                                              *)
(***************************************************************************)
Answers(j) ==
  {Failed} \cup
  {a \in {Undetermined, Conforming}
         \cup {Divergence(j, k, w) : k \in 2..Len(j.trace), w \in BOOLEAN} :
     /\ WellPosed(j)
     /\ a.conforms => Allowed(j) \/ FirstStateRefused(j) \/ j.quiet
     /\ a.divergedAt > 0 =>
          /\ Reaches(j, a.divergedAt - 1)
          /\ j.bound => ~Allowed(j)
          /\ j.bound /\ ~a.warned => ~Reaches(j, a.divergedAt)}
=============================================================================
