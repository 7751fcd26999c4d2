------------------------- MODULE MCTraceValidation -------------------------
(***************************************************************************)
(* Every job over two abstract states: both ways of binding them, every    *)
(* next-state relation, an operator that is one of four parts of it, every *)
(* trace of at most MaxLen states over one mapped and one unmapped action. *)
(***************************************************************************)
EXTENDS TraceValidation, FiniteSets

CONSTANTS s1, s2, v1, v2, a, b, A, MaxLen, QuietChoices, InitialChoices

MCStates == {s1, s2}
MCValues == {v1, v2}
MCLabels == {a, b}
MCOperators == {A}

Entries == [act: MCLabels, vars: MCValues]

\* One refused call and one trace that leaves a variable unassigned: where it
\* does makes no difference to GenModule.
Calls ==
  {[trace |-> tr, ok |-> TRUE] : tr \in UNION {[1..k -> Entries] : k \in 0..MaxLen}}
  \cup {[trace |-> <<[act |-> a, vars |-> v1]>>, ok |-> FALSE],
        [trace |-> <<[act |-> a, vars |-> v1], [act |-> b, vars |-> Unassigned]>>,
         ok |-> TRUE]}

Binds == {[bind |-> [s \in MCStates |-> IF s = s1 THEN v1 ELSE v2], bound |-> TRUE],
          [bind |-> [s \in MCStates |-> v1], bound |-> FALSE]}

Steps == MCStates \X MCStates

Loops == {<<s, s>> : s \in MCStates}

\* A's steps: those of Next, the others, and Next's loops or the rest of it.
OperatorChoice(next, part) ==
  CASE part = "all"    -> next
    [] part = "none"   -> Steps \ next
    [] part = "loops"  -> next \cap Loops
    [] part = "others" -> next \ Loops

StartChoices == {[initial |-> MCStates, skipInit |-> TRUE]} \cup
                {[initial |-> i, skipInit |-> FALSE] : i \in InitialChoices}

MCJobs ==
  {[trace |-> call.trace, wellFormed |-> call.ok, bind |-> bd.bind, bound |-> bd.bound,
    initial |-> st.initial, next |-> nx,
    operators |-> [o \in MCOperators |-> OperatorChoice(nx, part)],
    mapped |-> {a}, actions |-> [l \in MCLabels |-> A], skipInit |-> st.skipInit,
    invariant |-> inv, quiet |-> q] :
     nx \in SUBSET Steps, part \in {"all", "none", "loops", "others"}, call \in Calls,
     bd \in Binds, st \in StartChoices, inv \in {MCStates, {s1}}, q \in QuietChoices}
=============================================================================
