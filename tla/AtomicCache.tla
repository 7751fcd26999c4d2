----------------------------- MODULE AtomicCache -----------------------------
(***************************************************************************)
(* What EnsureJar promises to the processes of a machine: a cached jar     *)
(* that changes in one step from one whole version to another, and a path  *)
(* that is only ever given out when there is a usable jar behind it.       *)
(***************************************************************************)
CONSTANTS Procs, Versions, Absent

VARIABLES cache,  \* the version in ~/.tlacuilo/tla2tools.jar, or Absent
          answer  \* per process: what EnsureJar returned to it

vars == <<cache, answer>>

Init == /\ cache \in Versions \cup {Absent}
        /\ answer = [p \in Procs |-> "none"]

Install(v) == /\ cache' = v
              /\ UNCHANGED answer

\* elsewhere: FindJar found one of the other candidates.
Give(p, elsewhere) == /\ answer[p] = "none"
                      /\ cache # Absent \/ elsewhere
                      /\ answer' = [answer EXCEPT ![p] = "path"]
                      /\ UNCHANGED cache

Refuse(p) == /\ answer[p] = "none"
             /\ answer' = [answer EXCEPT ![p] = "error"]
             /\ UNCHANGED cache

Next == \/ \E v \in Versions : Install(v)
        \/ \E p \in Procs : Refuse(p) \/ \E e \in BOOLEAN : Give(p, e)

Spec == Init /\ [][Next]_vars
=============================================================================
