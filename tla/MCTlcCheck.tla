----------------------------- MODULE MCTlcCheck -----------------------------
(***************************************************************************)
(* Two processes, alive at once or one after the other with the same       *)
(* identifier, and two calls in one of them or one in each, for one        *)
(* module; the job of the first has an auxiliary module.  The TLC of the   *)
(* second call ends in every way there is, that of the first succeeds.     *)
(***************************************************************************)
EXTENDS TlcCheck

CONSTANTS c1, c2

MCModuleName == [c \in Calls |-> "M"]
MCAux == (c1 :> {"Aux"}) @@ (c2 :> {})

Stats == <<StartLine("stats", "none"), TextLine("number", 5), EndLine("stats")>>
Error1 == <<StartLine("invariant", "error"), TextLine("why", 0), EndLine("invariant")>>

Exits(code, lines, stderr) ==
  [lines |-> lines, ending |-> "line", stderr |-> stderr, code |-> code, signal |-> FALSE,
   whole |-> TRUE]

Success == Exits(0, Stats, 0)

\* The JVM dies after some of the lines, by itself or by a signal.
Dies(n, ending, stderr, code, signal) ==
  [lines |-> SubSeq(Error1 \o Stats, 1, n), ending |-> ending, stderr |-> stderr,
   code |-> code, signal |-> signal, whole |-> FALSE]

MCOutcomes ==
  (c1 :> {Success})
  @@ (c2 :> {Exits(12, Error1 \o Stats, 1),
             Dies(6, "line", 1, 1, FALSE), Dies(6, "unterminated", 1, 1, FALSE),
             Dies(6, "unterminated", 0, 0, TRUE), Dies(6, "partial", 0, 0, TRUE)})
=============================================================================
