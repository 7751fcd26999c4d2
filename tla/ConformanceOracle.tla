------------------------- MODULE ConformanceOracle -------------------------
(***************************************************************************)
(* What a caller of tracecheck.Validate sees: a job, then one answer that  *)
(* never changes, out of those the job admits.                             *)
(***************************************************************************)
EXTENDS Conformance

VARIABLES job, answer

OracleInit == ValidJob(job) /\ answer = Pending

Answer == /\ answer = Pending
          /\ answer' \in Answers(job)
          /\ UNCHANGED job

OracleSpec == OracleInit /\ [][Answer]_<<job, answer>>
=============================================================================
