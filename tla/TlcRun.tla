------------------------------- MODULE TlcRun -------------------------------
(***************************************************************************)
(* tlc/run.go: Check writes a job to a temporary directory and calls Run,  *)
(* which starts TLC, parses its output line by line through a pipe, waits  *)
(* for it and interprets the messages; the deferred RemoveAll comes last.  *)
(* Three parties move on their own: the calling goroutine, the TLC process *)
(* and whoever cancels the context.                                        *)
(***************************************************************************)
EXTENDS ToolOutput

CONSTANTS Scripts,  \* what TLC may print: records of its lines and exit code
          PipeSize, \* lines the pipe holds
          MaxNoise, \* stray stderr lines merged into the output
          Tees      \* what opts.Stdout does: "none", "copies" or "fails"

StatePrints(lines) ==
  {p \in Frames(lines) : IsStatePrint(FramedMessage(lines, p))}

IsHead(line) == line.kind = "text" /\ line.code = "head"

Heads(lines, n) == {i \in 1..n : IsHead(lines[i])}

\* What TLC prints of a counterexample (there is one, as long as ExtraArgs
\* does not ask for more): whole states, numbered from 1, and to go back to,
\* one of those that it has printed.
IsTrace(lines) ==
  /\ \A i \in Heads(lines, Len(lines)) :
       /\ lines[i].num = Cardinality(Heads(lines, i))
       /\ \E p \in StatePrints(lines) : p[1] = i - 1
  /\ \A i \in 1..Len(lines) : lines[i].kind = "text" /\ lines[i].code = "back"
                                => lines[i].num \in 1..Cardinality(Heads(lines, i))

ASSUME TlcRunAssumption == /\ Scripts \subseteq [lines: Seq(Line), code: Int] /\ Noise \in Line
                           /\ \A s \in Scripts : IsTrace(s.lines)
                           /\ PipeSize \in Nat \ {0} /\ MaxNoise \in Nat

VARIABLES script,  \* what TLC prints in this run, and its exit code
          tee,     \* the writer in opts.Stdout
          pc,      \* where the calling goroutine is
          dir,     \* the temporary directory
          child,   \* the TLC process
          code,    \* its exit code, once it has one
          sent,    \* the lines of the script that it has printed
          written, \* everything written to the pipe: sent, and noise
          pipe,    \* what is in the pipe
          framer,  \* the state of ParseToolOutput
          failed,  \* the error that Run or Check returns, if any
          ctx,     \* the context
          result   \* what Check returns

vars == <<script, tee, pc, dir, child, code, sent, written, pipe, framer,
          failed, ctx, result>>

tlcVars == <<child, code, sent, written, pipe>>

NoResult == [status |-> "none", found |-> EmptyResult]

Error == [status |-> "error", found |-> EmptyResult]
-----------------------------------------------------------------------------
Init == /\ script \in Scripts /\ tee \in Tees
        /\ pc = "call" /\ dir = "none"
        /\ child = "unstarted" /\ code = 0 /\ sent = 0
        /\ written = <<>> /\ pipe = <<>>
        /\ framer = FramerInit
        /\ failed = FALSE /\ ctx = "live" /\ result = NoResult

\* Check: the job has no source, name or valid configuration.
RejectJob == /\ pc = "call"
             /\ pc' = "done" /\ result' = Error
             /\ UNCHANGED <<script, tee, dir, tlcVars, framer, failed, ctx>>

MkdirTemp == /\ pc = "call"
             /\ pc' = "files" /\ dir' = "present"
             /\ UNCHANGED <<script, tee, tlcVars, framer, failed, ctx, result>>

\* An error on the way to TLC returns through the deferred RemoveAll.
Fail == /\ failed' = TRUE
        /\ pc' = "cleanup"

\* The specification, the configuration and the auxiliary modules.
WriteFiles == /\ pc = "files"
              /\ \/ pc' = "spawn" /\ UNCHANGED failed
                 \/ Fail
              /\ UNCHANGED <<script, tee, dir, tlcVars, framer, ctx, result>>

\* FindJar, StdoutPipe and Start; Start refuses a context that is done.
Start == /\ pc = "spawn"
         /\ \/ /\ ctx = "live"
               /\ pc' = "parse" /\ child' = "running"
               /\ UNCHANGED failed
            \/ Fail /\ UNCHANGED child
         /\ UNCHANGED <<script, tee, dir, code, sent, written, pipe, framer, ctx, result>>

\* Mutant: a parse error returns before cmd.Wait.
ParseLineReturns ==
  /\ pc = "parse" /\ pipe # <<>>
  /\ pipe' = Tail(pipe)
  /\ IF tee = "fails" \/ Head(pipe) = LongLine
     THEN Fail /\ UNCHANGED framer
     ELSE framer' = Feed(framer, Head(pipe)) /\ UNCHANGED <<pc, failed>>
  /\ UNCHANGED <<script, tee, dir, child, code, sent, written, ctx, result>>

\* One line of sc.Scan; a line that is too long, or a copy to opts.Stdout
\* that fails, ends the parsing with an error and leaves the rest unread.
ParseLine ==
  /\ pc = "parse" /\ pipe # <<>>
  /\ pipe' = Tail(pipe)
  /\ IF tee = "fails" \/ Head(pipe) = LongLine
     THEN pc' = "wait" /\ failed' = TRUE /\ UNCHANGED framer
     ELSE framer' = Feed(framer, Head(pipe)) /\ UNCHANGED <<pc, failed>>
  /\ UNCHANGED <<script, tee, dir, child, code, sent, written, ctx, result>>

\* Mutant: an empty pipe is taken for the end of the output.
ParseEOFEarly == /\ pc = "parse" /\ pipe = <<>>
                 /\ pc' = "wait"
                 /\ UNCHANGED <<script, tee, dir, tlcVars, framer, failed, ctx, result>>

\* End of file: nothing is left and nobody has the write end open.
ParseEOF == /\ pc = "parse" /\ pipe = <<>> /\ child # "running"
            /\ pc' = "wait"
            /\ UNCHANGED <<script, tee, dir, tlcVars, framer, failed, ctx, result>>

\* Mutant: Wait goes on only when the pipe has been read to its end.
WaitForDrain == /\ pc = "wait" /\ child # "running" /\ pipe = <<>>
                /\ pc' = "verdict"
                /\ UNCHANGED <<script, tee, dir, tlcVars, framer, failed, ctx, result>>

\* cmd.Wait: waits for the process, then closes the read end.
Wait == /\ pc = "wait" /\ child # "running"
        /\ pc' = "verdict" /\ pipe' = <<>>
        /\ UNCHANGED <<script, tee, dir, child, code, sent, written, framer,
                       failed, ctx, result>>

\* Mutant: the context is not looked at.
VerdictIgnoresCtx ==
  /\ pc = "verdict"
  /\ \/ failed /\ Fail /\ UNCHANGED result
     \/ /\ ~failed
        /\ pc' = "cleanup" /\ result' = NewResult(framer.msgs, code)
        /\ UNCHANGED failed
  /\ UNCHANGED <<script, tee, dir, tlcVars, framer, ctx>>

\* The parse error first, then the context's, then the Result.
Verdict == /\ pc = "verdict"
           /\ \/ (failed \/ ctx = "cancelled") /\ Fail /\ UNCHANGED result
              \/ /\ ~failed /\ ctx = "live"
                 /\ pc' = "cleanup" /\ result' = NewResult(framer.msgs, code)
                 /\ UNCHANGED failed
           /\ UNCHANGED <<script, tee, dir, tlcVars, framer, ctx>>

\* defer os.RemoveAll(dir), whose error nobody looks at.
Cleanup == /\ pc = "cleanup"
           /\ pc' = "done" /\ dir' \in {"removed", "refused"}
           /\ result' = IF failed THEN Error ELSE result
           /\ UNCHANGED <<script, tee, tlcVars, framer, failed, ctx>>

Caller == \/ RejectJob \/ MkdirTemp \/ WriteFiles \/ Start \/ ParseLine
          \/ ParseEOF \/ Wait \/ Verdict \/ Cleanup
-----------------------------------------------------------------------------
NoiseLines(lines) == Len(SelectSeq(lines, LAMBDA l : l = Noise))

\* A write blocks while the pipe is full.
Write(line) == /\ child = "running"
               /\ Len(pipe) < PipeSize
               /\ pipe' = Append(pipe, line)
               /\ written' = Append(written, line)

Emit == /\ sent < Len(script.lines)
         /\ Write(script.lines[sent + 1])
         /\ sent' = sent + 1
         /\ UNCHANGED <<script, tee, pc, dir, child, code, framer, failed, ctx, result>>

\* cmd.Stderr = cmd.Stdout: the JVM's stderr goes to the same pipe.
EmitNoise == /\ NoiseLines(written) < MaxNoise
              /\ Write(Noise)
              /\ UNCHANGED <<script, tee, pc, dir, child, code, sent, framer,
                             failed, ctx, result>>

End(how, c) == /\ child = "running"
               /\ child' = how /\ code' = c
               /\ UNCHANGED <<script, tee, pc, dir, sent, written, pipe, framer,
                              failed, ctx, result>>

Exit == sent = Len(script.lines) /\ End("exited", script.code)

\* The JVM dies (1) or is killed by someone else (-1).
Crash == \E c \in {1, -1} : End("crashed", c)

\* Mutant: the process of a done context is left alone (exec.Command).
KillNever == FALSE /\ End("killed", -1)

\* exec.CommandContext kills the process of a context that is done.
Kill == ctx = "cancelled" /\ End("killed", -1)

Tlc == Emit \/ EmitNoise \/ Exit

Cancel == /\ ctx = "live" /\ pc # "done"
          /\ ctx' = "cancelled"
          /\ UNCHANGED <<script, tee, pc, dir, tlcVars, framer, failed, result>>

Next == Caller \/ Tlc \/ Crash \/ Kill \/ Cancel

Spec == Init /\ [][Next]_vars

(***************************************************************************)
(* The scheduler runs the calling goroutine and the goroutine that kills,  *)
(* and TLC prints its lines and exits; nobody has to cancel or to crash.   *)
(***************************************************************************)
Fairness == /\ WF_vars(Caller)
            /\ WF_vars(Emit) /\ WF_vars(Exit) /\ WF_vars(Kill)

FairSpec == Spec /\ Fairness
-----------------------------------------------------------------------------
Interpreted == result.status \notin {"none", "error"}

\* A Result is read off everything that TLC wrote, framed as the protocol
\* says, and is a success only of a TLC that printed all it had to and
\* exited 0: Run never calls Wait, which closes the pipe, with lines unread.
ResultIsComplete ==
  Interpreted =>
    /\ framer.msgs = FramedMessages(written)
    /\ result.status = "success" => /\ child = "exited" /\ script.code = 0
                                    /\ sent = Len(script.lines)

\* A run whose process was killed because the context was done, or whose
\* output was cut off by an error, is never taken for a verdict of TLC.
AbortedIsNoVerdict ==
  Interpreted => child \in {"exited", "crashed"} /\ ~failed

\* TLC never runs without its directory, and Check, on whichever path it
\* returns, leaves no process behind and no directory but one that the file
\* system has refused to remove.
NothingLeftBehind ==
  /\ child = "running" => dir = "present"
  /\ pc = "done" => child # "running" /\ dir # "present"

\* Every state that TLC printed in a whole frame is in the trace or counted
\* by a warning, and the trace keeps the states in the order of printing.
StatesAreAccounted ==
  Interpreted =>
    LET r == result.found IN
    /\ Len(r.states) + r.unparsed = Cardinality(StatePrints(written))
    /\ \A i, j \in DOMAIN r.states : i < j => r.states[i] < r.states[j]

\* trace.go:32-34: Loop is the 0-based index of a state of the trace, the
\* one TLC says the behaviour goes back to, unless a warning says that a
\* state could not be parsed (or TLC died, or was not understood).
LoopIsAState ==
  Interpreted /\ result.found.loop >= 0 /\ result.found.unparsed = 0 =>
    /\ result.found.loop + 1 \in DOMAIN result.found.states
    /\ result.found.states[result.found.loop + 1] = result.found.loop + 1

\* Nobody reads the pipe any more and TLC is blocked on it.
Stuck == pc = "wait" /\ failed /\ child = "running" /\ Len(pipe) = PipeSize

\* A TLC that terminates makes Check return, unless the output stopped
\* being read before its end: "The returned error is non-nil only when TLC
\* could not be executed or its output could not be parsed" (run.go:145-146)
\* is not what happens then, since nothing is returned.
ReturnsOrStuck == <>(pc = "done" \/ Stuck)

\* Cancelling the context makes Check return from wherever it is, stuck or
\* not.
CancelReturns == (ctx = "cancelled") ~> (pc = "done")
=============================================================================
