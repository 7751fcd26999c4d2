--------------------------- MODULE TlcRun_proofs ----------------------------
(***************************************************************************)
(* Whatever TLC prints, however small the pipe and whoever dies or cancels *)
(* when: a Result of Run is read off all that TLC wrote, an aborted run is *)
(* no verdict, and neither process nor directory is left behind.           *)
(***************************************************************************)
EXTENDS TlcRun, JarCache, ToolOutput_proofs

Before == {"call", "files", "spawn"}

\* The lines that were parsed and those in the pipe are all that was written.
ReadSoFar == \E read \in Body : written = read \o pipe /\ Follows(framer, read)

RunTypeOK ==
  /\ script \in Scripts /\ sent \in 0..Len(script.lines)
  /\ written \in Body /\ pipe \in Body
  /\ pc \in Before \cup {"parse", "wait", "verdict", "cleanup", "done"}
  /\ child \in {"unstarted", "running", "exited", "crashed", "killed"}
  /\ code \in Int /\ failed \in BOOLEAN /\ ctx \in {"live", "cancelled"}

\* What each place of the calling goroutine knows of the process, of the
\* directory and of the pipe; without an error nothing is left unread.
Places ==
  /\ child = "unstarted" => written = <<>> /\ sent = 0
  /\ pc \in Before => child = "unstarted" /\ ~failed
  /\ pc = "parse" => child # "unstarted" /\ ~failed
  /\ pc = "wait" => child # "unstarted"
  /\ pc = "wait" /\ ~failed => child # "running" /\ pipe = <<>>
  /\ pc = "verdict" => child \notin {"unstarted", "running"} /\ (~failed => pipe = <<>>)
  /\ pc \in {"cleanup", "done"} => child # "running"
  /\ ~failed => ReadSoFar

Dirs == /\ pc = "call" => dir = "none"
        /\ pc \in {"files", "spawn", "parse", "wait", "verdict", "cleanup"} => dir = "present"
        /\ pc = "done" => dir # "present"

Ends == /\ child = "exited" => sent = Len(script.lines) /\ code = script.code
        /\ child = "crashed" => code # 0
        /\ child = "killed" => ctx = "cancelled"

\* A Result is one of a process that ended by itself, and of all its lines.
Results ==
  /\ pc \notin {"cleanup", "done"} => result = NoResult
  /\ Interpreted => /\ ~failed /\ child \in {"exited", "crashed"} /\ pipe = <<>>
                    /\ result = NewResult(framer.msgs, code)

IInv == RunTypeOK /\ Places /\ Dirs /\ Ends /\ Results
-----------------------------------------------------------------------------
\* newResult always has a status, and the success of TLC is its exit code 0.
LEMMA Statuses ==
  ASSUME NEW msgs, NEW c \in Int
  PROVE  /\ NewResult(msgs, c).status \notin {"none", "error"}
         /\ NewResult(msgs, c).status = "success" => c = 0
<1>1. StatusFromExitCode(c) \notin {"none", "error"}
  BY DEF StatusFromExitCode
<1>2. StatusFromExitCode(c) = "success" => c = 0
  BY DEF StatusFromExitCode
<1>3. NewResult(msgs, c).status \in {"failure", StatusFromExitCode(c)}
  BY DEF NewResult
<1> QED
  BY <1>1, <1>2, <1>3

LEMMA NotInterpreted == ~(NoResult.status \notin {"none", "error"})
                        /\ ~(Error.status \notin {"none", "error"})
BY DEF NoResult, Error

LEMMA Scripted == \A s \in Scripts : s.lines \in Body /\ s.code \in Int
BY TlcRunAssumption DEF Body

LEMMA InitInv == Init => IInv
<1> SUFFICES ASSUME Init PROVE IInv
  OBVIOUS
<1>1. <<>> \in Body /\ <<>> = <<>> \o <<>>
  BY EmptySeq, ConcatEmptySeq DEF Body
<1>2. RunTypeOK
  <2>1. script \in Scripts /\ sent = 0 /\ Len(script.lines) \in Nat
    BY Scripted DEF Init, Body
  <2>2. sent \in 0..Len(script.lines)
    BY <2>1
  <2>3. written \in Body /\ pipe \in Body
    BY <1>1 DEF Init
  <2>4. /\ pc = "call" /\ child = "unstarted" /\ failed = FALSE /\ ctx = "live" /\ code \in Int
    BY DEF Init
  <2> QED
    BY <2>1, <2>2, <2>3, <2>4 DEF RunTypeOK, Before
<1>3. ReadSoFar
  BY <1>1, NothingRead DEF Init, ReadSoFar
<1>4. Places /\ Dirs /\ Ends
  BY <1>3 DEF Init, Places, Dirs, Ends, Before
<1>5. Results
  BY NotInterpreted DEF Init, Results, Interpreted
<1> QED
  BY <1>2, <1>4, <1>5 DEF IInv
-----------------------------------------------------------------------------
(***************************************************************************)
(* The calling goroutine.                                                  *)
(***************************************************************************)
USE DEF tlcVars

\* What a step that touches neither output nor framer keeps.
LEMMA SameOutput ==
  ASSUME ReadSoFar, UNCHANGED <<written, pipe, framer>>
  PROVE  ReadSoFar'
BY DEF ReadSoFar

LEMMA RejectJobInv == IInv /\ RejectJob => IInv'
<1> SUFFICES ASSUME IInv, RejectJob PROVE IInv'
  OBVIOUS
<1>1. /\ pc = "call" /\ pc' = "done" /\ result' = Error
      /\ UNCHANGED <<script, tee, dir, child, code, sent, written, pipe, framer, failed, ctx>>
  BY DEF RejectJob
<1>2. RunTypeOK'
  BY <1>1 DEF IInv, RunTypeOK
<1>3. Places'
  BY <1>1, SameOutput DEF IInv, Places, Before
<1>4. Dirs' /\ Ends'
  BY <1>1 DEF IInv, Dirs, Ends
<1>5. Results'
  BY <1>1, NotInterpreted DEF IInv, Results, Interpreted
<1> QED
  BY <1>2, <1>3, <1>4, <1>5 DEF IInv

LEMMA MkdirTempInv == IInv /\ MkdirTemp => IInv'
<1> SUFFICES ASSUME IInv, MkdirTemp PROVE IInv'
  OBVIOUS
<1>1. /\ pc = "call" /\ pc' = "files" /\ dir' = "present"
      /\ UNCHANGED <<script, tee, child, code, sent, written, pipe, framer, failed, ctx, result>>
  BY DEF MkdirTemp
<1>2. RunTypeOK'
  BY <1>1 DEF IInv, RunTypeOK, Before
<1>3. Places'
  BY <1>1, SameOutput DEF IInv, Places, Before
<1>4. Dirs' /\ Ends'
  BY <1>1 DEF IInv, Dirs, Ends
<1>5. Results'
  BY <1>1 DEF IInv, Results, Interpreted
<1> QED
  BY <1>2, <1>3, <1>4, <1>5 DEF IInv

LEMMA WriteFilesInv == IInv /\ WriteFiles => IInv'
<1> SUFFICES ASSUME IInv, WriteFiles PROVE IInv'
  OBVIOUS
<1>1. /\ pc = "files"
      /\ \/ pc' = "spawn" /\ failed' = failed
         \/ pc' = "cleanup" /\ failed' = TRUE
      /\ UNCHANGED <<script, tee, dir, child, code, sent, written, pipe, framer, ctx, result>>
  BY DEF WriteFiles, Fail
<1>2. RunTypeOK'
  BY <1>1 DEF IInv, RunTypeOK, Before
<1>3. Places'
  BY <1>1, SameOutput DEF IInv, Places, Before
<1>4. Dirs' /\ Ends'
  BY <1>1 DEF IInv, Dirs, Ends
<1>5. Results'
  BY <1>1, NotInterpreted DEF IInv, Results, Interpreted
<1> QED
  BY <1>2, <1>3, <1>4, <1>5 DEF IInv

LEMMA StartInv == IInv /\ Start => IInv'
<1> SUFFICES ASSUME IInv, Start PROVE IInv'
  OBVIOUS
<1>1. /\ pc = "spawn"
      /\ \/ pc' = "parse" /\ child' = "running" /\ failed' = failed
         \/ pc' = "cleanup" /\ failed' = TRUE /\ child' = child
      /\ UNCHANGED <<script, tee, dir, code, sent, written, pipe, framer, ctx, result>>
  BY DEF Start, Fail
<1>2. RunTypeOK'
  BY <1>1 DEF IInv, RunTypeOK, Before
<1>3. Places'
  BY <1>1, SameOutput DEF IInv, Places, Before
<1>4. Dirs' /\ Ends'
  BY <1>1 DEF IInv, Dirs, Ends
<1>5. Results'
  BY <1>1, NotInterpreted DEF IInv, Results, Interpreted
<1> QED
  BY <1>2, <1>3, <1>4, <1>5 DEF IInv

\* One more line has been read, unless it could not be.
LEMMA ParseLineInv == IInv /\ ParseLine => IInv'
<1> SUFFICES ASSUME IInv, ParseLine PROVE IInv'
  OBVIOUS
<1>1. /\ pc = "parse" /\ pipe # <<>> /\ pipe' = Tail(pipe)
      /\ \/ pc' = "wait" /\ failed' = TRUE /\ framer' = framer
         \/ framer' = Feed(framer, Head(pipe)) /\ pc' = pc /\ failed' = failed
      /\ UNCHANGED <<script, tee, dir, child, code, sent, written, ctx, result>>
  BY DEF ParseLine
<1>2. /\ pipe \in Seq(Line) /\ Head(pipe) \in Line
      /\ Tail(pipe) \in Seq(Line) /\ Len(Tail(pipe)) = Len(pipe) - 1
      /\ \A i \in 1..Len(Tail(pipe)) : Tail(pipe)[i] = pipe[i + 1]
      /\ Head(pipe) = pipe[1] /\ Len(pipe) \in Nat
  BY <1>1, HeadTailProperties DEF IInv, RunTypeOK, Body
<1>3. RunTypeOK'
  BY <1>1, <1>2 DEF IInv, RunTypeOK, Before, Body
<1>4. ASSUME ~failed' PROVE ReadSoFar'
  <2>1. ~failed /\ framer' = Feed(framer, Head(pipe))
    BY <1>1, <1>4
  <2>2. PICK read \in Body : written = read \o pipe /\ Follows(framer, read)
    BY <2>1 DEF IInv, Places, ReadSoFar
  <2>3. Append(read, Head(pipe)) \in Body /\ Follows(framer', Append(read, Head(pipe)))
    BY <1>2, <2>1, <2>2, FeedFollows DEF Body
  <2>4. read \o pipe = Append(read, Head(pipe)) \o Tail(pipe)
    <3> DEFINE a == Append(read, Head(pipe))
               t == Tail(pipe)
    <3>1. /\ a \in Seq(Line) /\ Len(a) = Len(read) + 1 /\ a[Len(read) + 1] = pipe[1]
          /\ \A i \in 1..Len(read) : a[i] = read[i]
          /\ read \in Seq(Line) /\ Len(read) \in Nat
      BY <1>2 DEF Body
    <3>2. t \in Seq(Line) /\ Len(t) = Len(pipe) - 1 /\ \A i \in 1..Len(t) : t[i] = pipe[i + 1]
      BY <1>2
    <3> HIDE DEF a, t
    <3>3. /\ a \o t \in Seq(Line) /\ Len(a \o t) = Len(read) + Len(pipe)
          /\ \A i \in 1..(Len(read) + Len(pipe)) :
               (a \o t)[i] = IF i <= Len(read) + 1 THEN a[i] ELSE t[i - (Len(read) + 1)]
      <4>1. /\ a \o t \in Seq(Line) /\ Len(a \o t) = Len(a) + Len(t)
            /\ \A i \in 1..(Len(a) + Len(t)) :
                 (a \o t)[i] = IF i <= Len(a) THEN a[i] ELSE t[i - Len(a)]
        BY <3>1, <3>2, ConcatProperties
      <4>2. Len(a) + Len(t) = Len(read) + Len(pipe)
        BY <1>2, <3>1, <3>2
      <4> QED
        BY <3>1, <4>1, <4>2
    <3>4. /\ read \o pipe \in Seq(Line) /\ Len(read \o pipe) = Len(read) + Len(pipe)
          /\ \A i \in 1..(Len(read) + Len(pipe)) :
               (read \o pipe)[i] = IF i <= Len(read) THEN read[i] ELSE pipe[i - Len(read)]
      BY <1>2, <3>1, ConcatProperties
    <3>5. ASSUME NEW i \in 1..(Len(read) + Len(pipe)) PROVE (read \o pipe)[i] = (a \o t)[i]
      <4>1. CASE i \in 1..Len(read)
        BY <3>1, <3>3, <3>4, <4>1
      <4>2. CASE i = Len(read) + 1
        <5>1. (read \o pipe)[i] = pipe[1]
          BY <3>1, <3>4, <4>2
        <5>2. (a \o t)[i] = a[i]
          BY <3>1, <3>3, <4>2
        <5> QED
          BY <3>1, <4>2, <5>1, <5>2
      <4>3. CASE i > Len(read) + 1
        <5>1. i - (Len(read) + 1) \in 1..Len(t) /\ i - (Len(read) + 1) + 1 = i - Len(read)
          BY <1>2, <3>1, <3>2, <4>3
        <5>2. t[i - (Len(read) + 1)] = pipe[i - Len(read)]
          BY <3>2, <5>1
        <5>3. (read \o pipe)[i] = pipe[i - Len(read)]
          BY <3>1, <3>4, <4>3
        <5>4. (a \o t)[i] = t[i - (Len(read) + 1)]
          BY <3>1, <3>3, <4>3
        <5> QED
          BY <5>2, <5>3, <5>4
      <4>4. i \in 1..Len(read) \/ i = Len(read) + 1 \/ i > Len(read) + 1
        BY <1>2, <3>1
      <4> QED
        BY <4>1, <4>2, <4>3, <4>4, Zenon
    <3>6. read \o pipe = a \o t
      BY <3>3, <3>4, <3>5, SeqEqual
    <3> QED
      BY <3>6 DEF a, t
  <2> QED
    BY <1>1, <2>2, <2>3, <2>4 DEF ReadSoFar
<1>5. Places'
  BY <1>1, <1>4 DEF IInv, Places, Before
<1>6. Dirs' /\ Ends'
  BY <1>1 DEF IInv, Dirs, Ends
<1>7. Results'
  BY <1>1, NotInterpreted DEF IInv, Results, Interpreted
<1> QED
  BY <1>3, <1>5, <1>6, <1>7 DEF IInv

LEMMA ParseEOFInv == IInv /\ ParseEOF => IInv'
<1> SUFFICES ASSUME IInv, ParseEOF PROVE IInv'
  OBVIOUS
<1>1. /\ pc = "parse" /\ pipe = <<>> /\ child # "running" /\ pc' = "wait"
      /\ UNCHANGED <<script, tee, dir, child, code, sent, written, pipe, framer, failed,
                     ctx, result>>
  BY DEF ParseEOF
<1>2. RunTypeOK'
  BY <1>1 DEF IInv, RunTypeOK, Before
<1>3. Places'
  BY <1>1, SameOutput DEF IInv, Places, Before
<1>4. Dirs' /\ Ends'
  BY <1>1 DEF IInv, Dirs, Ends
<1>5. Results'
  BY <1>1 DEF IInv, Results, Interpreted
<1> QED
  BY <1>2, <1>3, <1>4, <1>5 DEF IInv

\* Wait closes the pipe, which is empty unless the parsing has failed.
LEMMA WaitInv == IInv /\ Wait => IInv'
<1> SUFFICES ASSUME IInv, Wait PROVE IInv'
  OBVIOUS
<1>1. /\ pc = "wait" /\ child # "running" /\ pc' = "verdict" /\ pipe' = <<>>
      /\ UNCHANGED <<script, tee, dir, child, code, sent, written, framer, failed, ctx, result>>
  BY DEF Wait
<1>2. RunTypeOK'
  <2>1. <<>> \in Body
    BY EmptySeq DEF Body
  <2> QED
    BY <1>1, <2>1 DEF IInv, RunTypeOK, Before
<1>3. ASSUME ~failed' PROVE ReadSoFar'
  <2>1. ~failed /\ pipe' = pipe
    BY <1>1, <1>3 DEF IInv, Places
  <2> QED
    BY <1>1, <2>1, SameOutput DEF IInv, Places
<1>4. Places'
  BY <1>1, <1>3 DEF IInv, Places, Before
<1>5. Dirs' /\ Ends'
  BY <1>1 DEF IInv, Dirs, Ends
<1>6. Results'
  BY <1>1, NotInterpreted DEF IInv, Results, Interpreted
<1> QED
  BY <1>2, <1>4, <1>5, <1>6 DEF IInv

LEMMA VerdictInv == IInv /\ Verdict => IInv'
<1> SUFFICES ASSUME IInv, Verdict PROVE IInv'
  OBVIOUS
<1>1. /\ pc = "verdict" /\ pc' = "cleanup"
      /\ \/ failed' = TRUE /\ result' = result
         \/ /\ ~failed /\ ctx = "live" /\ failed' = failed
            /\ result' = NewResult(framer.msgs, code)
      /\ UNCHANGED <<script, tee, dir, child, code, sent, written, pipe, framer, ctx>>
  BY DEF Verdict, Fail
<1>2. RunTypeOK'
  BY <1>1 DEF IInv, RunTypeOK, Before
<1>3. Places'
  BY <1>1, SameOutput DEF IInv, Places, Before
<1>4. Dirs' /\ Ends'
  BY <1>1 DEF IInv, Dirs, Ends
<1>5. Results'
  <2>1. CASE failed' = TRUE /\ result' = result
    BY <1>1, <2>1, NotInterpreted DEF IInv, Results, Interpreted
  <2>2. CASE /\ ~failed /\ ctx = "live" /\ failed' = failed
             /\ result' = NewResult(framer.msgs, code)
    BY <1>1, <2>2 DEF IInv, RunTypeOK, Places, Ends, Results, Interpreted
  <2> QED
    BY <1>1, <2>1, <2>2
<1> QED
  BY <1>2, <1>3, <1>4, <1>5 DEF IInv

LEMMA CleanupInv == IInv /\ Cleanup => IInv'
<1> SUFFICES ASSUME IInv, Cleanup PROVE IInv'
  OBVIOUS
<1>1. /\ pc = "cleanup" /\ pc' = "done" /\ dir' \in {"removed", "refused"}
      /\ result' = IF failed THEN Error ELSE result
      /\ UNCHANGED <<script, tee, child, code, sent, written, pipe, framer, failed, ctx>>
  BY DEF Cleanup
<1>2. RunTypeOK'
  BY <1>1 DEF IInv, RunTypeOK, Before
<1>3. Places'
  BY <1>1, SameOutput DEF IInv, Places, Before
<1>4. Dirs' /\ Ends'
  BY <1>1 DEF IInv, Dirs, Ends
<1>5. Results'
  BY <1>1, NotInterpreted DEF IInv, Results, Interpreted
<1> QED
  BY <1>2, <1>3, <1>4, <1>5 DEF IInv
-----------------------------------------------------------------------------
(***************************************************************************)
(* The process, its stderr, and whoever cancels.                           *)
(***************************************************************************)
LEMMA WriteInv ==
  ASSUME IInv, NEW l \in Line, Write(l),
         sent' \in 0..Len(script.lines),
         UNCHANGED <<script, tee, pc, dir, child, code, framer, failed, ctx, result>>
  PROVE  IInv'
<1>1. /\ child = "running" /\ pipe' = Append(pipe, l) /\ written' = Append(written, l)
      /\ pipe \in Body /\ written \in Body
      /\ pc \in {"parse", "wait", "verdict"} /\ (pc = "wait" => failed) /\ pc # "verdict"
  BY DEF IInv, Write, RunTypeOK, Places, Before
<1>2. RunTypeOK'
  <2>1. pipe' \in Body /\ written' \in Body
    BY <1>1 DEF Body
  <2> QED
    BY <2>1 DEF IInv, RunTypeOK, Before
<1>3. ASSUME ~failed' PROVE ReadSoFar'
  <2>1. PICK read \in Body : written = read \o pipe /\ Follows(framer, read)
    BY <1>3 DEF IInv, Places, ReadSoFar
  <2>2. written' = read \o pipe'
    <3>1. pipe \in Seq(Line) /\ read \in Seq(Line) /\ <<l>> \in Seq(Line)
      BY <1>1 DEF Body
    <3>2. Append(pipe, l) = pipe \o <<l>>
      BY <3>1
    <3>3. Append(read \o pipe, l) = (read \o pipe) \o <<l>>
      BY <3>1
    <3> QED
      BY <1>1, <2>1, <3>1, <3>2, <3>3, ConcatAssociative
  <2> QED
    BY <2>1, <2>2 DEF ReadSoFar
<1>4. Places'
  BY <1>1, <1>3 DEF IInv, Places, Before
<1>5. Dirs' /\ Ends'
  BY <1>1 DEF IInv, Dirs, Ends
<1>6. Results'
  BY <1>1, NotInterpreted DEF IInv, Results, Interpreted
<1> QED
  BY <1>2, <1>4, <1>5, <1>6 DEF IInv

LEMMA EmitInv == IInv /\ Emit => IInv'
<1> SUFFICES ASSUME IInv, Emit PROVE IInv'
  OBVIOUS
<1>1. script.lines \in Seq(Line) /\ sent \in 0..Len(script.lines) /\ sent < Len(script.lines)
  BY Scripted DEF IInv, RunTypeOK, Emit, Body
<1>2. script.lines[sent + 1] \in Line /\ sent + 1 \in 0..Len(script.lines)
  BY <1>1
<1> QED
  BY <1>2, WriteInv DEF Emit

LEMMA EmitNoiseInv == IInv /\ EmitNoise => IInv'
<1> SUFFICES ASSUME IInv, EmitNoise PROVE IInv'
  OBVIOUS
<1>1. sent' \in 0..Len(script.lines)
  BY DEF IInv, RunTypeOK, EmitNoise
<1> QED
  BY <1>1, WriteInv, TlcRunAssumption DEF EmitNoise

LEMMA EndInv ==
  ASSUME IInv, NEW how \in {"exited", "crashed", "killed"}, NEW c \in Int, End(how, c),
         how = "exited" => sent = Len(script.lines) /\ c = script.code,
         how = "crashed" => c # 0,
         how = "killed" => ctx = "cancelled"
  PROVE  IInv'
<1>1. /\ child = "running" /\ child' = how /\ code' = c
      /\ UNCHANGED <<script, tee, pc, dir, sent, written, pipe, framer, failed, ctx, result>>
  BY DEF End
<1>2. RunTypeOK'
  BY <1>1 DEF IInv, RunTypeOK
<1>3. Places'
  BY <1>1, SameOutput DEF IInv, Places, Before
<1>4. Dirs' /\ Ends'
  BY <1>1 DEF IInv, Dirs, Ends
<1>5. Results'
  BY <1>1 DEF IInv, Places, Results, Interpreted
<1> QED
  BY <1>2, <1>3, <1>4, <1>5 DEF IInv

LEMMA EndsInv == IInv /\ (Exit \/ Crash \/ Kill) => IInv'
<1> SUFFICES ASSUME IInv, Exit \/ Crash \/ Kill PROVE IInv'
  OBVIOUS
<1>1. CASE Exit
  BY <1>1, EndInv, Scripted DEF Exit, IInv, RunTypeOK
<1>2. CASE Crash
  BY <1>2, EndInv DEF Crash
<1>3. CASE Kill
  BY <1>3, EndInv DEF Kill
<1> QED
  BY <1>1, <1>2, <1>3

LEMMA CancelInv == IInv /\ Cancel => IInv'
<1> SUFFICES ASSUME IInv, Cancel PROVE IInv'
  OBVIOUS
<1>1. /\ ctx' = "cancelled"
      /\ UNCHANGED <<script, tee, pc, dir, child, code, sent, written, pipe, framer, failed,
                     result>>
  BY DEF Cancel
<1>2. RunTypeOK'
  BY <1>1 DEF IInv, RunTypeOK
<1>3. Places'
  BY <1>1, SameOutput DEF IInv, Places, Before
<1>4. Dirs' /\ Ends'
  BY <1>1 DEF IInv, Dirs, Ends
<1>5. Results'
  BY <1>1 DEF IInv, Results, Interpreted
<1> QED
  BY <1>2, <1>3, <1>4, <1>5 DEF IInv
-----------------------------------------------------------------------------
LEMMA NextInv == IInv /\ [Next]_vars => IInv'
<1> SUFFICES ASSUME IInv, [Next]_vars PROVE IInv'
  OBVIOUS
<1>1. CASE UNCHANGED vars
  BY <1>1, SameOutput DEF vars, IInv, RunTypeOK, Places, Dirs, Ends, Results, Interpreted
<1>2. CASE Caller
  BY <1>2, RejectJobInv, MkdirTempInv, WriteFilesInv, StartInv, ParseLineInv, ParseEOFInv,
     WaitInv, VerdictInv, CleanupInv DEF Caller
<1>3. CASE Tlc \/ Crash \/ Kill \/ Cancel
  BY <1>3, EmitInv, EmitNoiseInv, EndsInv, CancelInv DEF Tlc
<1> QED
  BY <1>1, <1>2, <1>3 DEF Next

LEMMA SpecInv == Spec => []IInv
  BY InitInv, NextInv, PTL DEF Spec

-----------------------------------------------------------------------------
(***************************************************************************)
(* The trace: what the lines that TLC has printed so far, k of its script  *)
(* and noise in between, make of the message that is open and of a result. *)
(***************************************************************************)
\* The first k lines end inside the message that line s starts.
OpenIn(lines, k, s) == /\ s \in 1..k /\ lines[s].kind = "start"
                       /\ \A i \in (s + 1)..k : ~IsDelimiter(lines[i])

\* That message is a state of the counterexample, and its head is printed.
InHead(lines, k) == \E s \in 1..k : OpenIn(lines, k, s) /\ s < k /\ IsHead(lines[s + 1])

\* The states that have begun, and those whose print has ended.
Count(lines, k) == Cardinality(Heads(lines, k))

Whole(lines, k) == IF InHead(lines, k) THEN Count(lines, k) - 1 ELSE Count(lines, k)

\* The framer has a message open exactly when the script has: noise is a text.
CurrentIs(lines, k, f) ==
  /\ f.open => \E s \in 1..k : /\ OpenIn(lines, k, s)
                               /\ f.cur.code = lines[s].code /\ f.cur.sev = lines[s].sev
  /\ ~f.open => \A s \in 1..k : ~OpenIn(lines, k, s)
  /\ f.open /\ f.cur.body # <<>> => f.cur.body[1].kind = "text"

\* The first line of an open state print is the last head, so its number is
\* the count of the heads.
HeadIsNumbered(lines, k, f) ==
  f.open /\ OpensWith(f.cur, "head") =>
    InHead(lines, k) /\ f.cur.body[1].num = Count(lines, k)

\* The trace has no state twice and none that has not ended.
Ordered(lines, k, r) ==
  /\ \A i, j \in 1..Len(r.states) : i < j => r.states[i] < r.states[j]
  /\ \A i \in 1..Len(r.states) : r.states[i] <= Whole(lines, k)

\* Without a warning it has them all, each at the place of its number.
Parsed(lines, k, r) ==
  r.unparsed = 0 => /\ Len(r.states) = Whole(lines, k)
                    /\ \A i \in 1..Len(r.states) : r.states[i] = i

\* Then a loop, open or read, goes back to a state of the trace.
Loops(f, r) ==
  r.unparsed = 0 =>
    /\ f.open /\ f.cur.code = "loop" /\ OpensWith(f.cur, "back") =>
         f.cur.body[1].num <= Len(r.states)
    /\ r.loop >= 0 => r.loop + 1 <= Len(r.states)

Knows(lines, k, f, r) ==
  /\ CurrentIs(lines, k, f) /\ HeadIsNumbered(lines, k, f)
  /\ Ordered(lines, k, r) /\ Parsed(lines, k, r) /\ Loops(f, r)

LEMMA HeadsFinite ==
  ASSUME NEW lines, NEW k \in Nat
  PROVE  IsFiniteSet(Heads(lines, k)) /\ Count(lines, k) \in Nat
<1>1. IsFiniteSet(1..k)
  BY FS_Interval
<1>2. Heads(lines, k) \subseteq 1..k
  BY DEF Heads
<1> QED
  BY <1>1, <1>2, FS_Subset, FS_CardinalityType DEF Count

LEMMA OneMoreSent ==
  ASSUME NEW lines \in Body, NEW k \in Nat, k < Len(lines)
  PROVE  LET l == lines[k + 1]
         IN  /\ l \in Line
             /\ \A s \in 1..k : OpenIn(lines, k + 1, s)
                                  <=> OpenIn(lines, k, s) /\ l.kind = "text"
             /\ OpenIn(lines, k + 1, k + 1) <=> l.kind = "start"
             /\ Count(lines, k + 1) = IF IsHead(l) THEN Count(lines, k) + 1 ELSE Count(lines, k)
<1> DEFINE l == lines[k + 1]
<1>1. l \in Line
  BY DEF Body
<1>2. ASSUME NEW s \in 1..k
      PROVE  OpenIn(lines, k + 1, s) <=> OpenIn(lines, k, s) /\ l.kind = "text"
  <2>1. (s + 1)..(k + 1) = ((s + 1)..k) \cup {k + 1} /\ s \in 1..(k + 1)
    OBVIOUS
  <2>2. ~IsDelimiter(l) <=> l.kind = "text"
    BY <1>1 DEF IsDelimiter, Line
  <2> QED
    BY <2>1, <2>2 DEF OpenIn
<1>3. OpenIn(lines, k + 1, k + 1) <=> l.kind = "start"
  <2>1. (k + 1 + 1)..(k + 1) = {} /\ k + 1 \in 1..(k + 1)
    OBVIOUS
  <2> QED
    BY <2>1 DEF OpenIn
<1>4. CASE IsHead(l)
  <2>1. Heads(lines, k + 1) = Heads(lines, k) \cup {k + 1}
    BY <1>4 DEF Heads
  <2>2. k + 1 \notin Heads(lines, k)
    BY DEF Heads
  <2>3. Count(lines, k + 1) = Count(lines, k) + 1
    BY <2>1, <2>2, HeadsFinite, FS_AddElement DEF Count
  <2> QED
    BY <1>1, <1>2, <1>3, <1>4, <2>3
<1>5. CASE ~IsHead(l)
  <2>1. Heads(lines, k + 1) = Heads(lines, k)
    BY <1>5 DEF Heads
  <2> QED
    BY <1>1, <1>2, <1>3, <1>5, <2>1 DEF Count
<1> QED
  BY <1>4, <1>5

LEMMA OpenInIsOne ==
  ASSUME NEW lines, NEW k \in Nat, NEW s \in 1..k, NEW t \in 1..k,
         OpenIn(lines, k, s), OpenIn(lines, k, t)
  PROVE  s = t
<1>1. ~(s < t)
  <2>1. s < t => t \in (s + 1)..k
    OBVIOUS
  <2> QED
    BY <2>1 DEF OpenIn, IsDelimiter
<1>2. ~(t < s)
  <2>1. t < s => s \in (t + 1)..k
    OBVIOUS
  <2> QED
    BY <2>1 DEF OpenIn, IsDelimiter
<1> QED
  BY <1>1, <1>2

\* A header comes right after the START of a state, which is whole.
LEMMA HeadInState ==
  ASSUME NEW lines \in Body, IsTrace(lines), NEW i \in 1..Len(lines), IsHead(lines[i])
  PROVE  /\ i - 1 \in 1..Len(lines) /\ lines[i - 1].kind = "start"
         /\ lines[i - 1].code = "state" /\ lines[i - 1].sev = "state"
         /\ \E e \in (i + 1)..Len(lines) : /\ lines[e].kind = "end"
                                           /\ \A j \in i..(e - 1) : ~IsDelimiter(lines[j])
<1>1. Len(lines) \in Nat /\ i \in Heads(lines, Len(lines))
  BY DEF Body, Heads
<1>2. PICK p \in StatePrints(lines) : p[1] = i - 1
  BY <1>1 DEF IsTrace
<1>3. p \in Frames(lines) /\ IsStatePrint(FramedMessage(lines, p))
  BY <1>2 DEF StatePrints
<1>4. /\ p[1] \in 1..Len(lines) /\ p[2] \in 1..Len(lines) /\ p[1] < p[2]
      /\ lines[p[1]].kind = "start" /\ lines[p[2]].kind = "end"
      /\ \A j \in (p[1] + 1)..(p[2] - 1) : ~IsDelimiter(lines[j])
  BY <1>3 DEF Frames
<1>5. lines[p[1]].code = "state" /\ lines[p[1]].sev = "state"
  BY <1>3 DEF IsStatePrint, FramedMessage
<1>6. p[2] # i
  BY <1>4 DEF IsHead
<1>7. p[2] \in (i + 1)..Len(lines) /\ p[1] + 1 = i
  BY <1>1, <1>2, <1>4, <1>6
<1> QED
  BY <1>2, <1>4, <1>5, <1>7

LEMMA HeadIsOpen ==
  ASSUME NEW lines \in Body, IsTrace(lines), NEW k \in Nat, k < Len(lines), InHead(lines, k)
  PROVE  /\ lines[k + 1].kind # "start"
         /\ \E s \in 1..k : /\ OpenIn(lines, k, s)
                            /\ lines[s].code = "state" /\ lines[s].sev = "state"
<1>1. PICK s \in 1..k : OpenIn(lines, k, s) /\ s < k /\ IsHead(lines[s + 1])
  BY DEF InHead
<1>2. s + 1 \in 1..Len(lines) /\ s + 1 - 1 = s /\ Len(lines) \in Nat
  BY <1>1 DEF Body
<1>3. lines[s].code = "state" /\ lines[s].sev = "state"
  BY <1>1, <1>2, HeadInState
<1>4. PICK e \in (s + 1 + 1)..Len(lines) : /\ lines[e].kind = "end"
                                           /\ \A j \in (s + 1)..(e - 1) : ~IsDelimiter(lines[j])
  BY <1>1, <1>2, HeadInState
<1>5. e \notin (s + 1)..k
  BY <1>1, <1>4 DEF OpenIn, IsDelimiter
<1>6. e >= k + 1
  BY <1>1, <1>2, <1>4, <1>5
<1>7. e = k + 1 \/ k + 1 \in (s + 1)..(e - 1)
  BY <1>1, <1>2, <1>4, <1>6
<1>8. lines[k + 1].kind # "start"
  BY <1>4, <1>7 DEF IsDelimiter
<1> QED
  BY <1>1, <1>3, <1>8

-----------------------------------------------------------------------------
\* Noise is in no state and no loop that could be read.
LEMMA NoiseKnows ==
  ASSUME NEW lines \in Body, NEW k \in 0..Len(lines), NEW f \in Framers,
         NEW r \in ResultType, Knows(lines, k, f, r)
  PROVE  Knows(lines, k, Feed(f, Noise), After(f, r, Noise))
<1> DEFINE g == Feed(f, Noise)
<1>1. Noise \in Line /\ Noise.kind = "text" /\ Noise.code = "noise"
  BY TlcRunAssumption DEF Noise, TextLine
<1>2. After(f, r, Noise) = r
  BY <1>1 DEF After
<1>3. CASE ~f.open
  <2>1. g = f
    BY <1>1, <1>3, FeedCases
  <2> QED
    BY <1>2, <2>1
<1>4. CASE f.open
  <2>1. /\ g.open /\ g.cur.code = f.cur.code /\ g.cur.sev = f.cur.sev
        /\ g.cur.body = Append(f.cur.body, Noise) /\ f.cur \in Message
    BY <1>1, <1>4, FeedCases DEF Framers
  <2>2. /\ g.cur.body # <<>>
        /\ g.cur.body[1] = IF f.cur.body = <<>> THEN Noise ELSE f.cur.body[1]
    BY <1>1, <2>1, FirstText
  <2> HIDE DEF g
  <2>3. CurrentIs(lines, k, g)
    BY <1>1, <1>4, <2>1, <2>2 DEF Knows, CurrentIs
  <2>4. /\ OpensWith(g.cur, "head") => OpensWith(f.cur, "head") /\ g.cur.body[1] = f.cur.body[1]
        /\ OpensWith(g.cur, "back") => OpensWith(f.cur, "back") /\ g.cur.body[1] = f.cur.body[1]
    BY <1>1, <2>2 DEF OpensWith
  <2>5. HeadIsNumbered(lines, k, g)
    BY <1>4, <2>4 DEF Knows, HeadIsNumbered
  <2>6. Loops(g, r)
    BY <1>4, <2>1, <2>4 DEF Knows, Loops
  <2>7. Knows(lines, k, g, r)
    BY <2>3, <2>5, <2>6 DEF Knows
  <2> QED
    BY <1>2, <2>7 DEF g
<1> QED
  BY <1>3, <1>4

\* The parts that a line between the STARTs and ENDs leaves as they are.
LEMMA SameTrace ==
  ASSUME NEW lines, NEW k, NEW n, NEW r, Ordered(lines, k, r), Parsed(lines, k, r),
         Whole(lines, n) = Whole(lines, k)
  PROVE  Ordered(lines, n, r) /\ Parsed(lines, n, r)
BY DEF Ordered, Parsed

LEMMA StartKnows ==
  ASSUME NEW lines \in Body, IsTrace(lines), NEW k \in Nat, k < Len(lines),
         NEW f \in Framers, NEW r \in ResultType, Knows(lines, k, f, r),
         lines[k + 1].kind = "start"
  PROVE  Knows(lines, k + 1, Feed(f, lines[k + 1]), After(f, r, lines[k + 1]))
<1> DEFINE l == lines[k + 1]
           g == Feed(f, l)
<1>1. /\ l \in Line /\ OpenIn(lines, k + 1, k + 1)
      /\ \A s \in 1..k : ~OpenIn(lines, k + 1, s)
      /\ ~IsHead(l) /\ Count(lines, k + 1) = Count(lines, k)
  BY OneMoreSent DEF IsHead
<1>2. g.open /\ g.cur = [code |-> l.code, sev |-> l.sev, body |-> <<>>]
  BY <1>1, FeedCases
<1>3. After(f, r, l) = r
  BY DEF After
<1>4. ~InHead(lines, k)
  BY HeadIsOpen
<1>5. ~InHead(lines, k + 1)
  BY <1>1 DEF InHead
<1>6. Whole(lines, k + 1) = Whole(lines, k)
  BY <1>1, <1>4, <1>5 DEF Whole
<1> HIDE DEF g
<1>7. CurrentIs(lines, k + 1, g) /\ HeadIsNumbered(lines, k + 1, g) /\ Loops(g, r)
  BY <1>1, <1>2 DEF Knows, CurrentIs, HeadIsNumbered, Loops, OpensWith
<1>8. Ordered(lines, k + 1, r) /\ Parsed(lines, k + 1, r)
  BY <1>6, SameTrace DEF Knows
<1> QED
  BY <1>3, <1>7, <1>8 DEF Knows, g

LEMMA TextKnows ==
  ASSUME NEW lines \in Body, IsTrace(lines), NEW k \in Nat, k < Len(lines),
         NEW f \in Framers, NEW r \in ResultType, Knows(lines, k, f, r),
         lines[k + 1].kind = "text"
  PROVE  Knows(lines, k + 1, Feed(f, lines[k + 1]), After(f, r, lines[k + 1]))
<1> DEFINE l == lines[k + 1]
           g == Feed(f, l)
<1>1. /\ l \in Line /\ ~OpenIn(lines, k + 1, k + 1)
      /\ \A s \in 1..k : OpenIn(lines, k + 1, s) <=> OpenIn(lines, k, s)
      /\ Count(lines, k + 1) = IF IsHead(l) THEN Count(lines, k) + 1 ELSE Count(lines, k)
      /\ Count(lines, k) \in Nat /\ k + 1 \in 1..Len(lines) /\ Len(lines) \in Nat
  BY OneMoreSent, HeadsFinite DEF Body
<1>2. After(f, r, l) = r
  BY DEF After
<1>3. ASSUME IsHead(l)
      PROVE  /\ k \in 1..k /\ OpenIn(lines, k, k) /\ lines[k].code = "state"
             /\ ~InHead(lines, k) /\ InHead(lines, k + 1)
  <2>1. /\ k \in 1..Len(lines) /\ lines[k].kind = "start" /\ lines[k].code = "state"
    BY <1>1, <1>3, HeadInState
  <2>2. k \in 1..k /\ (k + 1)..k = {}
    BY <2>1
  <2>3. OpenIn(lines, k, k)
    BY <2>1, <2>2 DEF OpenIn
  <2>4. ~InHead(lines, k)
    BY <2>2, <2>3, OpenInIsOne DEF InHead
  <2>5. InHead(lines, k + 1)
    BY <1>1, <1>3, <2>2, <2>3 DEF InHead
  <2> QED
    BY <2>1, <2>2, <2>3, <2>4, <2>5
<1>4. ASSUME ~IsHead(l) PROVE InHead(lines, k + 1) <=> InHead(lines, k)
  <2>1. ASSUME NEW s \in 1..(k + 1)
        PROVE  OpenIn(lines, k + 1, s) /\ s < k + 1 /\ IsHead(lines[s + 1])
                 <=> s \in 1..k /\ OpenIn(lines, k, s) /\ s < k /\ IsHead(lines[s + 1])
    <3>1. s = k + 1 \/ s \in 1..k
      OBVIOUS
    <3>2. CASE s = k + 1
      BY <1>1, <3>2
    <3>3. CASE s \in 1..k
      <4>1. IsHead(lines[s + 1]) => s # k
        BY <1>4
      <4> QED
        BY <1>1, <3>3, <4>1
    <3> QED
      BY <3>1, <3>2, <3>3
  <2> QED
    BY <2>1 DEF InHead
<1>5. Whole(lines, k + 1) = Whole(lines, k)
  <2>1. CASE IsHead(l)
    BY <1>1, <1>3, <2>1 DEF Whole
  <2>2. CASE ~IsHead(l)
    BY <1>1, <1>4, <2>2 DEF Whole
  <2> QED
    BY <2>1, <2>2
<1>6. Ordered(lines, k + 1, r) /\ Parsed(lines, k + 1, r)
  BY <1>5, SameTrace DEF Knows
<1>7. CASE ~f.open
  <2>1. g = f
    <3>1. l.kind # "start" /\ l \in Line
      BY <1>1
    <3> HIDE DEF l
    <3> QED
      BY <1>7, <3>1, FeedCases
  <2>2. ~IsHead(l)
    BY <1>3, <1>7 DEF Knows, CurrentIs
  <2>3. CurrentIs(lines, k + 1, f)
    <3>1. \A s \in 1..(k + 1) : s \in 1..k \/ s = k + 1
      OBVIOUS
    <3> QED
      BY <1>1, <1>7, <3>1 DEF Knows, CurrentIs
  <2>4. HeadIsNumbered(lines, k + 1, f) /\ Loops(f, r)
    BY <1>7 DEF Knows, HeadIsNumbered, Loops
  <2> QED
    BY <1>2, <1>6, <2>1, <2>3, <2>4 DEF Knows
<1>8. CASE f.open
  <2>1. /\ g.open /\ g.cur.code = f.cur.code /\ g.cur.sev = f.cur.sev
        /\ g.cur.body = Append(f.cur.body, l) /\ f.cur \in Message
    BY <1>1, <1>8, FeedCases DEF Framers
  <2>2. /\ g.cur.body # <<>>
        /\ g.cur.body[1] = IF f.cur.body = <<>> THEN l ELSE f.cur.body[1]
    BY <1>1, <2>1, FirstText
  <2> HIDE DEF g
  <2>3. PICK s \in 1..k : /\ OpenIn(lines, k, s)
                          /\ f.cur.code = lines[s].code /\ f.cur.sev = lines[s].sev
    BY <1>8 DEF Knows, CurrentIs
  <2>4. CurrentIs(lines, k + 1, g)
    <3>1. s \in 1..(k + 1) /\ OpenIn(lines, k + 1, s)
      BY <1>1, <2>3
    <3>2. g.cur.body[1].kind = "text"
      BY <1>8, <2>2 DEF Knows, CurrentIs
    <3> QED
      BY <2>1, <2>2, <2>3, <3>1, <3>2 DEF CurrentIs
  <2>5. HeadIsNumbered(lines, k + 1, g)
    <3> SUFFICES ASSUME OpensWith(g.cur, "head")
                 PROVE  InHead(lines, k + 1) /\ g.cur.body[1].num = Count(lines, k + 1)
      BY DEF HeadIsNumbered
    <3>1. CASE f.cur.body = <<>>
      <4>1. g.cur.body[1] = l /\ IsHead(l)
        BY <2>2, <3>1 DEF OpensWith, IsHead
      <4>2. k + 1 \in Heads(lines, Len(lines))
        BY <1>1, <4>1 DEF Heads
      <4>3. l.num = Count(lines, k + 1)
        BY <4>2 DEF IsTrace, Count
      <4> QED
        BY <1>3, <4>1, <4>3
    <3>2. CASE f.cur.body # <<>>
      <4>1. g.cur.body[1] = f.cur.body[1] /\ OpensWith(f.cur, "head")
        BY <2>2, <3>2 DEF OpensWith
      <4>2. InHead(lines, k) /\ f.cur.body[1].num = Count(lines, k)
        BY <1>8, <4>1 DEF Knows, HeadIsNumbered
      <4>3. ~IsHead(l)
        BY <1>3, <4>2
      <4> QED
        BY <1>1, <1>4, <4>1, <4>2, <4>3
    <3> QED
      BY <3>1, <3>2
  <2>6. Loops(g, r)
    <3> SUFFICES ASSUME r.unparsed = 0, g.cur.code = "loop", OpensWith(g.cur, "back")
                 PROVE  g.cur.body[1].num <= Len(r.states)
      BY DEF Knows, Loops
    <3>1. CASE f.cur.body = <<>>
      <4>1. g.cur.body[1] = l /\ l.code = "back"
        BY <2>2, <3>1 DEF OpensWith
      <4>2. ~IsHead(l) /\ Count(lines, k + 1) = Count(lines, k)
        BY <1>1, <4>1 DEF IsHead
      <4>3. l.num \in 1..Count(lines, k)
        BY <1>1, <4>1, <4>2 DEF IsTrace, Count
      <4>4. ~InHead(lines, k)
        <5>1. f.cur.code = "loop"
          BY <2>1
        <5> QED
          BY <2>3, <5>1, HeadIsOpen, OpenInIsOne
      <4>5. Len(r.states) = Count(lines, k)
        BY <4>4 DEF Knows, Parsed, Whole
      <4> QED
        BY <1>1, <4>1, <4>3, <4>5
    <3>2. CASE f.cur.body # <<>>
      <4>1. g.cur.body[1] = f.cur.body[1] /\ OpensWith(f.cur, "back")
        BY <2>2, <3>2 DEF OpensWith
      <4> QED
        BY <1>8, <2>1, <4>1 DEF Knows, Loops
    <3> QED
      BY <3>1, <3>2
  <2>7. Knows(lines, k + 1, g, r)
    BY <1>6, <2>4, <2>5, <2>6 DEF Knows
  <2> QED
    BY <1>2, <2>7 DEF g
<1> QED
  BY <1>7, <1>8

\* A whole state is in the trace, or counted.
LEMMA EndKnows ==
  ASSUME NEW lines \in Body, IsTrace(lines), NEW k \in Nat, k < Len(lines),
         NEW f \in Framers, NEW r \in ResultType, Knows(lines, k, f, r),
         lines[k + 1].kind = "end"
  PROVE  Knows(lines, k + 1, Feed(f, lines[k + 1]), After(f, r, lines[k + 1]))
<1> DEFINE l == lines[k + 1]
           g == Feed(f, l)
           q == After(f, r, l)
           n == Count(lines, k)
           S == r.states
<1>1. /\ l \in Line
      /\ \A s \in 1..(k + 1) : ~OpenIn(lines, k + 1, s)
      /\ Count(lines, k + 1) = n /\ n \in Nat
  <2>1. \A s \in 1..(k + 1) : s \in 1..k \/ s = k + 1
    OBVIOUS
  <2> QED
    BY <2>1, OneMoreSent, HeadsFinite DEF IsHead
<1>2. ~InHead(lines, k + 1) /\ Whole(lines, k + 1) = n
  BY <1>1 DEF InHead, Whole
<1>3. S \in Seq(Int) /\ Len(S) \in Nat /\ r.unparsed \in Nat /\ \A i \in 1..Len(S) : S[i] \in Int
  BY DEF ResultType
<1>4. CASE ~f.open
  <2>1. g = f /\ q = r
    <3>1. l.kind # "start" /\ l \in Line
      BY <1>1
    <3> HIDE DEF l
    <3> QED
      BY <1>4, <3>1, FeedCases DEF After
  <2>2. ~InHead(lines, k)
    BY <1>4 DEF Knows, CurrentIs, InHead
  <2>3. Ordered(lines, k + 1, r) /\ Parsed(lines, k + 1, r)
    BY <1>1, <1>2, <2>2, SameTrace DEF Knows, Whole
  <2>4. CurrentIs(lines, k + 1, f) /\ HeadIsNumbered(lines, k + 1, f) /\ Loops(f, r)
    BY <1>1, <1>4 DEF Knows, CurrentIs, HeadIsNumbered, Loops
  <2> QED
    BY <2>1, <2>3, <2>4 DEF Knows
<1>5. CASE f.open
  <2>1. ~g.open /\ q = InterpretMessage(r, f.cur) /\ f.cur \in Message
    <3>1. l.kind = "end" /\ l \in Line
      BY <1>1
    <3> HIDE DEF l
    <3> QED
      BY <1>5, <3>1, FeedCases DEF After, Framers
  <2> HIDE DEF g, q, n, S
  <2>2. CurrentIs(lines, k + 1, g) /\ HeadIsNumbered(lines, k + 1, g)
    BY <1>1, <2>1 DEF CurrentIs, HeadIsNumbered
  <2>3. /\ ~IsStatePrint(f.cur) => q.states = S /\ q.unparsed = r.unparsed
        /\ IsStatePrint(f.cur) /\ ParsesAsState(f.cur.body) =>
             q.states = Append(S, f.cur.body[1].num) /\ q.unparsed = r.unparsed
        /\ IsStatePrint(f.cur) /\ ~ParsesAsState(f.cur.body) =>
             q.states = S /\ q.unparsed = r.unparsed + 1
        /\ f.cur.code = "loop" =>
             q.loop = IF OpensWith(f.cur, "back") THEN f.cur.body[1].num - 1 ELSE r.loop
        /\ f.cur.code # "loop" => q.loop = r.loop
    BY <2>1, InterpretTrace DEF S
  <2>4. PICK s \in 1..k : /\ OpenIn(lines, k, s)
                          /\ f.cur.code = lines[s].code /\ f.cur.sev = lines[s].sev
    BY <1>5 DEF Knows, CurrentIs
  <2>5. InHead(lines, k) => IsStatePrint(f.cur)
    BY <2>4, HeadIsOpen, OpenInIsOne DEF IsStatePrint
  <2>6. /\ \A i, j \in 1..Len(S) : i < j => S[i] < S[j]
        /\ \A i \in 1..Len(S) : S[i] <= Whole(lines, k)
        /\ r.unparsed = 0 => Len(S) = Whole(lines, k) /\ \A i \in 1..Len(S) : S[i] = i
        /\ r.unparsed = 0 /\ f.cur.code = "loop" /\ OpensWith(f.cur, "back") =>
             f.cur.body[1].num <= Len(S)
        /\ r.unparsed = 0 /\ r.loop >= 0 => r.loop + 1 <= Len(S)
    BY <1>5 DEF Knows, Ordered, Parsed, Loops, S
  <2>7. Whole(lines, k) = IF InHead(lines, k) THEN n - 1 ELSE n
    BY DEF Whole, n
  <2>8. CASE ~IsStatePrint(f.cur)
    <3>1. Whole(lines, k) = n /\ q.states = S /\ q.unparsed = r.unparsed
      BY <2>3, <2>5, <2>7, <2>8
    <3>2. Ordered(lines, k + 1, q) /\ Parsed(lines, k + 1, q)
      BY <1>2, <2>6, <3>1 DEF Ordered, Parsed
    <3>3. Loops(g, q)
      <4>1. r.loop \in Int /\ (OpensWith(f.cur, "back") => f.cur.body[1].num \in Int)
        BY <2>1, FirstLine DEF ResultType, OpensWith
      <4>2. ASSUME q.unparsed = 0, q.loop >= 0 PROVE q.loop + 1 <= Len(q.states)
        BY <1>3, <2>3, <2>6, <3>1, <4>1, <4>2
      <4> QED
        BY <2>1, <4>2 DEF Loops
    <3>4. Knows(lines, k + 1, g, q)
      BY <2>2, <3>2, <3>3 DEF Knows
    <3> QED
      BY <3>4 DEF g, q
  <2>9. CASE IsStatePrint(f.cur) /\ ~ParsesAsState(f.cur.body)
    <3>1. q.states = S /\ q.unparsed = r.unparsed + 1 /\ q.unparsed # 0
      BY <1>3, <2>3, <2>9
    <3>2. \A i \in 1..Len(S) : S[i] <= n
      BY <1>1, <1>3, <2>6, <2>7
    <3>3. Ordered(lines, k + 1, q) /\ Parsed(lines, k + 1, q) /\ Loops(g, q)
      BY <1>2, <2>6, <3>1, <3>2 DEF Ordered, Parsed, Loops
    <3>4. Knows(lines, k + 1, g, q)
      BY <2>2, <3>3 DEF Knows
    <3> QED
      BY <3>4 DEF g, q
  <2>10. CASE IsStatePrint(f.cur) /\ ParsesAsState(f.cur.body)
    <3>1. OpensWith(f.cur, "head")
      BY <2>10 DEF ParsesAsState, OpensWith
    <3>2. InHead(lines, k) /\ f.cur.body[1].num = n
      BY <1>5, <3>1 DEF Knows, HeadIsNumbered, n
    <3>3. Whole(lines, k) = n - 1 /\ f.cur.code # "loop"
      BY <2>7, <2>10, <3>2 DEF IsStatePrint
    <3>4. q.states = Append(S, n) /\ q.unparsed = r.unparsed /\ q.loop = r.loop
      BY <2>3, <2>10, <3>2, <3>3
    <3>5. /\ Len(q.states) = Len(S) + 1 /\ q.states[Len(S) + 1] = n
          /\ \A i \in 1..Len(S) : q.states[i] = S[i]
      BY <1>1, <1>3, <3>4
    <3>6. \A i \in 1..(Len(S) + 1) : i = Len(S) + 1 \/ i \in 1..Len(S)
      BY <1>3
    <3>7. \A i \in 1..Len(S) : q.states[i] <= n - 1
      BY <2>6, <3>3, <3>5
    <3>8. Ordered(lines, k + 1, q)
      <4>1. ASSUME NEW i \in 1..Len(q.states), NEW j \in 1..Len(q.states), i < j
            PROVE  q.states[i] < q.states[j]
        <5>1. i \in 1..Len(S)
          BY <1>3, <3>5, <4>1
        <5>2. CASE j = Len(S) + 1
          <6>1. q.states[i] \in Int /\ q.states[i] <= n - 1 /\ q.states[j] = n
            BY <1>3, <3>5, <3>7, <5>1, <5>2
          <6> QED
            BY <1>1, <6>1
        <5>3. CASE j \in 1..Len(S)
          BY <2>6, <3>5, <4>1, <5>1, <5>3
        <5> QED
          BY <3>5, <3>6, <5>2, <5>3
      <4>2. ASSUME NEW i \in 1..Len(q.states) PROVE q.states[i] <= n
        <5>1. CASE i = Len(S) + 1
          BY <1>1, <3>5, <5>1
        <5>2. CASE i \in 1..Len(S)
          <6>1. q.states[i] = S[i] /\ S[i] \in Int /\ S[i] <= n - 1
            BY <1>3, <3>5, <3>7, <5>2
          <6> QED
            BY <1>1, <6>1
        <5> QED
          BY <3>5, <3>6, <5>1, <5>2
      <4> QED
        BY <1>2, <4>1, <4>2 DEF Ordered
    <3>9. Parsed(lines, k + 1, q)
      <4> SUFFICES ASSUME r.unparsed = 0
                   PROVE  /\ Len(q.states) = n
                          /\ \A i \in 1..Len(q.states) : q.states[i] = i
        BY <1>2, <3>4 DEF Parsed
      <4>1. Len(S) = n - 1 /\ \A i \in 1..Len(S) : S[i] = i
        BY <2>6, <3>3
      <4> QED
        BY <1>1, <1>3, <3>5, <3>6, <4>1
    <3>10. Loops(g, q)
      <4>1. ASSUME r.unparsed = 0, r.loop >= 0 PROVE r.loop + 1 <= Len(q.states)
        <5>1. r.loop \in Int /\ r.loop + 1 <= Len(S)
          BY <2>6, <4>1 DEF ResultType
        <5> QED
          BY <1>3, <3>5, <5>1
      <4> QED
        BY <2>1, <3>4, <4>1 DEF Loops
    <3>11. Knows(lines, k + 1, g, q)
      BY <2>2, <3>8, <3>9, <3>10 DEF Knows
    <3> QED
      BY <3>11 DEF g, q
  <2> QED
    BY <2>8, <2>9, <2>10 DEF g, q
<1> QED
  BY <1>4, <1>5

\* Before anything is printed.
LEMMA NothingKnown ==
  ASSUME NEW lines
  PROVE  /\ ParseLines(<<>>) = FramerInit
         /\ Knows(lines, 0, FramerInit, Interpret(FramerInit.msgs))
<1>1. FramerInit.open = FALSE /\ FramerInit.msgs = <<>>
  BY DEF FramerInit
<1>2. Interpret(FramerInit.msgs) = EmptyResult
  BY <1>1, InterpretNothing
<1>3. EmptyResult.states = <<>> /\ EmptyResult.unparsed = 0 /\ EmptyResult.loop = -1
  BY DEF EmptyResult
<1>4. Whole(lines, 0) = 0
  <2>1. Heads(lines, 0) = {}
    BY DEF Heads
  <2>2. Count(lines, 0) = 0
    BY <2>1, FS_EmptySet DEF Count
  <2>3. ~InHead(lines, 0)
    BY DEF InHead
  <2> QED
    BY <2>2, <2>3 DEF Whole
<1>5. CurrentIs(lines, 0, FramerInit) /\ HeadIsNumbered(lines, 0, FramerInit)
  BY <1>1 DEF CurrentIs, HeadIsNumbered
<1>6. Loops(FramerInit, EmptyResult)
  BY <1>1, <1>3 DEF Loops
<1>7. Ordered(lines, 0, EmptyResult) /\ Parsed(lines, 0, EmptyResult)
  BY <1>3, <1>4 DEF Ordered, Parsed
<1> QED
  BY <1>2, <1>5, <1>6, <1>7, ParseNothing DEF Knows

\* Every state print that is framed is a state of the trace or is counted.
LEMMA Counted ==
  ASSUME NEW lines \in Body
  PROVE  LET r == Interpret(ParseLines(lines).msgs)
         IN  Len(r.states) + r.unparsed = Cardinality(StatePrints(lines))
<1> DEFINE res(b) == Interpret(ParseLines(b).msgs)
           sum(b) == Len(res(b).states) + res(b).unparsed
           T == {b \in Body : sum(b) = Cardinality(StatePrints(b))}
<1>1. <<>> \in T
  <2>1. res(<<>>) = EmptyResult
    BY ParseNothing, InterpretNothing DEF FramerInit
  <2>2. sum(<<>>) = 0
    BY <2>1 DEF EmptyResult
  <2>3. Frames(<<>>) = {}
    BY DEF Frames
  <2>4. StatePrints(<<>>) = {}
    BY <2>3 DEF StatePrints
  <2> HIDE DEF sum
  <2> QED
    BY <2>2, <2>4, FS_EmptySet DEF Body
<1>2. ASSUME NEW b \in Seq(Line), NEW l \in Line, b \in T PROVE Append(b, l) \in T
  <2> DEFINE M == Append(b, l)
             f == ParseLines(b)
  <2>1. b \in Body /\ M \in Body /\ sum(b) = Cardinality(StatePrints(b))
    BY <1>2 DEF Body
  <2>2. f \in Framers /\ Follows(f, b)
    BY <2>1, ParseType, ParseFollows
  <2>3. f.msgs \in Seq(Message) /\ (f.open => f.cur \in Message)
    BY <2>2 DEF Framers
  <2>4. res(b) \in ResultType
    BY <2>3, InterpretType
  <2>5. /\ Len(res(b).states) \in Nat /\ res(b).unparsed \in Nat
        /\ res(b).states \in Seq(Int) /\ sum(b) \in Nat
    BY <2>4 DEF ResultType
  <2>6. res(M) = After(f, res(b), l)
    BY <2>1, AfterFeed
  <2>7. IsFiniteSet(StatePrints(b))
    <3>1. StatePrints(b) \subseteq Frames(b)
      BY DEF StatePrints
    <3> QED
      BY <2>1, <3>1, FramesFinite, FS_Subset
  <2>8. \A p \in Frames(b) : FramedMessage(M, p) = FramedMessage(b, p)
    BY <2>1, FrameParts
  <2>9. CASE l.kind = "end" /\ f.open
    <3>1. PICK s \in 1..Len(b) : /\ OpenAt(b, s)
                                 /\ f.cur = [code |-> b[s].code, sev |-> b[s].sev,
                                             body |-> SubSeq(b, s + 1, Len(b))]
      BY <2>2, <2>9 DEF Follows
    <3> DEFINE e == <<s, Len(b) + 1>>
    <3>2. Frames(M) = Frames(b) \cup {e} /\ e \notin Frames(b) /\ FramedMessage(M, e) = f.cur
      BY <2>1, <2>9, <3>1, NewFrame
    <3>3. res(M) = InterpretMessage(res(b), f.cur) /\ f.cur \in Message
      BY <2>3, <2>6, <2>9 DEF After
    <3> HIDE DEF e, M, f, res
    <3>4. CASE IsStatePrint(f.cur)
      <4>1. StatePrints(M) = StatePrints(b) \cup {e} /\ e \notin StatePrints(b)
        BY <2>8, <3>2, <3>4 DEF StatePrints
      <4>2. Cardinality(StatePrints(M)) = Cardinality(StatePrints(b)) + 1
        BY <2>7, <4>1, FS_AddElement
      <4>3. \/ /\ res(M).states = Append(res(b).states, f.cur.body[1].num)
               /\ res(M).unparsed = res(b).unparsed
            \/ res(M).states = res(b).states /\ res(M).unparsed = res(b).unparsed + 1
        BY <2>4, <3>3, <3>4, InterpretTrace
      <4>4. sum(M) = sum(b) + 1
        <5>1. Len(Append(res(b).states, f.cur.body[1].num)) = Len(res(b).states) + 1
          BY <2>5
        <5> QED
          BY <2>5, <4>3, <5>1
      <4> HIDE DEF sum
      <4> QED
        BY <2>1, <4>2, <4>4 DEF M
    <3>5. CASE ~IsStatePrint(f.cur)
      <4>1. StatePrints(M) = StatePrints(b)
        BY <2>8, <3>2, <3>5 DEF StatePrints
      <4>2. res(M).states = res(b).states /\ res(M).unparsed = res(b).unparsed
        BY <2>4, <3>3, <3>5, InterpretTrace
      <4>3. sum(M) = sum(b)
        BY <4>2
      <4> HIDE DEF sum
      <4> QED
        BY <2>1, <4>1, <4>3 DEF M
    <3> QED
      BY <3>4, <3>5
  <2>10. CASE ~(l.kind = "end" /\ f.open)
    <3>1. Frames(M) = Frames(b)
      <4>1. Frames(M) = Frames(b) \cup
              {<<s, Len(b) + 1>> : s \in {t \in 1..Len(b) : OpenAt(b, t) /\ l.kind = "end"}}
        BY <2>1, FramesAfter
      <4>2. {t \in 1..Len(b) : OpenAt(b, t) /\ l.kind = "end"} = {}
        BY <2>2, <2>10 DEF Follows
      <4> HIDE DEF M, f
      <4> QED
        BY <4>1, <4>2
    <3>2. res(M) = res(b)
      BY <2>6, <2>10 DEF After
    <3> HIDE DEF M, f, res
    <3>3. StatePrints(M) = StatePrints(b)
      BY <2>8, <3>1 DEF StatePrints
    <3>4. sum(M) = sum(b)
      BY <3>2
    <3> HIDE DEF sum
    <3> QED
      BY <2>1, <3>3, <3>4 DEF M
  <2> QED
    BY <2>9, <2>10
<1> HIDE DEF T
<1>3. lines \in T
  BY <1>1, <1>2, ByLastElement DEF Body
<1> QED
  BY <1>3 DEF T

\* The induction hypothesis over the output that was written so far.
TraceInv ==
  LET f == ParseLines(written)
  IN  Knows(script.lines, sent, f, Interpret(f.msgs))

LEMMA InitTrace == Init => TraceInv
<1> SUFFICES ASSUME Init PROVE TraceInv
  OBVIOUS
<1>1. written = <<>> /\ sent = 0
  BY DEF Init
<1> QED
  BY <1>1, NothingKnown DEF TraceInv

LEMMA NextTrace == IInv /\ TraceInv /\ [Next]_vars => TraceInv'
<1> SUFFICES ASSUME IInv, TraceInv, [Next]_vars PROVE TraceInv'
  OBVIOUS
<1> DEFINE f == ParseLines(written)
           r == Interpret(f.msgs)
           lines == script.lines
<1>1. /\ script \in Scripts /\ lines \in Body /\ IsTrace(lines) /\ sent \in 0..Len(lines)
      /\ Len(lines) \in Nat /\ written \in Body
  BY Scripted, TlcRunAssumption DEF IInv, RunTypeOK, Body
<1>2. f \in Framers /\ r \in ResultType
  <2>1. f \in Framers
    BY <1>1, ParseType
  <2> HIDE DEF f
  <2> QED
    BY <2>1, InterpretType DEF Framers
<1>3. Knows(lines, sent, f, r)
  BY DEF TraceInv
<1>4. ASSUME NEW l \in Line, written' = Append(written, l), UNCHANGED script,
             Knows(lines, sent', Feed(f, l), After(f, r, l))
      PROVE  TraceInv'
  BY <1>1, <1>4, AfterFeed DEF TraceInv
<1> HIDE DEF f, r
<1>5. CASE Emit
  <2>1. /\ sent < Len(lines) /\ sent' = sent + 1 /\ script' = script
        /\ written' = Append(written, lines[sent + 1])
    BY <1>5 DEF Emit, Write
  <2>2. lines[sent + 1] \in Line /\ sent \in Nat
    BY <1>1, <2>1 DEF Body
  <2>3. lines[sent + 1].kind \in {"start", "end", "text"}
    BY <2>2 DEF Line
  <2> HIDE DEF lines
  <2>4. Knows(lines, sent + 1, Feed(f, lines[sent + 1]), After(f, r, lines[sent + 1]))
    BY <1>1, <1>2, <1>3, <2>1, <2>2, <2>3, StartKnows, TextKnows, EndKnows
  <2> QED
    BY <1>4, <2>1, <2>2, <2>4
<1>6. CASE EmitNoise
  <2>1. /\ sent' = sent /\ script' = script /\ written' = Append(written, Noise)
        /\ Noise \in Line
    BY <1>6, TlcRunAssumption DEF EmitNoise, Write
  <2> HIDE DEF lines
  <2>2. Knows(lines, sent, Feed(f, Noise), After(f, r, Noise))
    BY <1>1, <1>2, <1>3, NoiseKnows
  <2> QED
    BY <1>4, <2>1, <2>2
<1>7. CASE UNCHANGED <<script, sent, written>>
  BY <1>7 DEF TraceInv
<1>8. ASSUME ~Emit, ~EmitNoise PROVE UNCHANGED <<script, sent, written>>
  BY <1>8 DEF Next, Caller, Tlc, RejectJob, MkdirTemp, WriteFiles, Start, ParseLine, ParseEOF,
     Wait, Verdict, Cleanup, Exit, Crash, Kill, End, Cancel, vars
<1> QED
  BY <1>5, <1>6, <1>7, <1>8

LEMMA SpecTrace == Spec => [](IInv /\ TraceInv)
<1>1. Init => IInv /\ TraceInv
  BY InitInv, InitTrace
<1>2. IInv /\ TraceInv /\ [Next]_vars => (IInv /\ TraceInv)'
  BY NextInv, NextTrace
<1> QED
  BY <1>1, <1>2, PTL DEF Spec

\* A Result is read off everything that was written.
LEMMA FoundIsWritten ==
  ASSUME IInv, Interpreted
  PROVE  /\ written \in Body /\ framer.msgs = FramedMessages(written)
         /\ result.found = Interpret(ParseLines(written).msgs)
<1>1. ~failed /\ pipe = <<>> /\ result = NewResult(framer.msgs, code)
  BY DEF IInv, Results
<1>2. PICK read \in Body : written = read \o pipe /\ Follows(framer, read)
  BY <1>1 DEF IInv, Places, ReadSoFar
<1>3. written = read
  BY <1>1, <1>2, ConcatEmptySeq DEF Body
<1>4. framer.msgs = FramedMessages(written)
  BY <1>2, <1>3, FramedIsMessages DEF Follows
<1>5. result.found = Interpret(framer.msgs)
  BY <1>1 DEF NewResult
<1> QED
  BY <1>2, <1>3, <1>4, <1>5, MessagesAreFramed

\* run.go:217-231: whatever the script, the pipe and the order of events, a
\* Result is read off all the messages of the output, and is a success only
\* of a TLC that printed everything and exited 0.
THEOREM AlwaysComplete == Spec => []ResultIsComplete
<1>1. IInv => ResultIsComplete
  <2> SUFFICES ASSUME IInv, Interpreted PROVE ResultIsComplete
    BY DEF ResultIsComplete
  <2>1. /\ ~failed /\ child \in {"exited", "crashed"} /\ pipe = <<>>
        /\ result = NewResult(framer.msgs, code)
    BY DEF IInv, Results
  <2>2. PICK read \in Body : written = read \o pipe /\ Follows(framer, read)
    BY <2>1 DEF IInv, Places, ReadSoFar
  <2>3. written = read
    BY <2>1, <2>2, ConcatEmptySeq DEF Body
  <2>4. framer.msgs = FramedMessages(written)
    BY <2>2, <2>3, FramedIsMessages DEF Follows
  <2>5. ASSUME result.status = "success"
        PROVE  child = "exited" /\ script.code = 0 /\ sent = Len(script.lines)
    <3>1. code = 0
      BY <2>1, <2>5, Statuses DEF IInv, RunTypeOK
    <3> QED
      BY <2>1, <3>1 DEF IInv, Ends
  <2> QED
    BY <2>4, <2>5 DEF ResultIsComplete
<1> QED
  BY <1>1, SpecInv, PTL

\* run.go:217-231: what was cut off is never taken for a verdict of TLC.
THEOREM NoVerdictOfTheAborted == Spec => []AbortedIsNoVerdict
<1>1. IInv => AbortedIsNoVerdict
  BY DEF IInv, Results, AbortedIsNoVerdict
<1> QED
  BY <1>1, SpecInv, PTL

\* run.go:186-190, 217 and 286: no process runs without its directory, and
\* Check returns with no process and with no directory but one whose removal
\* the file system has refused.
THEOREM NothingIsLeft == Spec => []NothingLeftBehind
<1>1. IInv => NothingLeftBehind
  BY DEF IInv, RunTypeOK, Places, Dirs, Before, NothingLeftBehind
<1> QED
  BY <1>1, SpecInv, PTL

\* tlc/output.go:148-157: every state print of the output is a state of the
\* trace or a warning, and the trace is in the order of printing.
THEOREM NoStateIsLost == Spec => []StatesAreAccounted
<1>1. ASSUME IInv, TraceInv PROVE StatesAreAccounted
  <2> SUFFICES ASSUME Interpreted
               PROVE  LET r == result.found
                      IN  /\ Len(r.states) + r.unparsed = Cardinality(StatePrints(written))
                          /\ \A i, j \in DOMAIN r.states : i < j => r.states[i] < r.states[j]
    BY DEF StatesAreAccounted
  <2> DEFINE r == result.found
  <2>1. written \in Body /\ r = Interpret(ParseLines(written).msgs)
    BY <1>1, FoundIsWritten
  <2>2. Len(r.states) + r.unparsed = Cardinality(StatePrints(written))
    BY <2>1, Counted
  <2>3. r.states \in Seq(Int)
    <3>1. ParseLines(written).msgs \in Seq(Message)
      BY <2>1, ParseType DEF Framers
    <3> QED
      BY <2>1, <3>1, InterpretType DEF ResultType
  <2>4. Ordered(script.lines, sent, r)
    BY <1>1, <2>1 DEF TraceInv, Knows
  <2> HIDE DEF r
  <2>5. \A i, j \in DOMAIN r.states : i < j => r.states[i] < r.states[j]
    BY <2>3, <2>4 DEF Ordered
  <2> QED
    BY <2>2, <2>5 DEF r
<1> QED
  BY <1>1, SpecTrace, PTL

\* trace.go:32-34: the loop of a result without a warning goes back to the
\* state of the trace that TLC says it goes back to.
THEOREM LoopGoesBack == Spec => []LoopIsAState
<1>1. ASSUME IInv, TraceInv PROVE LoopIsAState
  <2> SUFFICES ASSUME Interpreted, result.found.loop >= 0, result.found.unparsed = 0
               PROVE  /\ result.found.loop + 1 \in DOMAIN result.found.states
                      /\ result.found.states[result.found.loop + 1] = result.found.loop + 1
    BY DEF LoopIsAState
  <2> DEFINE r == result.found
  <2>1. written \in Body /\ r = Interpret(ParseLines(written).msgs)
    BY <1>1, FoundIsWritten
  <2>2. r.states \in Seq(Int) /\ r.loop \in Int
    <3>1. ParseLines(written).msgs \in Seq(Message)
      BY <2>1, ParseType DEF Framers
    <3> QED
      BY <2>1, <3>1, InterpretType DEF ResultType
  <2>3. Parsed(script.lines, sent, r) /\ Loops(ParseLines(written), r)
    BY <1>1, <2>1 DEF TraceInv, Knows
  <2>4. r.loop + 1 <= Len(r.states) /\ \A i \in 1..Len(r.states) : r.states[i] = i
    BY <2>3 DEF Parsed, Loops
  <2>5. r.loop + 1 \in 1..Len(r.states)
    BY <2>2, <2>4
  <2> QED
    BY <2>2, <2>4, <2>5
<1> QED
  BY <1>1, SpecTrace, PTL
-----------------------------------------------------------------------------
(***************************************************************************)
(* The jar that Run starts TLC from: EnsureJar's shared one is never       *)
(* partial, temporary files are removed, and the cache is atomic, for any  *)
(* number of processes, versions and chunks.                               *)
(***************************************************************************)
\* The temporary file of a process holds what it was served, is whole when
\* it is renamed, and exists only between CreateTemp and its removal, unless
\* that was refused.
TempInv(p) ==
  /\ temp[p] # NoFile => p \in kept \/ stage[p] \in {"copy", "rename", "clean", "dead"}
  /\ stage[p] \in {"copy", "rename"} => temp[p].version = served[p]
  /\ stage[p] = "rename" => temp[p].size = Size

DestInv == dest # NoFile => WholeJar(dest)

FoundInv(p) == stage[p] \in {"found", "path"} => elsewhere \/ WholeJar(dest)

JarInv == /\ JarTypeOK
          /\ DestInv
          /\ \A p \in Procs : TempInv(p) /\ FoundInv(p)

LEMMA FileTypes ==
  /\ NoFile \in Files
  /\ \A v \in Versions : \A n \in 0..Size : File(v, n) \in Files
BY JarCacheAssumption DEF NoFile, File, Files

\* A whole jar is not the absence of one.
LEMMA WholeIsFile == \A f \in Files : WholeJar(f) => f # NoFile
BY JarCacheAssumption DEF WholeJar, NoFile

LEMMA JarInitInv == JarInit => JarInv
<1> SUFFICES ASSUME JarInit PROVE JarInv
  OBVIOUS
<1>1. \A v \in Versions : WholeJar(File(v, Size)) /\ File(v, Size) \in Files
  BY JarCacheAssumption, FileTypes DEF WholeJar, File
<1>2. JarTypeOK
  BY <1>1, FileTypes DEF JarInit, JarTypeOK, Stages
<1>3. DestInv
  BY <1>1 DEF JarInit, DestInv
<1>4. \A p \in Procs : TempInv(p) /\ FoundInv(p)
  BY DEF JarInit, TempInv, FoundInv
<1> QED
  BY <1>2, <1>3, <1>4 DEF JarInv

\* What a step of one process leaves alone: all that TempInv and FoundInv
\* say of the others, unless the destination changes.
LEMMA OthersInv ==
  ASSUME JarInv, NEW p \in Procs, NEW q \in Procs, q # p,
         stage'[q] = stage[q], temp'[q] = temp[q], served' = served,
         elsewhere' = elsewhere, dest' = dest \/ WholeJar(dest)', kept \subseteq kept'
  PROVE  (TempInv(q) /\ FoundInv(q))'
BY DEF JarInv, TempInv, FoundInv

LEMMA FindJarInv ==
  ASSUME JarInv, NEW p \in Procs, FindJar(p) PROVE JarInv'
<1> USE DEF FindJar, Goto
<1>1. JarTypeOK'
  BY DEF JarInv, JarTypeOK, Stages
<1>2. DestInv'
  BY DEF JarInv, DestInv, WholeJar
<1>3. (TempInv(p) /\ FoundInv(p))'
  BY DEF JarInv, JarTypeOK, DestInv, TempInv, FoundInv, WholeJar
<1>4. \A q \in Procs \ {p} : (TempInv(q) /\ FoundInv(q))'
  BY OthersInv DEF JarInv, JarTypeOK
<1> QED
  BY <1>1, <1>2, <1>3, <1>4 DEF JarInv

LEMMA RequestInv ==
  ASSUME JarInv, NEW p \in Procs, Request(p) PROVE JarInv'
<1> USE DEF Request, Goto
<1>1. File(served[p], 0) \in Files
  BY FileTypes, JarCacheAssumption DEF JarInv, JarTypeOK
<1>2. JarTypeOK'
  BY <1>1 DEF JarInv, JarTypeOK, Stages
<1>3. DestInv'
  BY DEF JarInv, DestInv, WholeJar
<1>4. (TempInv(p) /\ FoundInv(p))'
  BY DEF JarInv, JarTypeOK, TempInv, FoundInv, File
<1>5. \A q \in Procs \ {p} : (TempInv(q) /\ FoundInv(q))'
  BY OthersInv DEF JarInv, JarTypeOK
<1> QED
  BY <1>2, <1>3, <1>4, <1>5 DEF JarInv

LEMMA CopyInv ==
  ASSUME JarInv, NEW p \in Procs, Copy(p) PROVE JarInv'
<1> USE DEF Goto
<1>1. temp \in [Procs -> Files] /\ temp[p] \in Files
  BY DEF JarInv, JarTypeOK
<1>2. temp' \in [Procs -> Files]
  BY <1>1, JarCacheAssumption DEF Copy, Files
<1>3. JarTypeOK'
  BY <1>2 DEF Copy, JarInv, JarTypeOK, Stages
<1>4. DestInv'
  BY DEF Copy, JarInv, DestInv, WholeJar
<1>5. (TempInv(p) /\ FoundInv(p))'
  BY <1>1, JarCacheAssumption DEF Copy, JarInv, JarTypeOK, TempInv, FoundInv, Files
<1>6. \A q \in Procs \ {p} : (TempInv(q) /\ FoundInv(q))'
  BY OthersInv DEF Copy, JarInv, JarTypeOK
<1> QED
  BY <1>3, <1>4, <1>5, <1>6 DEF JarInv

\* The only step that changes the destination: to a whole jar.
LEMMA RenameInv ==
  ASSUME JarInv, NEW p \in Procs, Rename(p)
  PROVE  JarInv' /\ (dest' = dest \/ WholeJar(dest)')
<1> USE DEF Goto
<1>1. temp \in [Procs -> Files] /\ temp[p] \in Files /\ served[p] \in Versions
  BY DEF JarInv, JarTypeOK
<1>2. WholeJar(temp[p])
  BY <1>1 DEF Rename, JarInv, TempInv, WholeJar
<1>3. dest' = dest \/ WholeJar(dest)'
  BY <1>2 DEF Rename, WholeJar
<1>4. JarTypeOK'
  BY <1>1, FileTypes DEF Rename, JarInv, JarTypeOK, Stages
<1>5. DestInv'
  BY <1>3 DEF JarInv, DestInv, WholeJar
<1>6. (TempInv(p) /\ FoundInv(p))'
  BY <1>2 DEF Rename, JarInv, JarTypeOK, TempInv, FoundInv, WholeJar
<1>7. \A q \in Procs \ {p} : (TempInv(q) /\ FoundInv(q))'
  BY <1>3, OthersInv DEF Rename, JarInv, JarTypeOK
<1> QED
  BY <1>3, <1>4, <1>5, <1>6, <1>7 DEF JarInv

LEMMA RemoveTempInv ==
  ASSUME JarInv, NEW p \in Procs, RemoveTemp(p) PROVE JarInv'
<1> USE DEF RemoveTemp, Goto
<1>1. JarTypeOK'
  BY FileTypes DEF JarInv, JarTypeOK, Stages
<1>2. DestInv'
  BY DEF JarInv, DestInv, WholeJar
<1>3. (TempInv(p) /\ FoundInv(p))'
  BY DEF JarInv, JarTypeOK, TempInv, FoundInv
<1>4. \A q \in Procs \ {p} : (TempInv(q) /\ FoundInv(q))'
  BY OthersInv DEF JarInv, JarTypeOK
<1> QED
  BY <1>1, <1>2, <1>3, <1>4 DEF JarInv

LEMMA ReturnInv ==
  ASSUME JarInv, NEW p \in Procs, Return(p) PROVE JarInv'
<1> USE DEF Return, Goto
<1>1. JarTypeOK'
  BY DEF JarInv, JarTypeOK, Stages
<1>2. DestInv'
  BY DEF JarInv, DestInv, WholeJar
<1>3. (TempInv(p) /\ FoundInv(p))'
  BY DEF JarInv, JarTypeOK, TempInv, FoundInv, WholeJar
<1>4. \A q \in Procs \ {p} : (TempInv(q) /\ FoundInv(q))'
  BY OthersInv DEF JarInv, JarTypeOK
<1> QED
  BY <1>1, <1>2, <1>3, <1>4 DEF JarInv

LEMMA DieInv ==
  ASSUME JarInv, NEW p \in Procs, Die(p) PROVE JarInv'
<1> USE DEF Die, Goto
<1>1. JarTypeOK'
  BY DEF JarInv, JarTypeOK, Stages
<1>2. DestInv'
  BY DEF JarInv, DestInv, WholeJar
<1>3. (TempInv(p) /\ FoundInv(p))'
  BY DEF JarInv, JarTypeOK, TempInv, FoundInv
<1>4. \A q \in Procs \ {p} : (TempInv(q) /\ FoundInv(q))'
  BY OthersInv DEF JarInv, JarTypeOK
<1> QED
  BY <1>1, <1>2, <1>3, <1>4 DEF JarInv

LEMMA JarNextInv == JarInv /\ [JarNext]_jarVars => JarInv'
<1> SUFFICES ASSUME JarInv, [JarNext]_jarVars PROVE JarInv'
  OBVIOUS
<1>1. CASE UNCHANGED jarVars
  BY <1>1 DEF jarVars, JarInv, JarTypeOK, DestInv, TempInv, FoundInv, WholeJar
<1>2. ASSUME NEW p \in Procs, Step(p) PROVE JarInv'
  BY <1>2, FindJarInv, RequestInv, CopyInv, RenameInv, RemoveTempInv, ReturnInv DEF Step
<1>3. ASSUME NEW p \in Procs, Die(p) PROVE JarInv'
  BY <1>3, DieInv
<1> QED
  BY <1>1, <1>2, <1>3 DEF JarNext

LEMMA JarSpecInv == JarSpec => []JarInv
  BY JarInitInv, JarNextInv, PTL DEF JarSpec
-----------------------------------------------------------------------------
\* The variables of EnsureJar hold what Files, Stages and Versions say.
THEOREM JarTypesCorrect == JarSpec => []JarTypeOK
<1>1. JarInv => JarTypeOK
  BY DEF JarInv
<1> QED
  BY <1>1, JarSpecInv, PTL

\* However many processes download at once, fail or die, the jar in the home
\* directory is a whole one (run.go:54-83), and a process that was given a
\* path has a jar there.
THEOREM JarIsNeverPartial == JarSpec => []NeverPartial
<1>1. JarInv => NeverPartial
  BY DEF JarInv, DestInv, FoundInv, NeverPartial
<1> QED
  BY <1>1, JarSpecInv, PTL

\* The deferred Remove leaves no temporary file of a process that returned,
\* unless the file system refuses the removal (run.go:70-75).
THEOREM NoTempIsLeft == JarSpec => []TempsAreRemoved
<1>1. JarInv => TempsAreRemoved
  BY DEF JarInv, TempInv, TempsAreRemoved
<1> QED
  BY <1>1, JarSpecInv, PTL

\* Every step of the downloads is a step of the atomic cache, or none.
THEOREM DownloadsAreAtomic == JarSpec => CacheIsAtomic
<1>1. JarInit => A!Init
  BY JarCacheAssumption DEF JarInit, A!Init, NoFile, File
<1>2. JarInv /\ [JarNext]_jarVars => [A!Next]_(A!vars)
  <2> SUFFICES ASSUME JarInv, [JarNext]_jarVars PROVE [A!Next]_(A!vars)
    OBVIOUS
  <2> DEFINE ans == [p \in Procs |-> IF stage[p] \in {"path", "error"} THEN stage[p] ELSE "none"]
  <2>0. stage \in [Procs -> Stages] /\ dest \in Files
    BY DEF JarInv, JarTypeOK
  <2>1. CASE UNCHANGED jarVars
    BY <2>1 DEF jarVars, A!vars
  <2>2. ASSUME NEW p \in Procs, NEW place,
               place \notin {"path", "error"}, stage[p] \notin {"path", "error"},
               stage' = [stage EXCEPT ![p] = place]
        PROVE  ans' = ans
    BY <2>0, <2>2
  <2>3. ASSUME NEW p \in Procs, Step(p) \/ Die(p) PROVE A!Next \/ UNCHANGED A!vars
    <3>1. CASE FindJar(p) \/ Request(p) \/ Copy(p) \/ RemoveTemp(p) \/ Die(p)
      <4>1. dest' = dest
        BY <3>1 DEF FindJar, Request, Copy, RemoveTemp, Die
      <4>2. ans' = ans
        BY <3>1, <2>2 DEF FindJar, Request, Copy, RemoveTemp, Die, Goto
      <4> QED
        BY <4>1, <4>2 DEF A!vars
    <3>2. CASE Rename(p)
      <4>1. ans' = ans
        BY <3>2, <2>2 DEF Rename, Goto
      <4>2. CASE dest' = dest
        BY <4>1, <4>2 DEF A!vars
      <4>3. CASE WholeJar(dest)'
        <5>1. dest'.version \in Versions
          BY <4>3 DEF WholeJar
        <5>2. A!Install(dest'.version)
          BY <4>1 DEF A!Install
        <5> QED
          BY <5>1, <5>2 DEF A!Next
      <4> QED
        BY <3>2, <4>2, <4>3, RenameInv
    <3>3. CASE Return(p)
      <4>1. dest' = dest /\ elsewhere \in BOOLEAN
        BY <3>3 DEF Return, JarInv, JarTypeOK
      <4>2. ans[p] = "none"
        BY <3>3 DEF Return
      <4>3. CASE stage[p] = "found"
        <5>1. dest.version # Absent \/ elsewhere
          BY <4>3, JarCacheAssumption DEF JarInv, FoundInv, WholeJar
        <5>2. ans' = [ans EXCEPT ![p] = "path"]
          BY <2>0, <3>3, <4>3 DEF Return, Goto
        <5>3. \E e \in BOOLEAN : A!Give(p, e)
          BY <4>1, <4>2, <5>1, <5>2 DEF A!Give
        <5> QED
          BY <5>3 DEF A!Next
      <4>4. CASE stage[p] = "failed"
        <5>1. ans' = [ans EXCEPT ![p] = "error"]
          BY <2>0, <3>3, <4>4 DEF Return, Goto
        <5>2. A!Refuse(p)
          BY <4>1, <4>2, <5>1 DEF A!Refuse
        <5> QED
          BY <5>2 DEF A!Next
      <4> QED
        BY <3>3, <4>3, <4>4 DEF Return
    <3> QED
      BY <2>3, <3>1, <3>2, <3>3 DEF Step
  <2> QED
    BY <2>1, <2>3 DEF JarNext
<1> QED
  BY <1>1, <1>2, JarSpecInv, PTL DEF JarSpec, CacheIsAtomic, A!Spec
=============================================================================
