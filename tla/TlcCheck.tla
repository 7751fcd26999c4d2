------------------------------ MODULE TlcCheck ------------------------------
(***************************************************************************)
(* rust/src/tlc.rs, check and run: several calls at once, on the threads   *)
(* of several processes, each with a directory in the shared temporary     *)
(* directory that is named after the process, a counter and the module.    *)
(* A process may be killed in the middle of its calls; the TLC that a call *)
(* has started goes on, and a later process may get the same identifier.   *)
(***************************************************************************)
EXTENDS ToolOutput, FiniteSets

CONSTANTS Procs, Pids,   \* processes, and the identifiers they can get
          Calls,         \* calls of check
          ModuleName,    \* of the job of a call
          AuxNames, Aux, \* auxiliary modules, and those of the job of a call
          Outcomes       \* what the TLC of a call may print, and how it ends

\* The lines on stdout, how the last of them ends, the number of lines on
\* stderr, the exit code unless a signal ended it, and whether TLC printed
\* all it had to and exited.
Output == [lines: Seq(Line), ending: {"line", "unterminated", "partial"}, stderr: Nat,
           code: Int, signal: BOOLEAN, whole: BOOLEAN]

\* A JVM that dies exits with none of the codes TLC gives its verdicts.
ASSUME TlcCheckAssumption ==
  /\ Aux \in [Calls -> SUBSET AuxNames]
  /\ AuxNames \cap {".", "tla", "cfg", "states"} = {}
  /\ Outcomes \in [Calls -> SUBSET Output] /\ Noise \in Line
  /\ \A c \in Calls : \A o \in Outcomes[c] :
       ~o.whole => o.signal \/ o.code \notin {0, 10, 11, 12, 13}

VARIABLES proc,   \* whether a process is unborn, alive or dead
          pid,    \* its identifier
          owner,  \* the process that makes a call
          seq,    \* its counter SEQ
          pc,     \* where the thread of a call is
          dir,    \* the directory of a call, once it has one
          clean,  \* nothing of an earlier call was left there
          todo,   \* the files it has yet to write
          tlc,    \* its TLC process
          out,    \* what that printed, once it has ended
          tree,   \* the temporary directory: what is in which directory
          leaked, \* the call could not remove its directory
          result  \* what the call returns

vars == <<proc, pid, owner, seq, pc, dir, clean, todo, tlc, out, tree, leaked, result>>

Names == {ModuleName[c] : c \in Calls}
Dirs  == Pids \X Nat \X Names
NoDir == <<>>

\* The files of a job; TLC's metadir and the directory itself (".") are
\* entries as well.  by is the call that has put the entry there.
FilesOf(c) == {"tla", "cfg"} \cup Aux[c]

Entry(d, f, c) == [dir |-> d, file |-> f, by |-> c]

In(d) == {e \in tree : e.dir = d}

\* What may be left by a remove_dir_all whose error is ignored: nothing, or
\* the directory and anything in it.
Remains(d) == {left \in SUBSET In(d) : left # {} => \A e \in In(d) : e.file = "." => e \in left}

NoOutput == [lines |-> <<>>, ending |-> "line", stderr |-> 0, code |-> 0, signal |-> FALSE,
             whole |-> FALSE]

NoResult == [status |-> "none", found |-> EmptyResult]
Error    == [status |-> "error", found |-> EmptyResult]

InFlight(c) == pc[c] \in {"clear", "create", "files", "wait", "drop"}
-----------------------------------------------------------------------------
Init == /\ proc = [p \in Procs |-> "unborn"]
        /\ \E i \in Pids : pid = [p \in Procs |-> i]
        /\ owner \in [Calls -> Procs]
        /\ seq = [p \in Procs |-> 0]
        /\ pc = [c \in Calls |-> "idle"]
        /\ dir = [c \in Calls |-> NoDir]
        /\ clean = [c \in Calls |-> FALSE]
        /\ todo = [c \in Calls |-> FilesOf(c)]
        /\ tlc = [c \in Calls |-> "none"]
        /\ out = [c \in Calls |-> NoOutput]
        /\ tree = {}
        /\ leaked = [c \in Calls |-> FALSE]
        /\ result = [c \in Calls |-> NoResult]

\* The identifier is that of no other process that is alive.
Start(p) == /\ proc[p] = "unborn"
            /\ \E i \in Pids : /\ \A q \in Procs : proc[q] = "alive" => pid[q] # i
                               /\ pid' = [pid EXCEPT ![p] = i]
            /\ proc' = [proc EXCEPT ![p] = "alive"]
            /\ UNCHANGED <<owner, seq, pc, dir, clean, todo, tlc, out, tree, leaked, result>>

At(c, place) == proc[owner[c]] = "alive" /\ pc[c] = place

GoTo(c, place) == pc' = [pc EXCEPT ![c] = place]

Return(c, r) == result' = [result EXCEPT ![c] = r]

\* There is no source, no name, or no valid configuration.
Reject(c) == /\ At(c, "idle")
             /\ GoTo(c, "done") /\ Return(c, Error)
             /\ UNCHANGED <<proc, pid, owner, seq, dir, clean, todo, tlc, out, tree, leaked>>

\* Mutant: SEQ is read and not counted up.
ClaimLoad(c) ==
  LET p == owner[c] IN
  /\ At(c, "idle")
  /\ dir' = [dir EXCEPT ![c] = <<pid[p], seq[p], ModuleName[c]>>]
  /\ GoTo(c, "clear")
  /\ UNCHANGED <<proc, pid, owner, seq, clean, todo, tlc, out, tree, leaked, result>>

\* SEQ.fetch_add, and the name.
Claim(c) ==
  LET p == owner[c] IN
  /\ At(c, "idle")
  /\ dir' = [dir EXCEPT ![c] = <<pid[p], seq[p], ModuleName[c]>>]
  /\ seq' = [seq EXCEPT ![p] = @ + 1]
  /\ GoTo(c, "clear")
  /\ UNCHANGED <<proc, pid, owner, clean, todo, tlc, out, tree, leaked, result>>

\* Mutant: the directory is taken to be new.
ClearNothing(c) ==
  /\ At(c, "clear")
  /\ clean' = [clean EXCEPT ![c] = TRUE]
  /\ GoTo(c, "create")
  /\ UNCHANGED <<proc, pid, owner, seq, dir, todo, tlc, out, tree, leaked, result>>

\* remove_dir_all of what an earlier call may have left there.
Clear(c) ==
  /\ At(c, "clear")
  /\ \E left \in Remains(dir[c]) :
       /\ tree' = (tree \ In(dir[c])) \cup left
       /\ clean' = [clean EXCEPT ![c] = left = {}]
  /\ GoTo(c, "create")
  /\ UNCHANGED <<proc, pid, owner, seq, dir, todo, tlc, out, leaked, result>>

Put(f, c) == tree' = {e \in tree : e.dir = dir[c] => e.file # f} \cup {Entry(dir[c], f, c)}

\* create_dir_all.  Only after it does the guard that removes the directory
\* exist.
Create(c) ==
  /\ At(c, "create")
  /\ \/ Put(".", c) /\ GoTo(c, "files") /\ UNCHANGED result
     \/ GoTo(c, "done") /\ Return(c, Error) /\ UNCHANGED tree
  /\ UNCHANGED <<proc, pid, owner, seq, dir, clean, todo, tlc, out, leaked>>

\* Mutant: an error returns where the guard does not exist yet.
FailUnguarded(c) == GoTo(c, "done") /\ Return(c, Error)

\* An error from here on returns through the guard.
Fail(c) == GoTo(c, "drop") /\ Return(c, Error)

Order(f) == CASE f = "tla" -> 1 [] f = "cfg" -> 2 [] OTHER -> 3

WriteFile(c, f) ==
  /\ At(c, "files")
  /\ f \in todo[c] /\ \A g \in todo[c] : Order(f) <= Order(g)
  /\ \/ /\ Put(f, c)
        /\ todo' = [todo EXCEPT ![c] = @ \ {f}]
        /\ UNCHANGED <<pc, result>>
     \/ Fail(c) /\ UNCHANGED <<todo, tree>>
  /\ UNCHANGED <<proc, pid, owner, seq, dir, clean, tlc, out, leaked>>

\* run: the jar, the java and cmd.output(), which may all fail.
Spawn(c) ==
  /\ At(c, "files") /\ todo[c] = {}
  /\ \/ tlc' = [tlc EXCEPT ![c] = "running"] /\ GoTo(c, "wait") /\ UNCHANGED result
     \/ Fail(c) /\ UNCHANGED tlc
  /\ UNCHANGED <<proc, pid, owner, seq, dir, clean, todo, out, tree, leaked>>

\* Mutant: unwrap_or(0).
ExitCodeOrZero(o) == IF o.signal THEN 0 ELSE o.code

\* out.status.code().unwrap_or(-1): a signal has no code.
ExitCode(o) == IF o.signal THEN -1 ELSE o.code

\* stderr is appended to stdout, to a last line that has no end as well.
Collected(o) ==
  LET noise(n) == [i \in 1..n |-> Noise]
      glued == \/ o.ending = "partial"
               \/ o.ending = "unterminated" /\ o.stderr > 0
  IN  IF glued THEN Front(o.lines) \o noise(IF o.stderr = 0 THEN 1 ELSE o.stderr)
      ELSE o.lines \o noise(o.stderr)

\* output() returns when TLC has ended.
Collect(c) ==
  /\ At(c, "wait") /\ tlc[c] = "ended"
  /\ Return(c, RunResult(ParseLines(Collected(out[c])).msgs, ExitCode(out[c])))
  /\ GoTo(c, "drop")
  /\ UNCHANGED <<proc, pid, owner, seq, dir, clean, todo, tlc, out, tree, leaked>>

\* TempDir::drop, which ignores an error as well.
Drop(c) ==
  /\ At(c, "drop")
  /\ \E left \in Remains(dir[c]) :
       /\ tree' = (tree \ In(dir[c])) \cup left
       /\ leaked' = [leaked EXCEPT ![c] = left # {}]
  /\ GoTo(c, "done")
  /\ UNCHANGED <<proc, pid, owner, seq, dir, clean, todo, tlc, out, result>>

Step(c) == \/ Reject(c) \/ Claim(c) \/ Clear(c) \/ Create(c)
           \/ \E f \in FilesOf(c) : WriteFile(c, f)
           \/ Spawn(c) \/ Collect(c) \/ Drop(c)
-----------------------------------------------------------------------------
\* TLC makes its metadir, and the directories above it.
WriteStates(c) ==
  /\ tlc[c] = "running"
  /\ tree' = tree \cup {Entry(dir[c], f, c) : f \in {".", "states"}}
  /\ UNCHANGED <<proc, pid, owner, seq, pc, dir, clean, todo, tlc, out, leaked, result>>

\* TLC exits, crashes or is killed, whether the caller is still there or not.
End(c) == /\ tlc[c] = "running"
          /\ tlc' = [tlc EXCEPT ![c] = "ended"]
          /\ \E o \in Outcomes[c] : out' = [out EXCEPT ![c] = o]
          /\ UNCHANGED <<proc, pid, owner, seq, pc, dir, clean, todo, tree, leaked, result>>

\* A process is killed, aborts or exits: no guard of it is dropped.
Crash(p) == /\ proc[p] = "alive"
            /\ proc' = [proc EXCEPT ![p] = "dead"]
            /\ pc' = [c \in Calls |-> IF owner[c] = p /\ InFlight(c) THEN "gone" ELSE pc[c]]
            /\ UNCHANGED <<pid, owner, seq, dir, clean, todo, tlc, out, tree, leaked, result>>

Next == \/ \E p \in Procs : Start(p) \/ Crash(p)
        \/ \E c \in Calls : Step(c) \/ WriteStates(c) \/ End(c)

Spec == Init /\ [][Next]_vars
-----------------------------------------------------------------------------
Places == {"idle", "clear", "create", "files", "wait", "drop", "done", "gone"}

\* The values the variables range over, of those that decide what is where.
TypeOK ==
  /\ proc \in [Procs -> {"unborn", "alive", "dead"}]
  /\ pid \in [Procs -> Pids] /\ owner \in [Calls -> Procs]
  /\ seq \in [Procs -> Nat]
  /\ pc \in [Calls -> Places]
  /\ dir \in [Calls -> Dirs \cup {NoDir}]
  /\ clean \in [Calls -> BOOLEAN] /\ leaked \in [Calls -> BOOLEAN]
  /\ todo \in [Calls -> SUBSET (AuxNames \cup {"tla", "cfg"})]
  /\ tlc \in [Calls -> {"none", "running", "ended"}]
  /\ tree \subseteq [dir : Dirs, file : AuxNames \cup {".", "tla", "cfg", "states"}, by : Calls]

\* tlc.rs:460, "Unique per call": two calls that are on their way never
\* have one directory, in one process or in two.
DirsAreUnique ==
  \A c, d \in Calls : InFlight(c) /\ InFlight(d) /\ c # d => dir[c] # dir[d]

\* A TLC whose caller waits for it finds the files of its job and no others
\* (metadirs aside), unless what a killed process had left under the same
\* name could not be removed.
JobsAreIsolated ==
  \A c \in Calls : pc[c] = "wait" /\ clean[c] =>
    {e \in In(dir[c]) : e.file \notin {".", "states"}} = {Entry(dir[c], f, c) : f \in FilesOf(c)}

\* What is in the temporary directory belongs to a call on its way, to one
\* whose process was killed, or to one that could not remove it: a call that
\* has returned leaves nothing, and its TLC does not write any more.
OnlyTheDeadLeave ==
  \A e \in tree : InFlight(e.by) \/ pc[e.by] = "gone" \/ leaked[e.by]

\* The lines of stdout that arrive as they were printed.
Intact(o) == IF o.ending = "partial" \/ (o.ending = "unterminated" /\ o.stderr > 0)
             THEN Front(o.lines) ELSE o.lines

\* A result is read off the messages that TLC has printed, with nothing of
\* stderr in them, and is a verdict of TLC only when that has printed all
\* it had to and has exited by itself.  rust/README.md:3-4, "Same design,
\* same semantics": the Go package would give the same status, except,
\* exactly, that errors make a failure of an exit code that is not listed.
ResultIsWhatTLCSaid ==
  \A c \in Calls : pc[c] = "done" /\ result[c].status \notin {"none", "error"} =>
    LET r    == result[c]
        msgs == FramedMessages(Intact(out[c]))
    IN  /\ r.found = Interpret(msgs)
        /\ r.status \in {"success", "assumption", "deadlock", "safety", "liveness"}
             => out[c].whole
        /\ r.status = NewResult(msgs, ExitCode(out[c])).status
             <=> ~(r.status = "unknown" /\ r.found.errors > 0)
=============================================================================
