# Verification of tlacuilo

TLA+ models, TLC runs and TLAPS proofs about `tlacuilo`, a library in Go and a
crate of the same design in Rust, that writes, prints, parses and runs TLA+ and
that checks recorded traces of an implementation against an abstract
specification. Paths below are relative to the repository; those of the Go
packages and those of the crate (`rust/src/`) are named for the code that a
module was translated from. `PROJECT.json` maps every definition to the lines it
models, and lists the runs, the mutants, the hazards, the findings and the
theorems.

Translated from the crate: the printer, the scanner, the parser, values and ITF,
configurations, the generated module and validation, the protocol of TLC's
output, and `check` of `tlc.rs`. Translated from the Go packages, because the
crate has no counterpart of what is hard in them: the Recorder (goroutines, a
live pointer, conversions that fail), `tlc.Check` (a context, a pipe that is read
while TLC writes to it), the cached jar, and the example controller.

    tlc -workers 2 -config MCRecorder.cfg MCRecorder      # one run
    tlapm Recorder_proofs.tla                             # one proof module

## 1. The system: inventory

| part | state | operations | hard behaviour | what makes it correct |
|---|---|---|---|---|
| `tracecheck/recorder.go` Recorder | `tr` (a live trace), `cur` (last assignment), a mutex | `Init`, `Step`, `InitState`, `StepState`, `Trace` | snapshots are read field by field before the mutex is held; `Trace` hands out the live pointer; `Init` replaces state before a conversion that can fail | the trace is the implementation's history: numbered, carried forward, never rewritten |
| `tracecheck/spec.go`, `validate.go` | none (one call) | `GenModule`, `GenConfig`, `Validate` | the verdict is encoded as a deadlock of a generated module and decoded from a counterexample; options can defeat the encoding | conforming if and only if the specification allows the trace; the reported state is where it stops |
| `tlc/run.go`, `output.go`, `result.go` | temporary directory, child process, pipe | `Check`, `Run`, `ParseToolOutput`, `interpret` | process and parser run concurrently through a bounded pipe; cancellation, crashes, stray stderr, lines that are too long, states that do not parse | a `Result` is complete and is a verdict of TLC; nothing is left behind; the call returns |
| `tlc/run.go` jar cache | files under the user's home | `FindJar`, `DownloadJar`, `EnsureJar` | several processes share it; downloads fail or die half-way | no partial jar is ever found |
| `trace/trace.go` | `Vars`, `States` | `New`, `AddState`, printing, ITF | index conventions (1-based states, 0-based loop) | indices and variable list agree with the states |
| `examples/k8scontroller` | `FakeCluster`, requeue flag | `Reconcile`, `reconcileToLevel`, moves of user and environment | level-triggered loop on counts it read earlier; exhausted pool; deliberate bug switch | every annotation is a step of the action it names; the cluster settles |
| `ast`, `token/ops.go` printer | column of the next character | `ExprString`, `Module.String` | parentheses from precedence ranges; layout that the parser gives meaning to | `parse(print(ast)) ≡ ast` |
| `parser`, `scanner` | token index, stack of bullet columns | `ParseExpr`, `ParseModule`, ... | operator precedence with ranges; junction lists that end by column; lookahead to tell forms apart | one reading, the table's; an error otherwise |
| `builder` | a module under construction | one constructor per construct | none of its own (`Num` of the least integer) | what it builds prints |
| `value`, `value/itf.go` | none | `FromGo`, `FromExpr`, `Compare`, ITF | canonical order, duplicate keys | equal values are equal however built |
| `cfg` | none | `Parse`, `Format`, `Validate` | values are free text whose end is guessed; keywords open sections wherever they stand | what is written is read back; a file says what its sections say |
| `rust/src/tlc.rs` | a counter, a directory per call in the shared temporary directory, the TLC process | `check`, `run` | concurrent calls on threads and in processes; identifiers that are given out again; processes that die and leave their directory and their TLC behind; stdout and stderr put together | no call works in another's directory; only the dead leave anything; a result is what TLC said |
| the rest of `rust/src/` | as in Go | the same design again | no conversion, live pointer or context; a status more | as above |

**Interactions.** A harness calls the Recorder (calls, under its mutex) and
passes `rec.Trace()`, a shared live object, to `Validate`. `Validate` generates
a module (`ast`, `parser` for `Spec.Source`), runs it through `tlc.Check`
(temporary directory, child process, pipe, jar cache) and reads the verdict
from the `Result`. `tlc` reads the states of a counterexample with
`parser.ParseValueExpr` and `value.FromExpr`. The example controller is a
client of the Recorder and of `Validate`.

## 2. The modules

```
Conformance ── ConformanceOracle            what a caller of Validate is promised
     └── TraceValidation ── MCTraceValidation, TraceValidation_proofs
Recorder ── MCRecorder
     └── Harness ── MCHarness, Recorder_proofs
                                            goroutines + Recorder + GenModule's reads
ToolOutput ── ToolOutput_proofs             framing and its meaning, statuses
     ├── TlcRun ── MCTlcRun, TlcRun_proofs  Check, Run, the process and the pipe (Go)
     └── TlcCheck ── MCTlcCheck, TlcCheck_proofs
                                            check and run, threads and processes (Rust)
AtomicCache ◁─ JarCache ── MCJarCache, TlcRun_proofs
ReplicaController ◁─ ReplicaReconciler ── MCReplicaReconciler, ReplicaReconciler_proofs
Syntax ── Printer, Scanner, Parser ── Units ── RoundTrip ── MCRoundTrip
ConfigFile ── MCConfigFile, ConfigFile_proofs
                                            configurations, written and read
Values ── ValueITF ── Construction ── Construction_proofs
     │                     └── Interchange ── MCInterchange
     └── ValueText (INSTANCE Parser) ──┘    values, built, compared and exchanged
```

`──` is EXTENDS, `◁─` a refinement (`INSTANCE ... WITH`; ConformanceOracle is
one too). Operators introduced by a comment "Mutant:" are not part of a model:
each is a plausible bug in the operator after it, and putting it in its place
makes the property named in `PROJECT.json` fail. They are kept so that it can
be seen that every checked property can.

### Conformance, ConformanceOracle, TraceValidation (rust/src/tracecheck.rs; spec.go, validate.go)

`Conformance` states the question. A *job* is one call of `Validate` with its
specification replaced by what it denotes: an arbitrary set of states, an
initial predicate, a next-state relation, action operators, a refinement
mapping from recorded names to them, an invariant. `IsRun(j, k, r)` says that
`r` is a behaviour over the first `k` recorded states; `Answers(j)` is what a
caller may rely on, and names the four exceptions the code makes.
`ConformanceOracle` is the abstract specification: one answer out of `Answers`.

`TraceValidation` is the code: `GenModule` refuses or generates; `TraceInit`,
`TraceMatch`, `Advance`, `Done`, `TraceNext` are the generated module's
definitions as sets of nodes `<<TraceIdx, state>>`; `TLC`
(external) computes initial states, expands frontier nodes in **any** order,
checks invariants on every generated state, deadlock on every expanded one, and
may fail at any moment; `Interpret` is the end of `Validate`. It reads the last
state of the counterexample that parsed: any state print may be one that does not
parse, and is then dropped with a warning in the Result (output.go:155,
tlc.rs:193-195), so that the place that is reported may be too early. The report
keeps whether there was such a warning (`warned`), and the oracle promises the
first state that cannot be reached only without one. `Incomplete` is where TLC
stops because `UNCHANGED TraceVars` or a stutter assigns only `Spec.Vars` and the
specification has more variables (`bound` is FALSE).

### Recorder, Harness (tracecheck/recorder.go, trace/trace.go)

`Recorder`: every trace object ever made (`traces`), the one the Recorder
points to (`tr`), and `cur`. `RecordInit` is `Init`/`InitState`: the trace and
`cur` are replaced before the conversion that may fail. `RecordStep` and
`RefuseStep` are the two outcomes of `Step`/`StepState`. A trace that was
handed out is an index that somebody remembers, so sharing is visible.

`Harness` puts two goroutines around it that change an implementation, read
(outside the mutex, `Read`), and record (`Record`, under it), and that validate
the live trace (`Measure`, `Generate`: spec.go:95-96 takes the length, and
later ranges). `Read` takes one variable at a time, in any order: `fromStruct`
walks the fields of a snapshot (value/fromgo.go:99-127) and `TLAState` makes a
getter call for each (controller.go:138-147), and another goroutine may change the
implementation in between. `log` and `spans` are history variables: the states the
implementation went through, and where in them each recorded state was read.
`serial` says whether the goroutines take turns, `whole` whether they use
`StepState` or `Step`; both are chosen at the start, so the same run shows what
holds under which discipline. Two things are assumed of the implementation, which
is the user's: the value of one variable is read at one moment (it guards its own
fields), and nothing changes while the initial state of a scenario is read.

### ToolOutput, TlcRun (tlc), TlcCheck (rust/src/tlc.rs)

`ToolOutput`: the framing automaton (`Feed`), the interpretation of messages
and exit codes (`Interpret`, `NewResult`; `RunResult` is the crate's status), and
a second, declarative definition of framing (`FramedMessages`) that the automaton
is compared with. The texts of messages are the members of a small set that the
code tells apart.

`TlcRun`: the goroutine in `Check`/`Run` step by step (directory, files, start,
one line at a time, end of file, `cmd.Wait`, verdict, deferred removal, whose
error is ignored as in the code, so that it may be refused); the
TLC process with its lines and exit code, blocked while the pipe is full; stray
lines from stderr; crashes; the context and the kill that follows; an
`opts.Stdout` whose writes fail.

`TlcCheck`: any number of calls of the crate's `check`, each on a thread of some
process, with the directory named after process identifier, counter and module
(`Claim`), the removal of what an earlier call may have left there (`Clear`), the
files in their order, TLC, whose output is collected when it has ended, and the
guard that removes the directory (`Drop`), which exists only from `Create` on.
Removing a directory may leave anything in it, the error is ignored. A process
may die anywhere (`Crash`): its guards are not dropped, its TLC goes on
(`WriteStates`, `End`), and a later process may get its identifier. `tree` has one
entry per file with the call that wrote it.

### AtomicCache, JarCache (tlc/run.go:30-140)

`JarCache`: per process the place in `EnsureJar`, its temporary file with the
chunks written so far, and the shared destination. Requests, copies, renames
may fail; processes may die anywhere; the removal of the temporary file may be
refused, which nobody notices (`kept`). `AtomicCache` is the promise, with the
mapping `cache <- dest.version`, `answer <- ` what the process returned.

### ReplicaController, ReplicaReconciler (examples/k8scontroller)

`ReplicaController` is the repository's own abstract specification;
`ReplicaReconciler` is `Reconcile`, one call a step, in the loop of
`reconcileToLevel`, with `SetDesired` and `CrashPod` between two calls. `act`
is the annotation that is recorded with the step.

### Syntax, Printer, Scanner, Parser, Units, RoundTrip (printer.rs, scanner.rs, parser.rs, token.rs)

`Syntax` has trees and the operator table, with one operator for every entry
that differs in range or associativity (two where a conflict needs them).
`Printer` turns a tree into pieces (strings, line breaks, subtrees) and renders
them to words **with columns**: strings with no space between them are one word.
`Scanner` splits the words into the longest tokens they begin with, drops
comments, and splits `WF_` from its subscript. `Parser` is the recursive descent
over the tokens, with `blocked` on columns. `Units` has the units of a module
(declarations, definitions by name and by symbol, functions, INSTANCE, LOCAL,
assumptions, theorems, rules, nested modules), printed one after another with
nothing between two that the scanner would see. `RoundTrip` grows trees the way
the builder composes them, prints and parses each; grows modules of several
units around small trees; and grows chains of operators without parentheses.
These modules use RECURSIVE operators, so that they are checked and not proved
about.

Tuples of bounds and several EXCEPT paths are left out because they pass through
the same calls. The circled operators, which the table of the model does not
have, are read as the operators of the same range.

### ConfigFile (rust/src/cfg.rs)

`Format` and `Parse` on sequences of tokens, with `ParseOne` for an iteration of
`parse`'s loop and `ValueEnd` for the place where the scan of a constant's value
stops. What `Format` writes is a sequence of pieces (`Lines`: keywords and entries)
and the text of these. The reference is a file as a person writes
it: `written`, sections in any order and spelling with entries, and its
`Meaning`. A configuration that a program builds is the meaning of such a file,
so that one run asks both questions: is what is written for it read back, and is
a file read as it says. `validate` is the guard of the jobs of `TlcCheck` and
`TlcRun`.

### Values, ValueText, ValueITF, Construction, Interchange (value, trace/trace.go)

`Values` has the constructors, `Compare` and `Meaning`, the reference: the TLA+
value that a value stands for, with tuples, records and functions all as
functions and with the left-most of two entries for one key, which is what `@@`
means to TLC. `ValueText` is `String` as tokens and `Parse`, which goes through
`Parser`; `ValueITF` is the JSON of values and of traces, with `Failed` for an
interval that is too long. `Construction` builds two values side by side, as
callers do: the constructors directly, maps and structs through `FromGo`. Its
properties say exactly where identity ends: which values are equal in TLA+ and
not `Equal` (`Loose`), what ITF loses. `Interchange` adds their text to it, and
which of them have none.

What recurses over values (`Comparison`, `Denotation`, `Encoding`, `Decoding`,
`Contents`, `Depths`) is a recursive function whose domain is a set of trees, not
a RECURSIVE operator: each is one level of the recursion (`CompareBy`,
`DenotedBy`, `ITFBy`, `ValueBy`) applied to the function itself, which is how
they can be proved about. The set needs a bound on the levels of a tree, the
constant `MaxNesting`, any natural number; in the run it is above what the depth
of the constructs can reach.

## 3. The runs

| run | bounds | what it shows |
|---|---|---|
| `trace_validation` | 2 abstract states, traces of 0-3 states over a mapped and an unmapped action, every next-state relation, four operators derived from it, both bindings, with and without SkipInit, 2 invariants, quiet or not; any states of the counterexample do not parse (1 001 748 states) | `SearchIsSound`, `VerdictIsJustified`, and that `Validate` implements the oracle |
| `recorder` | 2 variables, 2 values and one that does not convert, 2 calls of Init, 3 states | carry-forward, `cur`, numbering, and that handed-out traces only grow |
| `harness` | 2 goroutines, 2 changes between two Inits, the recorder's bounds, variables read one by one (76 932 states) | in turns the trace is the history; with `StepState`, in any interleaving, a recorded state is real unless a change fell between two of its reads; in turns `GenModule` stays in its slice |
| `tlc_run` | four kinds of output plus two with a line that is too long, a pipe of 2 lines, 1 stray line (26 097 states) | completeness of Results, cancellation, cleanup, accounting of states, `Loop`, termination |
| `check` | 2 processes, 2 identifiers, 2 calls for one module, one with an auxiliary file, 5 ways for the second TLC to end (575 072 states) | directories are unique, jobs isolated, only the dead leave anything; a result is what TLC said |
| `config` | 3 sections, 3 entries, 8 spellings of keywords, 4 names, 24 texts of values (424 580 states) | exactly which configurations are read back; every border between two entries is found |
| `jar_cache` | 3 processes, 2 versions, 2 chunks (158 296 states) | no partial jar, no file left but of the dead and of refused removals, refinement of the atomic cache |
| `replica_reconciler` | 3 names, counts to 4, 4 moves | level when idle, honest annotations, refinement of the abstract controller with its fairness, settling |
| `round_trip` | two constructs around a leaf over all operators, three over `=> /\ - ~`, chains of 3, two units around trees of one construct (375 062 states) | printer and parser agree if and only if none of six faulty nodes, or six faulty units, is in what was built; chains are grouped as the table says or refused |
| `interchange` | eleven atoms of all kinds but sets, which are built, two partners, two constructs in both values together, integers and intervals on both sides of the ITF limits | (92 731 states) equality is equality of meaning without loose parts; the order of a map is invisible; text keeps the meaning; ITF keeps the behaviour up to what is named |
| `init_refused`, `options_hide` | as `trace_validation`, narrowed | findings 1 and 2 of section 6 |

**Why the bounds are enough for what the runs are asked.** A conformance
question is about one step at a time: a trace of three states has a first, a
middle and a last step, two abstract states make a step, a stutter and (when
they are bound to one value) a choice; all next-state relations over them are
enumerated. The Recorder's properties relate two states of a trace and two
traces. The pipe of two lines is smaller than every message, so that writer and
reader block on each other in every place. Three processes let two downloads
run next to a reader; two chunks make a file empty, partial and whole. The pool
is one name smaller than the largest count. Printer and parser decide at one
node with regard to its parent, hence pairs of constructs; columns and the
deeper nesting of lists are what three levels are for, and a chain of three has
an operator with a neighbour on both sides. A unit of a module ends because the
next one begins: two of them, over every expression that can end a unit, are all
borders there are. The same goes for two entries or two sections of a
configuration; the third is for an entry between two others. Two calls of
`check` are what one directory can be shared by, in one process or two, alive at
once or one after the other. Two constructs in values put a
construct inside another and compare two that were built apart. For everything
but the parser (`round_trip`, and the text of values) the safety properties are
proved for all sizes (section 5).

**Deadlock.** `trace_validation`, `recorder` check it: a call of `Validate` that
ends loops in `Terminated`, a Recorder can always be called. The others switch
it off because the system stops by itself: a call returns, moves are used up, a
tree, a value, a module or a configuration is at its bound, a goroutine has
panicked, every call of `check` is over and every process dead.

**Symmetry** is used in the Recorder's and the harness's runs, which check
invariants and one action property, over variables, values and goroutines; no
operator of those modules chooses among them.

## 4. Fairness

- `TlcRun!Fairness`: the goroutine in `Check` is scheduled; TLC prints its
  lines and exits (weakly fair, and not enabled when the pipe is full);
  `exec.CommandContext` kills the process of a context that is done. Nobody is
  made to cancel or to crash, and stderr never has to write.
- `JarCache` states none: the transfer has no timeout of its own (run.go:59,
  `http.DefaultClient`), and the caller's context need not have a deadline, so that
  nothing makes a download end. What it does on its way is safe without that.
- `ReplicaReconciler`: the loop in `reconcileToLevel` calls `Reconcile` again
  while it asks to be requeued. The environment is not fair, and the bound on
  its moves is what "once it is quiet" means in `Settles`.
- `TlcCheck` states none: `output()` waits for TLC without a limit and cannot be
  cancelled, so that a TLC that never ends blocks its caller for ever, and the
  crate promises nothing else.

## 5. What is proved

For every value of the constants, under the named assumptions of the modules
(types of the constants, that an absent value is none of the others, that there
are finitely many goroutines; TLC evaluates every assumption). Three of them say
what the processes around the code do:

- a stray line is a line (`Noise \in Line`), which the prover cannot compute
  because it does not know that a string literal is a string;
- what TLC prints of a counterexample (`IsTrace` in `TlcRun`): the states are
  printed whole, are numbered from 1, and "Back to state" names one that was
  printed. This is one counterexample, what TLC stops at unless `ExtraArgs`
  (tlc/run.go:133-134) asks it to go on;
- a TLC that did not get to its end has none of the exit codes of a verdict, or
  was ended by a signal (`TlcCheckAssumption`): 11 to 13 and 0 are given only by
  TLC itself, after its last line.

**Loops and induction.** The loops of the output parser, and those of
configurations, are recursive functions in the model (`ParseLines`, `Interpret`;
`Loop`, `ValueEnd`, `Joined`, `MeaningOf`). Induction needs no operator as a parameter
when it is over a *set*: a set of numbers that holds of 0 and of each successor
holds of all up to a bound, because its complement would have a least member
(`LeastNumber`, `UpTo`); a set of sequences that has the empty one and each
one-element extension of its members has them all (`ByLastElement`); and
trees are counted by their levels, with nothing at level 0 and the parts of a tree
one level below it (`LevelZero`, `TreeLevel`), so that induction over them is
induction over numbers again. `Recursion`
shows in the same way that the recursive functions exist, and `ParseOneMore` and
`InterpretOneMore` unfold them by one element. With this `MessagesAreFramed` is
proved for every output, and the invariants about what the messages amount to.

- **Recorder_proofs**: `TypeOK`, `CarriedForward`, `CurIsLastState`,
  `WellNumbered` as invariants and `HandlesOnlyGrow` as an action property. The
  inductive invariant is `TypeOK`, `CurIsLastState` and, of every trace,
  `TraceInv` (numbered, names are what is assigned, domains grow). None of
  them is inductive alone: the domain of a new state contains that of the
  previous one because it is merged into `cur`, and `cur` is the last state
  because the last step left it so, also after failures. The lemmas are about
  `Merge` and `AddState`.
  Of the harness around it `TraceIsHistory`, `SnapshotsAreRealUnlessTorn` and
  `SerialNeverPanics`, for any number of goroutines. The invariant is the
  Recorder's, which is cited and not proved again, and three parts: the trace
  lacks as many states as there are goroutines with an unrecorded change
  (`Counted`); with `StepState` every value that is recorded, and every one that a
  goroutine has read so far, is that of its variable somewhere between the first and
  the last of the reads (`Between`, `Real`), which is one state if these are at one
  place; in turns only one goroutine is anywhere, the log is the trace
  plus its change, and the length it measured is that of the trace (`OneAtATime`).
- **TraceValidation_proofs**: `TypeOK`, `SearchIsSound`, `VerdictIsJustified`,
  and `Spec => AnswersTheQuestion`, that `Validate` implements the oracle. The
  invariant adds that `seen` is closed: every expanded node has its successors
  in `seen`, every other one is in the frontier, and no seen node breaks the
  invariant (`Searching`). From closure, `AllRunsAreSeen` concludes that when
  the frontier is empty every run over the trace has been seen, by the least
  length at which one was not (the well-ordering of the naturals stands in for
  induction); `DeadlockIsDivergence` uses that a node determines the state when
  every variable is bound. When the last states of the counterexample were dropped,
  the one that is left stands for a prefix of a run that TLC found
  (`PrefixIsReached`), so that the trace is allowed up to the place reported and
  is not allowed as a whole (`DivergenceIsAnAnswer`).
- **ToolOutput_proofs**, **TlcRun_proofs**: `MessagesAreFramed`,
  `ResultIsComplete`, `AbortedIsNoVerdict`, `NothingLeftBehind`,
  `StatesAreAccounted`, `LoopIsAState`. What was written is what was read
  followed by what is in the pipe, and the automaton's state `Follows` what it
  has read: its messages are, in order, the texts of the frames in it, and the
  message that is open is what came after the last start that no end or start
  followed. That `Feed` keeps this (`FeedFollows`) is an argument about which
  pairs of a start and an end are frames after one line more. At the end of file
  the pipe is empty, so that a Result is read off the frames of all output. The
  rest of the invariant says what is there at each place of the goroutine.
  `LoopIsAState` is not inductive, for a loop message may be open while the
  states before it are already read: `TraceInv` adds what the output so far makes
  of the open message and of a result. Noise may be the first line of a state
  print, and then there is a warning; without one each state is at the place of
  its number (`Parsed`), the first line of an open state print is the last head
  (`HeadIsNumbered`), and the number in an open loop message is not beyond the
  trace (`Loops`). TLC has checked `TraceInv` on the bounds of the run.
  `StatesAreAccounted` needs no script at all for its first half (`Counted`: by
  induction over the output), and `Ordered` for its second.
- **TlcRun_proofs**, of the jar that `Run` starts TLC from: `JarTypeOK`,
  `NeverPartial`, `TempsAreRemoved`, and `JarSpec => CacheIsAtomic`. The invariant
  (`JarInv`) adds that a temporary file is whole when it is renamed and holds
  what its process was served. The refinement maps a successful rename to
  `Install`, a return to `Give` or `Refuse`, and every other step to a stutter.
- **TlcCheck_proofs**: `TypeOK`, `DirsAreUnique`, `JobsAreIsolated`,
  `OnlyTheDeadLeave`, `ResultIsWhatTLCSaid`, for any number of calls and processes
  and however often an identifier is given out again. Two calls on their way have different
  directories because processes that are alive have different identifiers and
  the number in a name is below the process's counter (`Named`,
  `NumbersDiffer`); a file is in the directory of the call that wrote it, and a
  TLC that runs has a caller that waits or has died, so that nothing but the
  metadir of a TLC whose caller died gets into a directory that another call has
  found empty (`Owned`, `OnlyOwn`). A result is made of the outcome of the call's
  own TLC (`RInv`), and what is collected of it frames as what was printed:
  stderr comes after everything on stdout, outside of all messages
  (`NoiseIsIgnored`), and only an output that was cut lacks its last line.
- **ConfigFile_proofs**: `ReadBackUnlessFaulty` and `EveryEntryIsRead`, for
  configurations of any size, names and values, and files of any sections in any
  order. The state invariant is only that entries stand in the section of their
  keyword (`WrittenInPieces`); the rest is about the operators. `PiecesAreRead` says
  that `parse`'s loop comes to the place after the pieces read so far with their
  meaning, piece by piece: a name is one token, and a value that is not cut and
  whose brackets match ends where it was written to (`ValueIsRead`), because the
  next piece begins like one (`PieceBegins`). With this `BordersAreFound`, and, as
  the pieces of `Format` mean the configuration they are written for (`LinesAre`),
  one direction of `WhatIsWrittenIsReadBack`. For the other, whatever text is read,
  what is read of it is sound: names are single words and values are not cut
  (`ParseIsSound`, from the loop's invariant); so that only a value whose brackets
  do not match remains, and the first such value takes in what comes after it, which
  is not taken back (`UnclosedIsNotRead`, `ReadStays`). The exception in `Faulty`,
  that such a value is read if nothing is written after it, is needed: it is the
  case in which that argument fails.
- **ReplicaReconciler_proofs**: `LevelWhenIdle` for every pool and count, with
  the deliberate bug or without; `AnnotationsAreClaims`, and that `Reconcile`
  steps as the abstract controller does, without the bug. What `Reconcile` counted
  is what there is (`UpCounts`, `DownCounts`), because the names it chooses do
  not run; it chooses one unless the pool is exhausted (`ChosenIsOne`), and then
  more pods are desired than there are names.

- **Construction_proofs**: `MapOrderIsInvisible`, `EqualMeansTheSame` and
  `ITFKeepsTheBehaviour`, for any atoms, any integers, any limits of ITF, and
  values that are nested to any depth. Here the invariant of the states is small,
  `IsValue` of both (parts of the right kinds, sorted, sets without duplicates),
  and is needed: a set whose elements are out of order has two forms, and a
  record's key that is no string does not come back. That the constructors keep it
  (`ValuesAreWellMade`) rests on `Compare` being a total order
  (`ComparisonIsTotalOrder`), so that each element has one place (`Place`), the
  places of a sequence are all its ranks, and `Sorted` ascends. Everything about values is by induction over the levels of trees, with
  one lemma per kind; each recursive function exists because the next level is
  determined by the one below (`LevelsAre` and its like).
  - `MapOrderIsInvisible`: two sorted sequences without equal keys and with the
    same elements are one sequence, as each element has the same number of smaller
    ones in both; equal keys stay in the order they came in, which shows.
  - `EqualMeansTheSame`: of a value without loose parts the kind, and then the
    parts, can be read off what it stands for. A set is the ascending
    sequence of its elements; a function's maplets say which keys there are, and
    the keys what the order is; a function over `1..n` would be a tuple as well, and is
    loose for that reason.
  - `ITFKeepsTheBehaviour`: a value comes back either as itself (an atom) or as
    one that means the same (`Returns`). Decoding sorts again what was encoded, and
    two elements that differed may come back equal (an interval and the set of
    its members), or in another order: a set loses a duplicate and keeps its
    meaning, and a function's entries move, so that what has to be shown is that
    the same ones count (`SameCount`).

**Only model-checked.** `RoundTripsUnlessFaulty`, `ModuleRoundTripsUnlessFaulty` and
`ParserGroupsAsTheTableSays` of `RoundTrip`, and `TextKeepsMeaning` of `Interchange`,
which goes through the same parser: a recursive descent that consumes a sequence,
with the column and the operator it is called under, is a RECURSIVE operator, which
the prover does not have. As a function it would have to be shown to terminate and to
undo a printer that renders text by column; that is a proof of the size of all
others together. Liveness (`ReturnsOrStuck`,
`CancelReturns`, `Settles`, the fairness part of
`RefinesController`) stays with TLC, as do ENABLED and fairness in general. The
type invariants of `JarCache`, `TlcCheck`, `Harness`, `TlcRun`,
`ReplicaReconciler` and `ConfigFile` are part of the invariants that are proved and are not
listed in runs.

## 6. Findings

Where the code does something else than a document, a comment or a test says
(`PROJECT.json` quotes them).

Two have a run of their own that TLC finds violated:

1. `init_refused`: a first state that the specification's Init refuses leaves
   TLC without an initial state, which is a success, and the trace "conforms".
2. `options_hide`: `Validate` resets `DisableDeadlockCheck` but passes
   `ExtraArgs` and `ConfigPath` on, either of which can turn deadlock checking
   off.

The others are stated as what the code does, exactly, by a property that holds
("if and only if"), so that the same run shows that nothing else is wrong:

3. `recorder`, `CurIsLastState`: `Step` is refused until the first call of `Init`,
   whatever its outcome; an `Init` that fails has made the Recorder accept `Step`.
4. `tlc_run`, `ReturnsOrStuck`: after a parse error `Run` waits for a TLC that
   nobody reads from; without a cancellation the error may never be returned.
5. `round_trip`, `RightChain`: `b - (a - b)` is printed `b - a - b`; the printer
   drops the parentheses on the right as well, and `-`, `--`, `\ominus` are not
   associative. (For the other operators the tree differs and the value does not.)
6. `round_trip`, `MembershipFilter`: a filter whose predicate begins with a
   membership is read as a set map, or not at all.
7. `round_trip`, `UnreadableRef`: the operator arguments `-`, `/\`, `\/`, `\X`.
8. `round_trip`, `UnreadableSubscript`: qualified subscripts of `[A]_v`, `WF_v(A)`.
9. `round_trip`, `SwallowedRef`: an operator as the first argument is printed next
   to the parenthesis and scanned with it: `F(*, b)` begins a comment, `F(**)` is
   read as `F`, `F(+)` and `F(/)` have a circled operator in them.
10. `interchange`, `ITFKeepsTheBehaviour`: a trace that ends in stuttering comes
    back from ITF as a finite prefix; only loops are written. Among the values
    that the property excepts there is one (`Reordered`) that takes nesting
    beyond the bounds of the run and was met in the proof: a function with two
    keys that stand for one value, `{1..2, f}` and `{{1, 2}, <<>>}` where `f` is the
    function without entries. To `Compare` they are two keys, of which the first
    is the lesser one (intervals come before sets); what comes back is `{{1, 2}, f}`
    and `{{1, 2}, <<>>}`, of which it is the second (tuples come before functions),
    and then the other of the two entries counts.
11. `config`, `ReadBackUnlessFaulty`: the value of a constant is cut at the first
    token that can end one and does not go on in one of seven ways: `f[a]`,
    `M!a`, `{a} \X {b}`.
12. `check`, `ResultIsWhatTLCSaid`: an exit code that is not listed, with errors
    reported, is `Unknown` in the crate and a failure in the Go package.
13. `trace_validation`, `AnswersTheQuestion`: `DivergedAt` is said to be the first
    recorded state that the specification could not reach. It is the one after the
    last state of the counterexample that parsed; when the last one did not, an
    earlier state is reported, with an action that the specification takes, and only
    a warning in the Result tells.

A bound whose set is a formula (`BareSet`), declarations of nothing, definitions
of symbols that the language does not let one define, and a LOCAL instance as a
definition's body (`FaultyUnit`) do not round-trip either; they are legal to
build and no TLA+, so that they are not findings.

The harness run also bounds what is left without the discipline that
recorder.go:36-38 asks for, one goroutine at a time. Without turns a state recorded
with `Step` need not be one the implementation was in, and neither need one recorded
with `StepState`: a goroutine reads one field, another one changes both, the first
reads the other field, and the snapshot is torn. Without the exception for it
TLC finds `SnapshotsAreRealUnlessTorn` violated in exactly that way. And validating
a live trace while it grows may index past a slice.

## 7. What is not modelled, and why

- In the scanner: runs of dashes of any width and of more equals signs than the
  printer writes, line comments, escapes in strings and the quoting of strings,
  number bases; errors' texts.
- In the parser: several bounds, names or EXCEPT paths (they pass through the same
  calls as one), tuples of bounds, `\AA` and `\EE`, LET definitions by a symbol,
  the synonyms of ASSUME and THEOREM, proofs (which the parser does not read).
- Values are exchanged as tokens: no value's text has tokens that run together.
- ITF documents of other producers (bare arrays, `#unserializable`, malformed
  ones), action names and indices in ITF: they do not bear on what the values and
  traces stand for.
- The text of the generated module (it is modelled by what it denotes): that the
  text denotes it is the printer's and TLC's business. An operator of the
  specification under two recorded names is one operator of the model.
- Comments in configurations, and the spelling of their tokens: the scanner's.
- `-continue` (several counterexamples in one output), simulation and bounded
  depth, which options or `ExtraArgs` ask for: the searches and scripts are of
  exhaustive runs that stop at the first error. In particular what `Validate`
  makes of a search that `Simulate` or `Depth` end before the divergence is not
  covered by `OptionsCannotHideDivergence`.
- The progress of a download (section 4).
- A job whose auxiliary module has the name of the job's own module: both are
  written to one file. `TlcCheck` has the auxiliary names apart.
- The TLC command line, logging (`OnMessage`), wording of errors.
- The builder's module constructors and `Num` (whose least integer is printed with
  two minus signs), the printing of traces: straight-line code.
- The crate's Recorder is `Recorder` without failed conversions, goroutines and
  live pointers (`&mut self`, `Into<Value>`), so that it has no module of its own.
- `examples/diehard`, `examples/reconciler`: straight-line programs.

## 8. Plan

Order of work, most important first; (done) is in this directory.

1. Conformance and validation, with the oracle (done: checked and proved).
2. Recorder, then the harness around it (done: checked and proved).
3. Running TLC, from Go and from Rust (done: checked and proved); the jar cache
   (done: checked and proved).
4. The example controller against its abstract specification (done: checked, and
   proved but for fairness).
5. Printer, parser and their composition, of expressions and of modules (done:
   checked).
6. `value` and ITF: order, text and interchange against sets and functions of
   TLA+ as the reference (done: checked, and proved but for the text).
7. `cfg`: what is written and what is read (done: checked and proved).
8. Left to prove: the printer and the parser, first the grouping of chains of
   operators (`ParserGroupsAsTheTableSays`), which needs neither columns nor units.
9. Left to model: end to end, the reconciler, the Recorder and validation composed, with
   the deliberate bug (`BatchCreate`) diverging at the state where two pods
   appear. Its parts are checked one by one: that annotations are true
   (`ReplicaReconciler`), that the trace is the history (`Harness`), and that
   validation accepts exactly what the specification allows (`TraceValidation`).
