----------------------------- MODULE ToolOutput -----------------------------
(***************************************************************************)
(* rust/src/tlc.rs (tlc/output.go and tlc/result.go are the same design):  *)
(* from the lines of TLC's -tool output to framed messages, and from       *)
(* messages and an exit code to a result.                                  *)
(* A line is a frame delimiter or a text, and a text is what the parser    *)
(* tells apart: a state header, an assignment that parses, a "Back to      *)
(* state n", a "Stuttering", a number that a statistics message carries,   *)
(* or anything else (noise, which stderr can put between any two lines of  *)
(* the Go package's pipe, and only after stdout in the Rust crate).        *)
(***************************************************************************)
EXTENDS Integers, Sequences, SequencesExt

Line == [kind: {"start", "end", "text"}, code: STRING, sev: STRING, num: Int]

StartLine(code, sev) == [kind |-> "start", code |-> code, sev |-> sev, num |-> 0]
EndLine(code)        == [kind |-> "end", code |-> code, sev |-> "none", num |-> 0]
TextLine(text, num)  == [kind |-> "text", code |-> text, sev |-> "none", num |-> num]

Noise    == TextLine("noise", 0)
LongLine == TextLine("long", 0)  \* over the scanner's 16 MiB

(***************************************************************************)
(* parse_tool_output, a line at a time: the open message, if any, and the  *)
(* messages framed so far.  A START discards an open message, an END is    *)
(* not compared with the START it closes.                                  *)
(***************************************************************************)
NoMessage == [code |-> "none", sev |-> "none", body |-> <<>>]

FramerInit == [open |-> FALSE, cur |-> NoMessage, msgs |-> <<>>]

Feed(f, line) ==
  CASE line.kind = "start" ->
         [f EXCEPT !.open = TRUE,
                   !.cur = [code |-> line.code, sev |-> line.sev, body |-> <<>>]]
    [] line.kind = "end" /\ f.open ->
         [open |-> FALSE, cur |-> NoMessage, msgs |-> Append(f.msgs, f.cur)]
    [] line.kind = "text" /\ f.open ->
         [f EXCEPT !.cur.body = Append(@, line)]
    [] OTHER -> f

\* Recursive functions stand for the loops over the lines and the messages.
ParseLines(lines) ==
  LET after[n \in 0..Len(lines)] ==
        IF n = 0 THEN FramerInit ELSE Feed(after[n - 1], lines[n])
  IN  after[Len(lines)]

(***************************************************************************)
(* The same messages without the automaton: a message is a START and an    *)
(* END with no delimiter between them, and its body the texts between.     *)
(***************************************************************************)
IsDelimiter(line) == line.kind \in {"start", "end"}

Frames(lines) ==
  {p \in (1..Len(lines)) \X (1..Len(lines)) :
     /\ p[1] < p[2]
     /\ lines[p[1]].kind = "start" /\ lines[p[2]].kind = "end"
     /\ \A i \in (p[1] + 1)..(p[2] - 1) : ~IsDelimiter(lines[i])}

FramedMessage(lines, p) == [code |-> lines[p[1]].code, sev |-> lines[p[1]].sev,
                            body |-> SubSeq(lines, p[1] + 1, p[2] - 1)]

FramedMessages(lines) ==
  [i \in 1..Cardinality(Frames(lines)) |->
     FramedMessage(lines, CHOOSE p \in Frames(lines) :
                            Cardinality({q \in Frames(lines) : q[2] <= p[2]}) = i)]
-----------------------------------------------------------------------------
(***************************************************************************)
(* parse_trace_state: a header, then nothing but assignments that parse.   *)
(***************************************************************************)
ParsesAsState(body) == /\ body # <<>>
                       /\ body[1].code = "head"
                       /\ \A i \in 2..Len(body) : body[i].code = "assign"

EmptyResult == [depth |-> 0, stats |-> 0, states |-> <<>>, loop |-> -1,
                stuttering |-> FALSE, errors |-> 0, unparsed |-> 0, warnings |-> 0]

\* The messages new_result selects by code; the others by severity.
IsStatePrint(m) == m.code = "state" /\ m.sev = "state"

OpensWith(m, text) == m.body # <<>> /\ m.body[1].code = text

\* A statistics message has one line with numbers, found in its body.
Numbers(m) == {i \in DOMAIN m.body : m.body[i].code = "number"}

Number(m) == m.body[CHOOSE i \in Numbers(m) : \A j \in Numbers(m) : i <= j].num

\* Mutants: a state that does not parse is dropped without a warning; "Back
\* to state n" is taken for a 0-based index.
InterpretMessageSilently(r, m) ==
  IF ~IsStatePrint(m) THEN [r EXCEPT !.errors = @ + IF m.sev = "error" THEN 1 ELSE 0]
  ELSE IF ParsesAsState(m.body) THEN [r EXCEPT !.states = Append(@, m.body[1].num)]
  ELSE r

InterpretMessageOffByOne(r, m) ==
  CASE IsStatePrint(m) -> IF ParsesAsState(m.body)
                          THEN [r EXCEPT !.states = Append(@, m.body[1].num)]
                          ELSE [r EXCEPT !.unparsed = @ + 1]
    [] m.code = "loop" /\ OpensWith(m, "back") -> [r EXCEPT !.loop = m.body[1].num]
    [] OTHER -> r

InterpretMessage(r, m) ==
  CASE m.code = "version" -> r
    [] m.code \in {"progress", "stats", "depth"} ->
         IF Numbers(m) = {} THEN r
         ELSE [r EXCEPT !.depth = IF m.code = "stats" THEN @ ELSE Number(m),
                        !.stats = IF m.code = "depth" THEN @ ELSE Number(m)]
    [] IsStatePrint(m) ->
         IF ParsesAsState(m.body)
         THEN [r EXCEPT !.states = Append(@, m.body[1].num)]
         ELSE [r EXCEPT !.unparsed = @ + 1]
    [] m.code = "loop" ->
         [r EXCEPT !.loop = IF OpensWith(m, "back") THEN m.body[1].num - 1 ELSE @,
                   !.stuttering = @ \/ OpensWith(m, "stutter")]
    [] OTHER -> [r EXCEPT !.errors = @ + IF m.sev = "error" THEN 1 ELSE 0,
                          !.warnings = @ + IF m.sev = "warning" THEN 1 ELSE 0]

Interpret(msgs) ==
  LET after[n \in 0..Len(msgs)] ==
        IF n = 0 THEN EmptyResult ELSE InterpretMessage(after[n - 1], msgs[n])
  IN  after[Len(msgs)]

StatusFromExitCode(code) ==
  CASE code = 0  -> "success"
    [] code = 10 -> "assumption"
    [] code = 11 -> "deadlock"
    [] code = 12 -> "safety"
    [] code = 13 -> "liveness"
    [] code >= 150 -> "failure"
    [] OTHER -> "unknown"

\* new_result of the Rust crate: the exit code alone decides.
RunResult(msgs, code) == [status |-> StatusFromExitCode(code), found |-> Interpret(msgs)]

\* newResult of the Go package, where errors make an unknown code a failure.
NewResult(msgs, code) ==
  LET r == Interpret(msgs)
      s == StatusFromExitCode(code)
  IN  [status |-> IF s = "unknown" /\ r.errors > 0 THEN "failure" ELSE s,
       found  |-> r]
=============================================================================
