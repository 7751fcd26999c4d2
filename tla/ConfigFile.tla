----------------------------- MODULE ConfigFile -----------------------------
(***************************************************************************)
(* rust/src/cfg.rs (cfg/cfg.go is the same design): TLC configurations,    *)
(* the text that is written for one and the one that is read from a text.  *)
(* A text is the sequence of its tokens; what the code tells apart of a    *)
(* token are the sets below.                                               *)
(***************************************************************************)
EXTENDS Integers, Sequences, FiniteSets, SequencesExt

CONSTANTS Names,       \* the identifiers that are no keywords
          NameTexts,   \* what callers give as a name
          ValueTexts,  \* and as the value of a constant
          Spellings,   \* the keywords with which they open a section
          OtherTokens, \* the tokens that the code does not tell apart
          MaxSections, MaxEntries

VARIABLE written  \* keywords and the entries that follow them
-----------------------------------------------------------------------------
Singles == {"SPECIFICATION", "INIT", "NEXT", "SYMMETRY", "VIEW", "ALIAS", "POSTCONDITION"}
Lists   == {"INVARIANT", "PROPERTY", "CONSTRAINT", "ACTION_CONSTRAINT"}

\* section_keyword.  CONSTANT and CONSTANTS are tokens of their own, the
\* others are identifiers.
Sections == Singles \cup Lists \cup {"CONSTANT", "CHECK_DEADLOCK"}

Plurals == {"INVARIANTS", "PROPERTIES", "CONSTANTS", "CONSTRAINTS", "ACTION_CONSTRAINTS"}

Keywords == Sections \cup Plurals

SectionOf(kw) == CASE kw = "INVARIANTS"         -> "INVARIANT"
                   [] kw = "PROPERTIES"         -> "PROPERTY"
                   [] kw = "CONSTANTS"          -> "CONSTANT"
                   [] kw = "CONSTRAINTS"        -> "CONSTRAINT"
                   [] kw = "ACTION_CONSTRAINTS" -> "ACTION_CONSTRAINT"
                   [] OTHER                     -> kw

Idents == Names \cup (Keywords \ {"CONSTANT", "CONSTANTS"})

Opening == {"{", "[", "(", "<<"}
Closing == {"}", "]", ")", ">>"}

\* closes_value and value_done: a value may end after the ones, unless one
\* of the others comes next.
Closes  == Idents \cup Closing \cup {"0", "1", "2", "3", "\"a\"", "TRUE", "FALSE"}
GoesOn  == {"=", "+", "-", "..", "\\cup", ",", "."}

Token == Names \cup Keywords \cup Opening \cup Closing \cup Closes \cup GoesOn \cup {"<-"}
         \cup OtherTokens

ASSUME ConfigFileAssumption ==
  /\ "a" \in Names /\ Names \cap (Keywords \cup {"=", "<-"}) = {}
  /\ NameTexts \subseteq Seq(Token) /\ ValueTexts \subseteq Seq(Token)
  /\ Spellings \subseteq Keywords
  /\ MaxSections \in Nat /\ MaxEntries \in Nat
-----------------------------------------------------------------------------
\* Constant; of the two texts the one that is not empty counts.
Constant(name, value, replacement) ==
  [name |-> name, value |-> value, replacement |-> replacement]

Name(text) == Constant(text, <<>>, <<>>)

\* Config::default: no clause is given.
NoConfig == [one |-> [s \in Singles |-> <<>>], many |-> [s \in Lists |-> <<>>],
             constants |-> <<>>, deadlock |-> "unset"]

ConstantText(k) == k.name \o IF k.replacement # <<>> THEN <<"<-">> \o k.replacement
                             ELSE <<"=">> \o k.value

\* What a file is made of: the keyword of a section, or an entry in the
\* section of that keyword.
Keyword(kw)  == [kw |-> kw, opens |-> TRUE, entry |-> Name(<<>>)]
Entry(kw, e) == [kw |-> kw, opens |-> FALSE, entry |-> e]

PieceText(p) == IF p.opens THEN <<p.kw>>
                ELSE IF SectionOf(p.kw) = "CONSTANT" THEN ConstantText(p.entry)
                ELSE p.entry.name

\* One after the other: push_str in a loop.
Joined(seqs) ==
  LET upto[n \in 0..Len(seqs)] == IF n = 0 THEN <<>> ELSE upto[n - 1] \o seqs[n]
  IN  upto[Len(seqs)]

TextOf(pieces) == Joined([i \in DOMAIN pieces |-> PieceText(pieces[i])])

\* sect.
One(c, s) == IF c.one[s] = <<>> THEN <<>> ELSE <<Keyword(s), Entry(s, Name(c.one[s]))>>

Each(c, s) ==
  Joined([i \in DOMAIN c.many[s] |-> <<Keyword(s), Entry(s, Name(c.many[s][i]))>>])

ConstantLines(c) ==
  IF c.constants = <<>> THEN <<>>
  ELSE <<Keyword("CONSTANTS")>>
       \o [i \in DOMAIN c.constants |-> Entry("CONSTANTS", c.constants[i])]

\* Mutant: only a deadlock check that is asked for is written.
DeadlockWhenTrue(c) ==
  IF c.deadlock # "TRUE" THEN <<>>
  ELSE <<Keyword("CHECK_DEADLOCK"), Entry("CHECK_DEADLOCK", Name(<<"TRUE">>))>>

Deadlock(c) ==
  IF c.deadlock = "unset" THEN <<>>
  ELSE <<Keyword("CHECK_DEADLOCK"), Entry("CHECK_DEADLOCK", Name(<<c.deadlock>>))>>

Lines(c) ==
  One(c, "SPECIFICATION") \o One(c, "INIT") \o One(c, "NEXT") \o ConstantLines(c)
    \o Each(c, "INVARIANT") \o Each(c, "PROPERTY") \o Each(c, "CONSTRAINT")
    \o Each(c, "ACTION_CONSTRAINT") \o One(c, "SYMMETRY") \o One(c, "VIEW")
    \o Deadlock(c) \o One(c, "ALIAS") \o One(c, "POSTCONDITION")

Format(c) == TextOf(Lines(c))
-----------------------------------------------------------------------------
Looking(ts, i, tokens) == i <= Len(ts) /\ ts[i] \in tokens

\* Mutant: the next constant is not looked for.
NextKeyword(ts, i) == Looking(ts, i, Keywords)

\* What ends a value outside brackets: a keyword, or the next constant.
BeginsNext(ts, i) == \/ Looking(ts, i, Keywords)
                     \/ Looking(ts, i, Idents) /\ Looking(ts, i + 1, {"=", "<-"})

Nesting(token) == CASE token \in Opening -> 1 [] token \in Closing -> -1 [] OTHER -> 0

\* scan_constant_value: the place after the value that begins at from, the
\* first one at which the loop ends.
ValueEnd(ts, from) ==
  LET depth[n \in 0..Len(ts)] == IF n = 0 THEN 0 ELSE depth[n - 1] + Nesting(ts[from + n - 1])
      Ends(i) == \/ i > Len(ts)
                 \/ /\ depth[i - from] = 0
                    /\ BeginsNext(ts, i) \/ (ts[i - 1] \in Closes /\ ~Looking(ts, i, GoesOn))
  IN  Min({i \in (from + 1)..(Len(ts) + 1) : Ends(i)})

\* One name in a section that takes names.
Told(c, section, token) ==
  CASE section \in Singles -> [c EXCEPT !.one[section] = <<token>>]
    [] section \in Lists   -> [c EXCEPT !.many[section] = Append(@, <<token>>)]
    [] OTHER -> [c EXCEPT !.deadlock = IF token = "TRUE" THEN "TRUE" ELSE "FALSE"]

Declared(c, name, value, replacement) ==
  [c EXCEPT !.constants = Append(@, Constant(<<name>>, value, replacement))]

ParseError == [NoConfig EXCEPT !.deadlock = "error"]

\* One iteration of the loop of parse: the next token, the section it is in
\* and what has been read.
ParseOne(ts, at) ==
  LET i == at.i IN
  CASE i > Len(ts) -> at
    [] Looking(ts, i, Keywords) -> [at EXCEPT !.i = i + 1, !.section = SectionOf(ts[i])]
    [] Looking(ts, i, Token \ Keywords) /\ at.section \notin {"none", "CONSTANT"} ->
         [at EXCEPT !.i = i + 1, !.c = Told(at.c, at.section, ts[i])]
    [] /\ at.section = "CONSTANT" /\ Looking(ts, i, Names)
       /\ Looking(ts, i + 1, {"<-"}) /\ Looking(ts, i + 2, Idents) ->
         [at EXCEPT !.i = i + 3, !.c = Declared(at.c, ts[i], <<>>, <<ts[i + 2]>>)]
    [] /\ at.section = "CONSTANT" /\ Looking(ts, i, Names)
       /\ Looking(ts, i + 1, {"="}) /\ i + 2 <= Len(ts) ->
         LET end == ValueEnd(ts, i + 2) IN
         [at EXCEPT !.i = end, !.c = Declared(at.c, ts[i], SubSeq(ts, i + 2, end - 1), <<>>)]
    [] OTHER -> [at EXCEPT !.i = Len(ts) + 1, !.c = ParseError]

\* The loop takes at least one token at a time.
Loop(ts) ==
  LET at[n \in 0..Len(ts)] == IF n = 0 THEN [i |-> 1, section |-> "none", c |-> NoConfig]
                              ELSE ParseOne(ts, at[n - 1])
  IN  at

Parse(ts) == Loop(ts)[Len(ts)].c
-----------------------------------------------------------------------------
(***************************************************************************)
(* The reference: a configuration as a person writes it, sections in any   *)
(* order, with singular or plural keywords and several entries each, and   *)
(* what that means.                                                        *)
(***************************************************************************)
\* Of a constant, one text at a time is out of the ordinary.
EntriesOf(section) ==
  CASE section = "CONSTANT" ->
         {Constant(<<"a">>, v, <<>>) : v \in ValueTexts}
         \cup {Constant(<<"a">>, v, r) : v \in {<<>>, <<"3">>}, r \in NameTexts}
         \cup {Constant(n, <<"3">>, <<>>) : n \in NameTexts}
    [] section = "CHECK_DEADLOCK" -> {Name(<<b>>) : b \in {"TRUE", "FALSE"}}
    [] OTHER -> {Name(n) : n \in NameTexts}

Said(c, p) ==
  LET section == SectionOf(p.kw) IN
  CASE p.opens -> c
    [] ~p.opens /\ section \in Singles -> [c EXCEPT !.one[section] = p.entry.name]
    [] ~p.opens /\ section \in Lists   -> [c EXCEPT !.many[section] = Append(@, p.entry.name)]
    [] ~p.opens /\ section = "CONSTANT" -> [c EXCEPT !.constants = Append(@, p.entry)]
    [] ~p.opens /\ section = "CHECK_DEADLOCK" -> [c EXCEPT !.deadlock = p.entry.name[1]]

MeaningOf(pieces) ==
  LET upto[n \in 0..Len(pieces)] == IF n = 0 THEN NoConfig ELSE Said(upto[n - 1], pieces[n])
  IN  upto[Len(pieces)]

Meaning == MeaningOf(written)

Count(opens) == Cardinality({i \in DOMAIN written : written[i].opens = opens})

Init == written = <<>>

Open == /\ Count(TRUE) < MaxSections /\ Count(FALSE) < MaxEntries
        /\ written # <<>> => ~Last(written).opens
        /\ \E kw \in Spellings : written' = Append(written, Keyword(kw))

Write == /\ written # <<>> /\ Count(FALSE) < MaxEntries
         /\ \E e \in EntriesOf(SectionOf(Last(written).kw)) :
              written' = Append(written, Entry(Last(written).kw, e))

Next == Open \/ Write

Spec == Init /\ [][Next]_written
-----------------------------------------------------------------------------
\* A name that is one token and does not switch sections.
ReadableName(text) == Len(text) = 1 /\ text[1] \notin Keywords

DepthAt(v, i) == Cardinality({j \in 1..i : v[j] \in Opening})
                 - Cardinality({j \in 1..i : v[j] \in Closing})

\* A value is cut where it may end and does not go on with an operator, a
\* comma or a dot (f[a], a!b, {a} \X {b}, a /\ b), and before what looks
\* like a keyword or the next constant.
IsCut(v) ==
  \E i \in 1..(Len(v) - 1) :
    /\ DepthAt(v, i) = 0
    /\ \/ v[i] \in Closes /\ v[i + 1] \notin GoesOn
       \/ v[i + 1] \in Keywords
       \/ i + 2 <= Len(v) /\ v[i + 1] \in Idents /\ v[i + 2] \in {"=", "<-"}

ReadableConstant(k) ==
  /\ Len(k.name) = 1 /\ k.name[1] \in Names
  /\ IF k.replacement # <<>>
     THEN k.value = <<>> /\ Len(k.replacement) = 1 /\ k.replacement[1] \in Idents
     ELSE k.value # <<>> /\ ~IsCut(k.value)

\* A value whose brackets do not match takes in everything after it.
Unclosed(k) == k.replacement = <<>> /\ DepthAt(k.value, Len(k.value)) # 0

NothingAfter(c, i) ==
  /\ i = Len(c.constants)
  /\ \A s \in Lists : c.many[s] = <<>>
  /\ \A s \in Singles \ {"SPECIFICATION", "INIT", "NEXT"} : c.one[s] = <<>>
  /\ c.deadlock = "unset"

Faulty(c) ==
  \/ \E s \in Singles : c.one[s] # <<>> /\ ~ReadableName(c.one[s])
  \/ \E s \in Lists : \E i \in DOMAIN c.many[s] : ~ReadableName(c.many[s][i])
  \/ \E i \in DOMAIN c.constants : \/ ~ReadableConstant(c.constants[i])
                                   \/ Unclosed(c.constants[i]) /\ ~NothingAfter(c, i)

\* cfg.rs's test format_and_round_trip, "round trip differs": what is
\* written for a configuration is read back as that configuration, except,
\* exactly, when a name is not one plain word, a constant has both a value
\* and a replacement or neither, or a value is one that parse ends elsewhere.
ReadBackUnlessFaulty == Parse(Format(Meaning)) = Meaning <=> ~Faulty(Meaning)

Readable(p) ==
  \/ p.opens
  \/ SectionOf(p.kw) = "CONSTANT" /\ ReadableConstant(p.entry) /\ ~Unclosed(p.entry)
  \/ SectionOf(p.kw) = "CHECK_DEADLOCK"
  \/ SectionOf(p.kw) \in Singles \cup Lists /\ ReadableName(p.entry.name)

\* A file says what its sections say, whatever their order and repetition,
\* the spelling of their keywords and the entries they share: parse finds
\* every border between two entries and two sections.
EveryEntryIsRead ==
  (\A i \in DOMAIN written : Readable(written[i])) => Parse(TextOf(written)) = Meaning
=============================================================================
