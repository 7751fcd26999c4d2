-------------------------- MODULE ConfigFile_proofs --------------------------
(***************************************************************************)
(* Configurations of any size, names and values: a file is read as its     *)
(* sections say, and what is written for a configuration is read back as   *)
(* it was exactly when nothing in it is faulty.  The lemmas on induction   *)
(* and on recursive functions are those of ToolOutput_proofs.              *)
(***************************************************************************)
EXTENDS ConfigFile, ToolOutput_proofs

Constants == [name: Seq(Token), value: Seq(Token), replacement: Seq(Token)]

Config == [one: [Singles -> Seq(Token)], many: [Lists -> Seq(Seq(Token))],
           constants: Seq(Constants), deadlock: {"unset", "TRUE", "FALSE", "error"}]

Flags == {Name(<<"TRUE">>), Name(<<"FALSE">>)}

Piece == {p \in [kw: Keywords, opens: BOOLEAN, entry: Constants] :
            ~p.opens /\ SectionOf(p.kw) = "CHECK_DEADLOCK" => p.entry \in Flags}

LEMMA SectionKinds ==
  /\ \A kw \in Keywords : SectionOf(kw) \in Sections
  /\ \A s \in Sections : s \in Keywords /\ SectionOf(s) = s
  /\ Singles \cap Lists = {}
  /\ Sections = Singles \cup Lists \cup {"CONSTANT", "CHECK_DEADLOCK"}
  /\ "CONSTANT" \notin Singles \cup Lists /\ "CHECK_DEADLOCK" \notin Singles \cup Lists
  /\ "none" \notin Sections
BY DEF Keywords, Plurals, Sections, Singles, Lists, SectionOf

LEMMA TokenKinds ==
  /\ Keywords \subseteq Token /\ Idents \subseteq Token /\ Names \subseteq Token
  /\ "TRUE" \in Token /\ "FALSE" \in Token /\ "=" \in Token /\ "<-" \in Token
  /\ Keywords \cap {"=", "<-", "TRUE", "FALSE"} = {} /\ Idents \cap {"=", "<-"} = {}
  /\ Names \cap Keywords = {}
<1>1. Keywords \cap {"=", "<-", "TRUE", "FALSE"} = {}
  BY DEF Keywords, Plurals, Sections, Singles, Lists
<1>2. Names \cap (Keywords \cup {"=", "<-"}) = {}
  BY ConfigFileAssumption
<1> QED
  BY <1>1, <1>2 DEF Token, Idents, Closes, GoesOn

\* What may change of a configuration.
WithOne(c, s, t)    == [c EXCEPT !.one[s] = t]
WithMany(c, s, t)   == [c EXCEPT !.many[s] = Append(@, t)]
WithConstant(c, k)  == [c EXCEPT !.constants = Append(@, k)]
WithDeadlock(c, d)  == [c EXCEPT !.deadlock = d]

LEMMA OneChanges ==
  ASSUME NEW c \in Config, NEW s \in Singles, NEW t \in Seq(Token)
  PROVE  LET d == WithOne(c, s, t)
         IN  /\ d \in Config
             /\ d.one = [c.one EXCEPT ![s] = t] /\ d.many = c.many
             /\ d.constants = c.constants /\ d.deadlock = c.deadlock
BY DEF WithOne, Config

LEMMA ManyChanges ==
  ASSUME NEW c \in Config, NEW s \in Lists, NEW t \in Seq(Token)
  PROVE  LET d == WithMany(c, s, t)
         IN  /\ d \in Config
             /\ d.many = [c.many EXCEPT ![s] = Append(c.many[s], t)] /\ d.one = c.one
             /\ d.constants = c.constants /\ d.deadlock = c.deadlock
<1>1. c.many \in [Lists -> Seq(Seq(Token))]
  BY DEF Config
<1> DEFINE a == Append(c.many[s], t)
<1>2. a \in Seq(Seq(Token))
  BY <1>1, AppendProperties
<1>3. WithMany(c, s, t) = [c EXCEPT !.many = [c.many EXCEPT ![s] = a]]
  BY DEF Config, WithMany
<1> HIDE DEF a
<1>4. [c.many EXCEPT ![s] = a] \in [Lists -> Seq(Seq(Token))]
  BY <1>1, <1>2
<1> QED
  BY <1>3, <1>4 DEF Config, a

LEMMA ConstantChanges ==
  ASSUME NEW c \in Config, NEW k \in Constants
  PROVE  LET d == WithConstant(c, k)
         IN  /\ d \in Config /\ d.constants = Append(c.constants, k)
             /\ d.one = c.one /\ d.many = c.many /\ d.deadlock = c.deadlock
<1> DEFINE a == Append(c.constants, k)
<1>1. a \in Seq(Constants)
  BY AppendProperties DEF Config
<1>2. WithConstant(c, k) = [c EXCEPT !.constants = a]
  BY DEF WithConstant
<1> HIDE DEF a
<1> QED
  BY <1>1, <1>2 DEF Config, a

LEMMA DeadlockChanges ==
  ASSUME NEW c \in Config, NEW v \in {"unset", "TRUE", "FALSE", "error"}
  PROVE  LET d == WithDeadlock(c, v)
         IN  /\ d \in Config /\ d.deadlock = v
             /\ d.one = c.one /\ d.many = c.many /\ d.constants = c.constants
BY DEF WithDeadlock, Config

LEMMA NoConfigType == NoConfig \in Config /\ ParseError \in Config
<1>1. NoConfig \in Config
  BY DEF NoConfig, Config
<1>2. ParseError = WithDeadlock(NoConfig, "error")
  BY DEF ParseError, WithDeadlock
<1> QED
  BY <1>1, <1>2, DeadlockChanges

LEMMA NameType == \A t \in Seq(Token) : Name(t) \in Constants /\ Name(t).name = t
BY DEF Name, Constant, Constants

LEMMA FlagType == /\ Flags \subseteq Constants
                  /\ \A e \in Flags : e.name \in {<<"TRUE">>, <<"FALSE">>}
<1>1. <<"TRUE">> \in Seq(Token) /\ <<"FALSE">> \in Seq(Token)
  BY TokenKinds
<1> QED
  BY <1>1, NameType DEF Flags

\* What a piece says, by its kind.
LEMMA SaidCases ==
  ASSUME NEW c, NEW p \in Piece
  PROVE  LET s == SectionOf(p.kw)
             t == p.entry.name
         IN  /\ s \in Sections /\ p.entry \in Constants /\ t \in Seq(Token)
             /\ p.opens => Said(c, p) = c
             /\ ~p.opens /\ s \in Singles => Said(c, p) = WithOne(c, s, t)
             /\ ~p.opens /\ s \in Lists => Said(c, p) = WithMany(c, s, t)
             /\ ~p.opens /\ s = "CONSTANT" => Said(c, p) = WithConstant(c, p.entry)
             /\ ~p.opens /\ s = "CHECK_DEADLOCK" =>
                  t \in {<<"TRUE">>, <<"FALSE">>} /\ Said(c, p) = WithDeadlock(c, t[1])
<1> DEFINE s == SectionOf(p.kw)
           t == p.entry.name
<1>1. /\ p.kw \in Keywords /\ p.opens \in BOOLEAN /\ p.entry \in Constants
      /\ ~p.opens /\ s = "CHECK_DEADLOCK" => p.entry \in Flags
  BY DEF Piece
<1>2. s \in Sections /\ t \in Seq(Token)
  BY <1>1, SectionKinds DEF Constants
<1>3. CASE p.opens
  BY <1>1, <1>2, <1>3 DEF Said
<1>4. CASE ~p.opens /\ s \in Singles
  BY <1>1, <1>2, <1>4, SectionKinds DEF Said, WithOne
<1>5. CASE ~p.opens /\ s \in Lists
  <2>1. s \notin Singles /\ s # "CONSTANT" /\ s # "CHECK_DEADLOCK"
    BY <1>5, SectionKinds
  <2>2. Said(c, p) = WithMany(c, s, t)
    BY <1>5, <2>1 DEF Said, WithMany
  <2> QED
    BY <1>1, <1>2, <1>5, <2>1, <2>2
<1>6. CASE ~p.opens /\ s = "CONSTANT"
  <2>1. s \notin Singles /\ s \notin Lists /\ s # "CHECK_DEADLOCK"
    BY <1>6, SectionKinds
  <2>2. Said(c, p) = WithConstant(c, p.entry)
    BY <1>6, <2>1 DEF Said, WithConstant
  <2> QED
    BY <1>1, <1>2, <1>6, <2>1, <2>2
<1>7. CASE ~p.opens /\ s = "CHECK_DEADLOCK"
  <2>1. s \notin Singles /\ s \notin Lists /\ s # "CONSTANT"
    BY <1>7, SectionKinds
  <2>2. Said(c, p) = WithDeadlock(c, t[1])
    BY <1>7, <2>1 DEF Said, WithDeadlock
  <2>3. t \in {<<"TRUE">>, <<"FALSE">>}
    BY <1>1, <1>7, FlagType
  <2> QED
    BY <1>1, <1>2, <1>7, <2>1, <2>2, <2>3
<1> HIDE DEF s, t
<1>8. \/ p.opens
      \/ ~p.opens /\ s \in Singles
      \/ ~p.opens /\ s \in Lists
      \/ ~p.opens /\ s = "CONSTANT"
      \/ ~p.opens /\ s = "CHECK_DEADLOCK"
  BY <1>1, <1>2, SectionKinds
<1> QED
  BY <1>3, <1>4, <1>5, <1>6, <1>7, <1>8 DEF s, t

LEMMA SaidType ==
  ASSUME NEW c \in Config, NEW p \in Piece PROVE Said(c, p) \in Config
<1> DEFINE s == SectionOf(p.kw)
           t == p.entry.name
<1>1. /\ s \in Sections /\ p.entry \in Constants /\ t \in Seq(Token)
      /\ p.opens \in BOOLEAN
  BY SaidCases DEF Piece
<1>2. CASE p.opens
  BY <1>2, SaidCases
<1>3. CASE ~p.opens /\ s \in Singles
  BY <1>1, <1>3, SaidCases, OneChanges
<1>4. CASE ~p.opens /\ s \in Lists
  <2>1. Said(c, p) = WithMany(c, s, t)
    BY <1>4, SaidCases
  <2> QED
    BY <1>1, <1>4, <2>1, ManyChanges
<1>5. CASE ~p.opens /\ s = "CONSTANT"
  BY <1>1, <1>5, SaidCases, ConstantChanges
<1>6. CASE ~p.opens /\ s = "CHECK_DEADLOCK"
  <2>1. t \in {<<"TRUE">>, <<"FALSE">>} /\ Said(c, p) = WithDeadlock(c, t[1])
    BY <1>6, SaidCases
  <2> HIDE DEF t
  <2>2. t[1] \in {"TRUE", "FALSE"}
    BY <2>1
  <2> QED
    BY <2>1, <2>2, DeadlockChanges
<1> QED
  BY <1>1, <1>2, <1>3, <1>4, <1>5, <1>6, SectionKinds

LEMMA SaidConstants ==
  ASSUME NEW c \in Config, NEW p \in Piece
  PROVE  IF ~p.opens /\ SectionOf(p.kw) = "CONSTANT"
         THEN p.entry \in Constants /\ Said(c, p).constants = Append(c.constants, p.entry)
         ELSE Said(c, p).constants = c.constants
<1> DEFINE s == SectionOf(p.kw)
           t == p.entry.name
<1>1. /\ s \in Sections /\ p.entry \in Constants /\ t \in Seq(Token)
      /\ p.opens \in BOOLEAN
  BY SaidCases DEF Piece
<1>2. CASE p.opens
  BY <1>2, SaidCases
<1>3. CASE ~p.opens /\ s \in Singles
  <2>1. Said(c, p) = WithOne(c, s, t) /\ s # "CONSTANT"
    BY <1>3, SaidCases, SectionKinds
  <2> HIDE DEF s, t
  <2>2. WithOne(c, s, t).constants = c.constants
    BY <1>1, <1>3, OneChanges
  <2> QED
    BY <2>1, <2>2 DEF s
<1>4. CASE ~p.opens /\ s \in Lists
  <2>1. Said(c, p) = WithMany(c, s, t) /\ s # "CONSTANT"
    BY <1>4, SaidCases, SectionKinds
  <2> HIDE DEF s, t
  <2>2. WithMany(c, s, t).constants = c.constants
    BY <1>1, <1>4, ManyChanges
  <2> QED
    BY <2>1, <2>2 DEF s
<1>5. CASE ~p.opens /\ s = "CONSTANT"
  <2>1. Said(c, p) = WithConstant(c, p.entry)
    BY <1>5, SaidCases
  <2>2. Said(c, p).constants = Append(c.constants, p.entry)
    BY <1>1, <2>1, ConstantChanges
  <2> QED
    BY <1>1, <1>5, <2>2
<1>6. CASE ~p.opens /\ s = "CHECK_DEADLOCK"
  <2>1. t \in {<<"TRUE">>, <<"FALSE">>} /\ Said(c, p) = WithDeadlock(c, t[1])
    BY <1>6, SaidCases
  <2> HIDE DEF t
  <2>2. t[1] \in {"TRUE", "FALSE"}
    BY <2>1
  <2> QED
    BY <1>6, <2>1, <2>2, DeadlockChanges
<1> QED
  BY <1>1, <1>2, <1>3, <1>4, <1>5, <1>6, SectionKinds
-----------------------------------------------------------------------------
(***************************************************************************)
(* The loops that put texts together and that say what pieces mean, one    *)
(* element at a time.                                                      *)
(***************************************************************************)
\* Hidden, as the provers unfold a concatenation too eagerly.
Cat(a, b) == a \o b

LEMMA JoinedSteps ==
  ASSUME NEW S, NEW s \in Seq(Seq(S))
  PROVE  \E f \in [0..Len(s) -> Seq(S)] :
           /\ f[0] = <<>>
           /\ \A n \in 1..Len(s) : f[n] = Cat(f[n - 1], s[n])
           /\ Joined(s) = f[Len(s)]
<1> DEFINE N == Len(s)
           Is(f) == f = [n \in 0..N |-> IF n = 0 THEN <<>> ELSE Cat(f[n - 1], s[n])]
           step == [p \in (Seq(S)) \X (1..N) |-> Cat(p[1], s[p[2]])]
<1>1. N \in Nat /\ \A n \in 1..N : s[n] \in Seq(S)
  OBVIOUS
<1>2. <<>> \in Seq(S)
  OBVIOUS
<1>3. step \in Steps(Seq(S), N)
  BY <1>1, ConcatProperties DEF Steps, Cat
<1> HIDE DEF step, N
<1>4. PICK f \in [0..N -> Seq(S)] : IsRun(f, <<>>, step, N)
  BY <1>1, <1>2, <1>3, Recursion
<1>5. ASSUME NEW n \in 1..N PROVE step[<<f[n - 1], n>>] = Cat(f[n - 1], s[n])
  <2>1. n - 1 \in 0..N
    BY <1>1
  <2>2. f[n - 1] \in Seq(S)
    BY <2>1
  <2> QED
    BY <2>2 DEF step
<1>6. Is(f)
  <2>1. \A n \in 0..N : n # 0 => n \in 1..N
    BY <1>1
  <2> QED
    BY <1>4, <1>5, <2>1 DEF IsRun
<1> DEFINE g == CHOOSE h : Is(h)
<1>7. Is(g)
  <2> HIDE DEF Is
  <2> QED
    BY <1>6
<1>8. Joined(s) = g[N]
  BY DEF Joined, N, Cat
<1>9. g = [n \in 0..N |-> IF n = 0 THEN <<>> ELSE Cat(g[n - 1], s[n])]
  BY <1>7
<1> HIDE DEF g, Is
<1>10. g[0] = <<>> /\ \A n \in 1..N : g[n] = Cat(g[n - 1], s[n])
  <2>1. 0 \in 0..N /\ \A n \in 1..N : n \in 0..N /\ n # 0
    BY <1>1
  <2> QED
    BY <1>9, <2>1
<1> DEFINE T == {n \in 0..N : g[n] \in Seq(S)}
<1>11. \A n \in 0..N : n \in T
  <2>1. 0 \in T
    <3>1. 0 \in 0..N
      BY <1>1
    <3>2. g[0] = <<>>
      BY <1>10
    <3>3. g[0] \in Seq(S)
      BY <1>2, <3>2
    <3> QED
      BY <3>1, <3>3
  <2>2. ASSUME NEW n \in 1..N, n - 1 \in T PROVE n \in T
    <3>1. n \in 0..N /\ g[n - 1] \in Seq(S) /\ s[n] \in Seq(S)
      BY <1>1, <2>2
    <3>2. Cat(g[n - 1], s[n]) \in Seq(S)
      BY <3>1, ConcatProperties DEF Cat
    <3> QED
      BY <1>10, <3>1, <3>2
  <2> HIDE DEF T
  <2> QED
    BY <1>1, <2>1, <2>2, UpTo
<1>12. g \in [0..N -> Seq(S)]
  BY <1>9, <1>11
<1> QED
  BY <1>8, <1>10, <1>12 DEF N

LEMMA JoinedNothing == Joined(<<>>) = <<>>
<1>1. <<>> \in Seq(Seq({})) /\ Len(<<>>) = 0
  OBVIOUS
<1>2. PICK f \in [0..0 -> Seq({})] : f[0] = <<>> /\ Joined(<<>>) = f[0]
  BY <1>1, JoinedSteps
<1> QED
  BY <1>2

LEMMA JoinedType == ASSUME NEW S, NEW s \in Seq(Seq(S)) PROVE Joined(s) \in Seq(S)
<1>1. Len(s) \in Nat /\ Len(s) \in 0..Len(s)
  OBVIOUS
<1> QED
  BY <1>1, JoinedSteps

LEMMA JoinedOneMore ==
  ASSUME NEW S, NEW s \in Seq(Seq(S)), NEW e \in Seq(S)
  PROVE  Joined(Append(s, e)) = Joined(s) \o e
<1> DEFINE M == Append(s, e)
           N == Len(s)
<1>1. /\ M \in Seq(Seq(S)) /\ Len(M) = N + 1 /\ N \in Nat /\ M[N + 1] = e
      /\ \A n \in 1..N : M[n] = s[n]
  OBVIOUS
<1>2. PICK f \in [0..N -> Seq(S)] :
        /\ f[0] = <<>> /\ \A n \in 1..N : f[n] = Cat(f[n - 1], s[n])
        /\ Joined(s) = f[N]
  BY JoinedSteps
<1> HIDE DEF M
<1>3. PICK g : /\ g[0] = <<>>
               /\ \A n \in 1..(N + 1) : g[n] = Cat(g[n - 1], M[n])
               /\ Joined(M) = g[N + 1]
  <2>1. PICK g \in [0..Len(M) -> Seq(S)] :
          /\ g[0] = <<>> /\ \A n \in 1..Len(M) : g[n] = Cat(g[n - 1], M[n])
          /\ Joined(M) = g[Len(M)]
    BY <1>1, JoinedSteps
  <2> QED
    BY <1>1, <2>1
<1> HIDE DEF N
<1> DEFINE T == {n \in 0..N : f[n] = g[n]}
<1>4. 0 \in T
  BY <1>1, <1>2, <1>3
<1>5. ASSUME NEW n \in 1..N, n - 1 \in T PROVE n \in T
  <2>1. n \in 1..(N + 1) /\ n \in 0..N /\ f[n - 1] = g[n - 1]
    BY <1>1, <1>5
  <2> QED
    BY <1>1, <1>2, <1>3, <2>1
<1> HIDE DEF T
<1>6. \A n \in 0..N : n \in T
  BY <1>1, <1>4, <1>5, UpTo
<1>7. f[N] = g[N]
  BY <1>1, <1>6 DEF T
<1>8. g[N + 1] = Cat(g[N], e)
  <2>1. N + 1 \in 1..(N + 1) /\ N + 1 - 1 = N
    BY <1>1
  <2> QED
    BY <1>1, <1>3, <2>1
<1> QED
  BY <1>2, <1>3, <1>7, <1>8 DEF M, Cat

LEMMA MeaningSteps ==
  ASSUME NEW s \in Seq(Piece)
  PROVE  \E f \in [0..Len(s) -> Config] :
           /\ f[0] = NoConfig
           /\ \A n \in 1..Len(s) : f[n] = Said(f[n - 1], s[n])
           /\ MeaningOf(s) = f[Len(s)]
<1> DEFINE N == Len(s)
           Is(f) == f = [n \in 0..N |-> IF n = 0 THEN NoConfig ELSE Said(f[n - 1], s[n])]
           step == [p \in Config \X (1..N) |-> Said(p[1], s[p[2]])]
<1>1. N \in Nat /\ \A n \in 1..N : s[n] \in Piece
  OBVIOUS
<1>2. NoConfig \in Config
  BY NoConfigType
<1>3. step \in Steps(Config, N)
  BY <1>1, SaidType DEF Steps
<1> HIDE DEF step, N
<1>4. PICK f \in [0..N -> Config] : IsRun(f, NoConfig, step, N)
  BY <1>1, <1>2, <1>3, Recursion
<1>5. ASSUME NEW n \in 1..N PROVE step[<<f[n - 1], n>>] = Said(f[n - 1], s[n])
  <2>1. n - 1 \in 0..N
    BY <1>1
  <2>2. f[n - 1] \in Config
    BY <2>1
  <2> QED
    BY <2>2 DEF step
<1>6. Is(f)
  <2>1. \A n \in 0..N : n # 0 => n \in 1..N
    BY <1>1
  <2> QED
    BY <1>4, <1>5, <2>1 DEF IsRun
<1> DEFINE g == CHOOSE h : Is(h)
<1>7. Is(g)
  <2> HIDE DEF Is
  <2> QED
    BY <1>6
<1>8. MeaningOf(s) = g[N]
  BY DEF MeaningOf, N
<1>9. g = [n \in 0..N |-> IF n = 0 THEN NoConfig ELSE Said(g[n - 1], s[n])]
  BY <1>7
<1> HIDE DEF g, Is
<1>10. g[0] = NoConfig /\ \A n \in 1..N : g[n] = Said(g[n - 1], s[n])
  <2>1. 0 \in 0..N /\ \A n \in 1..N : n \in 0..N /\ n # 0
    BY <1>1
  <2> QED
    BY <1>9, <2>1
<1> DEFINE T == {n \in 0..N : g[n] \in Config}
<1>11. \A n \in 0..N : n \in T
  <2>1. 0 \in T
    BY <1>1, <1>2, <1>10
  <2>2. ASSUME NEW n \in 1..N, n - 1 \in T PROVE n \in T
    <3>1. n \in 0..N /\ g[n - 1] \in Config /\ s[n] \in Piece
      BY <1>1, <2>2
    <3>2. Said(g[n - 1], s[n]) \in Config
      BY <3>1, SaidType
    <3> QED
      BY <1>10, <3>1, <3>2
  <2> HIDE DEF T
  <2> QED
    BY <1>1, <2>1, <2>2, UpTo
<1>12. g \in [0..N -> Config]
  BY <1>9, <1>11
<1> QED
  BY <1>8, <1>10, <1>12 DEF N

LEMMA MeaningNothing == MeaningOf(<<>>) = NoConfig
<1>1. <<>> \in Seq(Piece) /\ Len(<<>>) = 0
  OBVIOUS
<1> QED
  BY <1>1, MeaningSteps

LEMMA MeaningType == ASSUME NEW s \in Seq(Piece) PROVE MeaningOf(s) \in Config
<1>1. Len(s) \in Nat /\ Len(s) \in 0..Len(s)
  OBVIOUS
<1> QED
  BY <1>1, MeaningSteps

LEMMA MeaningOneMore ==
  ASSUME NEW s \in Seq(Piece), NEW e \in Piece
  PROVE  MeaningOf(Append(s, e)) = Said(MeaningOf(s), e)
<1> DEFINE M == Append(s, e)
           N == Len(s)
<1>1. /\ M \in Seq(Piece) /\ Len(M) = N + 1 /\ N \in Nat /\ M[N + 1] = e
      /\ \A n \in 1..N : M[n] = s[n]
  OBVIOUS
<1>2. PICK f \in [0..N -> Config] :
        /\ f[0] = NoConfig /\ \A n \in 1..N : f[n] = Said(f[n - 1], s[n])
        /\ MeaningOf(s) = f[N]
  BY MeaningSteps
<1> HIDE DEF M
<1>3. PICK g : /\ g[0] = NoConfig
               /\ \A n \in 1..(N + 1) : g[n] = Said(g[n - 1], M[n])
               /\ MeaningOf(M) = g[N + 1]
  <2>1. PICK g \in [0..Len(M) -> Config] :
          /\ g[0] = NoConfig /\ \A n \in 1..Len(M) : g[n] = Said(g[n - 1], M[n])
          /\ MeaningOf(M) = g[Len(M)]
    BY <1>1, MeaningSteps
  <2> QED
    BY <1>1, <2>1
<1> HIDE DEF N
<1> DEFINE T == {n \in 0..N : f[n] = g[n]}
<1>4. 0 \in T
  BY <1>1, <1>2, <1>3
<1>5. ASSUME NEW n \in 1..N, n - 1 \in T PROVE n \in T
  <2>1. n \in 1..(N + 1) /\ n \in 0..N /\ f[n - 1] = g[n - 1]
    BY <1>1, <1>5
  <2> QED
    BY <1>1, <1>2, <1>3, <2>1
<1> HIDE DEF T
<1>6. \A n \in 0..N : n \in T
  BY <1>1, <1>4, <1>5, UpTo
<1>7. f[N] = g[N]
  BY <1>1, <1>6 DEF T
<1>8. g[N + 1] = Said(g[N], e)
  <2>1. N + 1 \in 1..(N + 1) /\ N + 1 - 1 = N
    BY <1>1
  <2> QED
    BY <1>1, <1>3, <2>1
<1> QED
  BY <1>2, <1>3, <1>7, <1>8 DEF M
-----------------------------------------------------------------------------
LEMMA ConstantTextType ==
  ASSUME NEW k \in Constants
  PROVE  /\ ConstantText(k) \in Seq(Token)
         /\ k.replacement # <<>> => ConstantText(k) = k.name \o (<<"<-">> \o k.replacement)
         /\ k.replacement = <<>> => ConstantText(k) = k.name \o (<<"=">> \o k.value)
<1>1. /\ k.name \in Seq(Token) /\ k.value \in Seq(Token) /\ k.replacement \in Seq(Token)
      /\ <<"<-">> \in Seq(Token) /\ <<"=">> \in Seq(Token)
  BY TokenKinds DEF Constants
<1>2. CASE k.replacement # <<>>
  <2>1. ConstantText(k) = k.name \o (<<"<-">> \o k.replacement)
    BY <1>2 DEF ConstantText
  <2>2. <<"<-">> \o k.replacement \in Seq(Token)
    BY <1>1, ConcatProperties
  <2> QED
    BY <1>1, <1>2, <2>1, <2>2, ConcatProperties
<1>3. CASE k.replacement = <<>>
  <2>1. ConstantText(k) = k.name \o (<<"=">> \o k.value)
    BY <1>3 DEF ConstantText
  <2>2. <<"=">> \o k.value \in Seq(Token)
    BY <1>1, ConcatProperties
  <2> QED
    BY <1>1, <1>3, <2>1, <2>2, ConcatProperties
<1> QED
  BY <1>2, <1>3

LEMMA PieceTextType == \A p \in Piece : PieceText(p) \in Seq(Token)
<1> SUFFICES ASSUME NEW p \in Piece PROVE PieceText(p) \in Seq(Token)
  OBVIOUS
<1>1. p.kw \in Token /\ p.entry \in Constants
  BY TokenKinds DEF Piece
<1>2. <<p.kw>> \in Seq(Token) /\ p.entry.name \in Seq(Token)
  BY <1>1 DEF Constants
<1>3. ConstantText(p.entry) \in Seq(Token)
  BY <1>1, ConstantTextType
<1> QED
  BY <1>2, <1>3 DEF PieceText

Texts(s) == [i \in DOMAIN s |-> PieceText(s[i])]

LEMMA TextsType ==
  ASSUME NEW s \in Seq(Piece)
  PROVE  Texts(s) \in Seq(Seq(Token)) /\ TextOf(s) = Joined(Texts(s))
<1>1. Len(s) \in Nat /\ DOMAIN s = 1..Len(s) /\ \A i \in 1..Len(s) : PieceText(s[i]) \in Seq(Token)
  BY PieceTextType
<1> QED
  BY <1>1 DEF Texts, TextOf

LEMMA TextType == ASSUME NEW s \in Seq(Piece) PROVE TextOf(s) \in Seq(Token)
BY TextsType, JoinedType

LEMMA TextNothing == TextOf(<<>>) = <<>>
<1>1. Texts(<<>>) = <<>>
  BY DEF Texts
<1> QED
  BY <1>1, JoinedNothing DEF Texts, TextOf

LEMMA TextOneMore ==
  ASSUME NEW s \in Seq(Piece), NEW e \in Piece
  PROVE  TextOf(Append(s, e)) = TextOf(s) \o PieceText(e)
<1> DEFINE M == Append(s, e)
           N == Len(s)
<1>1. /\ M \in Seq(Piece) /\ Len(M) = N + 1 /\ N \in Nat /\ M[N + 1] = e
      /\ \A n \in 1..N : M[n] = s[n]
  OBVIOUS
<1> HIDE DEF M
<1>2. PieceText(e) \in Seq(Token) /\ Texts(s) \in Seq(Seq(Token)) /\ Texts(M) \in Seq(Seq(Token))
  BY <1>1, PieceTextType, TextsType
<1> DEFINE A == Append(Texts(s), PieceText(e))
<1>3. /\ Len(Texts(s)) = N /\ Len(Texts(M)) = N + 1
      /\ \A n \in 1..N : Texts(s)[n] = PieceText(s[n])
      /\ \A n \in 1..(N + 1) : Texts(M)[n] = PieceText(M[n])
  BY <1>1 DEF Texts
<1>4. /\ A \in Seq(Seq(Token)) /\ Len(A) = N + 1 /\ A[N + 1] = PieceText(e)
      /\ \A n \in 1..N : A[n] = Texts(s)[n]
  BY <1>2, <1>3, AppendProperties
<1> HIDE DEF A, N
<1>5. \A n \in 1..(N + 1) : n = N + 1 \/ n \in 1..N
  BY <1>1
<1>6. Texts(M) = A
  <2>1. \A n \in 1..(N + 1) : Texts(M)[n] = A[n]
    BY <1>1, <1>3, <1>4, <1>5
  <2> QED
    BY <1>2, <1>3, <1>4, <2>1, SeqEqual
<1>7. Joined(A) = Joined(Texts(s)) \o PieceText(e)
  BY <1>2, JoinedOneMore DEF A
<1> QED
  BY <1>1, <1>6, <1>7, TextsType DEF M

\* Concatenation, by an element at a time.
LEMMA AppendConcat ==
  ASSUME NEW S, NEW a \in Seq(S), NEW b \in Seq(S), NEW e \in S
  PROVE  a \o Append(b, e) = Append(a \o b, e)
<1>1. Append(b, e) = b \o <<e>> /\ Append(a \o b, e) = (a \o b) \o <<e>> /\ <<e>> \in Seq(S)
  BY AppendIsConcat, ConcatProperties
<1> QED
  BY <1>1, ConcatAssociative

LEMMA TextConcat ==
  ASSUME NEW a \in Seq(Piece), NEW b \in Seq(Piece)
  PROVE  TextOf(a \o b) = TextOf(a) \o TextOf(b)
<1> DEFINE T == {s \in Seq(Piece) : TextOf(a \o s) = TextOf(a) \o TextOf(s)}
<1>1. <<>> \in T
  <2>1. a \o <<>> = a /\ TextOf(a) \o <<>> = TextOf(a)
    BY TextType, ConcatEmptySeq
  <2>2. TextOf(a \o <<>>) = TextOf(a) \o TextOf(<<>>)
    BY <2>1, TextNothing, Zenon
  <2> QED
    BY <2>2
<1>2. ASSUME NEW s \in Seq(Piece), NEW e \in Piece, s \in T PROVE Append(s, e) \in T
  <2>1. Append(s, e) \in Seq(Piece) /\ a \o s \in Seq(Piece)
    BY ConcatProperties
  <2>2. TextOf(a \o Append(s, e)) = TextOf(a \o s) \o PieceText(e)
    <3>1. a \o Append(s, e) = Append(a \o s, e)
      BY AppendConcat
    <3>2. TextOf(Append(a \o s, e)) = TextOf(a \o s) \o PieceText(e)
      BY <2>1, TextOneMore
    <3> QED
      BY <3>1, <3>2, Zenon
  <2>3. TextOf(a \o s) = TextOf(a) \o TextOf(s)
    BY <1>2
  <2>4. TextOf(a) \in Seq(Token) /\ TextOf(s) \in Seq(Token) /\ PieceText(e) \in Seq(Token)
    BY TextType, PieceTextType
  <2>5. (TextOf(a) \o TextOf(s)) \o PieceText(e) = TextOf(a) \o (TextOf(s) \o PieceText(e))
    BY <2>4, ConcatAssociative
  <2>6. TextOf(Append(s, e)) = TextOf(s) \o PieceText(e)
    BY TextOneMore
  <2> QED
    BY <2>1, <2>2, <2>3, <2>5, <2>6
<1> HIDE DEF T
<1>3. b \in T
  BY <1>1, <1>2, ByLastElement
<1> QED
  BY <1>3 DEF T

\* More pieces change no constant that is declared.
LEMMA DeclaredStay ==
  ASSUME NEW a \in Seq(Piece), NEW b \in Seq(Piece)
  PROVE  LET k == MeaningOf(a).constants
             l == MeaningOf(a \o b).constants
         IN  /\ Len(k) <= Len(l)
             /\ \A i \in 1..Len(k) : l[i] = k[i]
<1> DEFINE K(s) == MeaningOf(s).constants
           T == {s \in Seq(Piece) : /\ Len(K(a)) <= Len(K(a \o s))
                                    /\ \A i \in 1..Len(K(a)) : K(a \o s)[i] = K(a)[i]}
<1>1. \A s \in Seq(Piece) : K(s) \in Seq(Constants)
  BY MeaningType DEF Config
<1>2. <<>> \in T
  <2>1. a \o <<>> = a /\ Len(K(a)) \in Nat
    BY <1>1, ConcatEmptySeq
  <2> HIDE DEF K
  <2> QED
    BY <2>1
<1>3. ASSUME NEW s \in Seq(Piece), NEW e \in Piece, s \in T PROVE Append(s, e) \in T
  <2>1. Append(s, e) \in Seq(Piece) /\ a \o s \in Seq(Piece)
    BY ConcatProperties
  <2>2. MeaningOf(a \o Append(s, e)) = Said(MeaningOf(a \o s), e)
    <3>1. a \o Append(s, e) = Append(a \o s, e)
      BY AppendConcat
    <3>2. MeaningOf(Append(a \o s, e)) = Said(MeaningOf(a \o s), e)
      BY <2>1, MeaningOneMore
    <3> QED
      BY <3>1, <3>2, Zenon
  <2> DEFINE c == MeaningOf(a \o s)
  <2>3. c \in Config
    BY <2>1, MeaningType
  <2>4. \/ Said(c, e).constants = c.constants
        \/ e.entry \in Constants /\ Said(c, e).constants = Append(c.constants, e.entry)
    BY <2>3, SaidConstants
  <2>5. /\ Len(K(a)) \in Nat /\ Len(c.constants) \in Nat /\ c.constants \in Seq(Constants)
        /\ Len(K(a)) <= Len(c.constants)
        /\ \A i \in 1..Len(K(a)) : c.constants[i] = K(a)[i]
    <3>1. K(a) \in Seq(Constants) /\ K(a \o s) \in Seq(Constants)
      BY <1>1, <2>1
    <3>2. /\ Len(K(a)) <= Len(K(a \o s))
          /\ \A i \in 1..Len(K(a)) : K(a \o s)[i] = K(a)[i]
      BY <1>3
    <3>3. K(a \o s) = c.constants
      OBVIOUS
    <3> HIDE DEF K, c
    <3> QED
      BY <3>1, <3>2, <3>3
  <2> HIDE DEF c, K
  <2>6. /\ Len(K(a)) <= Len(Said(c, e).constants)
        /\ \A i \in 1..Len(K(a)) : Said(c, e).constants[i] = K(a)[i]
    <3> DEFINE l == Append(c.constants, e.entry)
    <3>1. CASE Said(c, e).constants = c.constants
      BY <2>5, <3>1
    <3>2. CASE e.entry \in Constants /\ Said(c, e).constants = l
      <4>1. /\ Len(l) = Len(c.constants) + 1
            /\ \A i \in 1..Len(c.constants) : l[i] = c.constants[i]
        BY <2>5, <3>2, AppendProperties
      <4> HIDE DEF l
      <4>2. \A i \in 1..Len(K(a)) : i \in 1..Len(c.constants)
        BY <2>5
      <4> QED
        BY <2>5, <3>2, <4>1, <4>2
    <3> QED
      BY <2>4, <3>1, <3>2
  <2>7. K(a \o Append(s, e)) = Said(c, e).constants
    BY <2>2 DEF K, c
  <2> QED
    BY <2>1, <2>6, <2>7
<1> HIDE DEF T
<1>4. b \in T
  BY <1>2, <1>3, ByLastElement
<1> QED
  BY <1>4 DEF T
-----------------------------------------------------------------------------
(***************************************************************************)
(* The value of a constant ends where the loop can first end: what the     *)
(* loop counts is the number of brackets that are open.                    *)
(***************************************************************************)
Among(ts, from, n, A) == {j \in 1..n : ts[from + j - 1] \in A}

DepthIn(ts, from, n) ==
  Cardinality(Among(ts, from, n, Opening)) - Cardinality(Among(ts, from, n, Closing))

Stops(ts, from, i) ==
  \/ i > Len(ts)
  \/ /\ DepthIn(ts, from, i - from) = 0
     /\ BeginsNext(ts, i) \/ (ts[i - 1] \in Closes /\ ~Looking(ts, i, GoesOn))

LEMMA AmongOneMore ==
  ASSUME NEW ts, NEW from, NEW A, NEW n \in Nat \ {0}
  PROVE  /\ Cardinality(Among(ts, from, n - 1, A)) \in Nat
         /\ Cardinality(Among(ts, from, n, A)) =
              Cardinality(Among(ts, from, n - 1, A)) + IF ts[from + n - 1] \in A THEN 1 ELSE 0
<1> DEFINE B == Among(ts, from, n - 1, A)
<1>1. IsFiniteSet(1..(n - 1)) /\ B \subseteq 1..(n - 1)
  BY FS_Interval DEF Among
<1>2. IsFiniteSet(B) /\ Cardinality(B) \in Nat
  BY <1>1, FS_Subset, FS_CardinalityType
<1>3. n \notin B
  BY <1>1
<1>4. n - 1 \in Nat /\ \A j \in 1..n : j = n \/ j \in 1..(n - 1)
  OBVIOUS
<1>5. Among(ts, from, n, A) = IF ts[from + n - 1] \in A THEN B \cup {n} ELSE B
  BY <1>4 DEF Among
<1> HIDE DEF B
<1>6. Cardinality(B \cup {n}) = Cardinality(B) + 1
  BY <1>2, <1>3, FS_AddElement
<1> QED
  BY <1>2, <1>5, <1>6 DEF B

LEMMA DepthOneMore ==
  ASSUME NEW ts, NEW from, NEW n \in Nat \ {0}
  PROVE  /\ DepthIn(ts, from, n - 1) \in Int
         /\ DepthIn(ts, from, n) = DepthIn(ts, from, n - 1) + Nesting(ts[from + n - 1])
<1> DEFINE t == ts[from + n - 1]
           a == Cardinality(Among(ts, from, n - 1, Opening))
           b == Cardinality(Among(ts, from, n - 1, Closing))
           x == Cardinality(Among(ts, from, n, Opening))
           y == Cardinality(Among(ts, from, n, Closing))
<1>1. a \in Nat /\ x = a + IF t \in Opening THEN 1 ELSE 0
  BY AmongOneMore
<1>2. b \in Nat /\ y = b + IF t \in Closing THEN 1 ELSE 0
  BY AmongOneMore
<1>3. /\ t \in Opening => Nesting(t) = 1 /\ t \notin Closing
      /\ t \in Closing => Nesting(t) = -1 /\ t \notin Opening
      /\ t \notin Opening /\ t \notin Closing => Nesting(t) = 0
  BY DEF Nesting, Opening, Closing
<1>4. DepthIn(ts, from, n - 1) = a - b /\ DepthIn(ts, from, n) = x - y
  BY DEF DepthIn
<1> HIDE DEF t, a, b, x, y
<1> QED
  BY <1>1, <1>2, <1>3, <1>4 DEF t

LEMMA NestingType == \A t : Nesting(t) \in Int
BY DEF Nesting

\* The brackets that scan_constant_value has counted.
LEMMA DepthIsCounted ==
  ASSUME NEW ts \in Seq(Token), NEW from \in Nat, NEW d,
         d = [n \in 0..Len(ts) |-> IF n = 0 THEN 0 ELSE d[n - 1] + Nesting(ts[from + n - 1])]
  PROVE  \A n \in 0..Len(ts) : d[n] = DepthIn(ts, from, n)
<1> DEFINE T == {n \in 0..Len(ts) : d[n] = DepthIn(ts, from, n)}
<1>1. Len(ts) \in Nat
  OBVIOUS
<1>2. 0 \in T
  <2>1. Among(ts, from, 0, Opening) = {} /\ Among(ts, from, 0, Closing) = {}
    BY DEF Among
  <2>2. Cardinality({}) = 0
    BY FS_EmptySet
  <2>3. DepthIn(ts, from, 0) = 0 - 0
    BY <2>1, <2>2, Zenon DEF DepthIn
  <2> QED
    BY <1>1, <2>3
<1>3. ASSUME NEW n \in 1..Len(ts), n - 1 \in T PROVE n \in T
  <2>1. n \in 0..Len(ts) /\ n # 0 /\ n \in Nat \ {0}
    BY <1>1
  <2>2. d[n] = d[n - 1] + Nesting(ts[from + n - 1])
    BY <2>1
  <2>3. d[n - 1] = DepthIn(ts, from, n - 1)
    BY <1>3
  <2>4. DepthIn(ts, from, n) = DepthIn(ts, from, n - 1) + Nesting(ts[from + n - 1])
    BY <2>1, DepthOneMore
  <2> QED
    BY <2>1, <2>2, <2>3, <2>4, Zenon
<1> HIDE DEF T
<1>4. \A n \in 0..Len(ts) : n \in T
  BY <1>1, <1>2, <1>3, UpTo
<1> QED
  BY <1>4 DEF T

LEMMA ValueEndIs ==
  ASSUME NEW ts \in Seq(Token), NEW from \in 1..Len(ts)
  PROVE  LET e == ValueEnd(ts, from)
         IN  /\ e \in (from + 1)..(Len(ts) + 1) /\ Stops(ts, from, e)
             /\ \A i \in (from + 1)..(Len(ts) + 1) : Stops(ts, from, i) => e <= i
<1> DEFINE N == Len(ts)
           nest(n) == Nesting(ts[from + n - 1])
           Is(d) == d = [n \in 0..N |-> IF n = 0 THEN 0 ELSE d[n - 1] + nest(n)]
           step == [p \in Int \X (1..N) |-> p[1] + nest(p[2])]
           d == CHOOSE h : Is(h)
<1>1. N \in Nat /\ from \in Nat
  OBVIOUS
<1>2. Is(d)
  <2>1. \A n : nest(n) \in Int
    BY NestingType
  <2> HIDE DEF nest
  <2>2. step \in Steps(Int, N)
    BY <1>1, <2>1 DEF Steps
  <2> HIDE DEF step, N
  <2>3. PICK f \in [0..N -> Int] : IsRun(f, 0, step, N)
    <3>1. 0 \in Int
      OBVIOUS
    <3> QED
      BY <1>1, <2>2, <3>1, Recursion, Zenon
  <2>4. ASSUME NEW n \in 1..N PROVE step[<<f[n - 1], n>>] = f[n - 1] + nest(n)
    <3>1. n - 1 \in 0..N
      BY <1>1
    <3>2. f[n - 1] \in Int
      BY <3>1
    <3> QED
      BY <3>2 DEF step
  <2>5. Is(f)
    <3>1. \A n \in 0..N : n # 0 => n \in 1..N
      BY <1>1
    <3> QED
      BY <2>3, <2>4, <3>1 DEF IsRun
  <2> HIDE DEF Is
  <2> QED
    BY <2>5
<1> DEFINE Ends(i) == \/ i > N
                      \/ /\ d[i - from] = 0
                         /\ BeginsNext(ts, i) \/ (ts[i - 1] \in Closes /\ ~Looking(ts, i, GoesOn))
           E == {i \in (from + 1)..(N + 1) : Ends(i)}
<1>3. ValueEnd(ts, from) = CHOOSE x \in E : \A y \in E : x <= y
  BY DEF ValueEnd, Min
<1>4. d = [n \in 0..Len(ts) |-> IF n = 0 THEN 0 ELSE d[n - 1] + Nesting(ts[from + n - 1])]
  BY <1>2
<1> HIDE DEF d, Is
<1>5. \A n \in 0..N : d[n] = DepthIn(ts, from, n)
  BY <1>1, <1>4, DepthIsCounted
<1>6. ASSUME NEW i \in (from + 1)..(N + 1) PROVE Ends(i) <=> Stops(ts, from, i)
  <2>1. i > N \/ (i - from \in 0..N)
    BY <1>1
  <2> QED
    BY <1>5, <2>1 DEF Stops
<1> HIDE DEF Ends
<1>7. E \in SUBSET Nat /\ N + 1 \in E
  <2>1. N + 1 \in (from + 1)..(N + 1) /\ N + 1 > N
    BY <1>1
  <2>2. Ends(N + 1)
    BY <2>1 DEF Ends
  <2> QED
    BY <1>1, <2>1, <2>2
<1>8. \E x \in E : \A y \in E : x <= y
  <2> HIDE DEF E
  <2> QED
    BY <1>7, LeastNumber
<1> DEFINE e == ValueEnd(ts, from)
<1>9. e \in E /\ \A y \in E : e <= y
  <2> HIDE DEF E
  <2> QED
    BY <1>3, <1>8
<1> HIDE DEF e, N
<1> QED
  BY <1>6, <1>9 DEF e, N
-----------------------------------------------------------------------------
(***************************************************************************)
(* The loop of parse, an iteration at a time.                              *)
(***************************************************************************)
State == [i: Nat \ {0}, section: Sections \cup {"none"}, c: Config]

Begin == [i |-> 1, section |-> "none", c |-> NoConfig]

\* The conditions of an iteration that declares a constant, and what it
\* declares.
Replaces(ts, at) ==
  /\ at.section = "CONSTANT" /\ Looking(ts, at.i, Names)
  /\ Looking(ts, at.i + 1, {"<-"}) /\ Looking(ts, at.i + 2, Idents)

Assigns(ts, at) ==
  /\ at.section = "CONSTANT" /\ Looking(ts, at.i, Names)
  /\ Looking(ts, at.i + 1, {"="}) /\ at.i + 2 <= Len(ts)

Tells(ts, at) == Looking(ts, at.i, Token \ Keywords) /\ at.section \notin {"none", "CONSTANT"}

Replacing(ts, i) == Constant(<<ts[i]>>, <<>>, <<ts[i + 2]>>)

Assigning(ts, i) == Constant(<<ts[i]>>, SubSeq(ts, i + 2, ValueEnd(ts, i + 2) - 1), <<>>)

LEMMA StateChanges ==
  ASSUME NEW at \in State, NEW j, NEW t, NEW d
  PROVE  /\ [at EXCEPT !.i = j, !.section = t] = [i |-> j, section |-> t, c |-> at.c]
         /\ [at EXCEPT !.i = j, !.c = d] = [i |-> j, section |-> at.section, c |-> d]
<1> DEFINE S == {at.i, at.section, at.c, j, t, d}
           R == [i: S, section: S, c: S]
           x == [at EXCEPT !.i = j, !.section = t]
           y == [at EXCEPT !.i = j, !.c = d]
<1>1. /\ at.i \in S /\ at.section \in S /\ at.c \in S /\ j \in S /\ t \in S /\ d \in S
      /\ at \in R
  BY DEF State
<1> HIDE DEF S
<1>2. x \in R /\ x.i = j /\ x.section = t /\ x.c = at.c
  BY <1>1
<1>3. y \in R /\ y.i = j /\ y.section = at.section /\ y.c = d
  BY <1>1
<1>4. ASSUME NEW a \in R, NEW b \in R, a.i = b.i, a.section = b.section, a.c = b.c
      PROVE  a = b
  BY <1>4
<1> DEFINE u == [i |-> j, section |-> t, c |-> at.c]
           v == [i |-> j, section |-> at.section, c |-> d]
<1>5. /\ u \in R /\ u.i = j /\ u.section = t /\ u.c = at.c
      /\ v \in R /\ v.i = j /\ v.section = at.section /\ v.c = d
  BY <1>1
<1> HIDE DEF R, x, y, u, v
<1>6. x = u /\ y = v
  BY <1>2, <1>3, <1>4, <1>5
<1> QED
  BY <1>6 DEF x, y, u, v

LEMMA Iterations ==
  ASSUME NEW ts \in Seq(Token), NEW at \in State
  PROVE  LET i == at.i
             s == at.section
             next == ParseOne(ts, at)
         IN  /\ i > Len(ts) => next = at
             /\ Looking(ts, i, Keywords) =>
                  next = [i |-> i + 1, section |-> SectionOf(ts[i]), c |-> at.c]
             /\ Tells(ts, at) =>
                  next = [i |-> i + 1, section |-> s, c |-> Told(at.c, s, ts[i])]
             /\ Replaces(ts, at) =>
                  next = [i |-> i + 3, section |-> s,
                          c |-> WithConstant(at.c, Replacing(ts, i))]
             /\ Assigns(ts, at) =>
                  next = [i |-> ValueEnd(ts, i + 2), section |-> s,
                          c |-> WithConstant(at.c, Assigning(ts, i))]
             /\ ~(i > Len(ts) \/ Looking(ts, i, Keywords) \/ Tells(ts, at)
                  \/ Replaces(ts, at) \/ Assigns(ts, at)) =>
                  next = [i |-> Len(ts) + 1, section |-> s, c |-> ParseError]
<1> DEFINE i == at.i
           s == at.section
           next == ParseOne(ts, at)
           made(j, t, d) == [i |-> j, section |-> t, c |-> d]
<1>0. i \in Nat \ {0} /\ Len(ts) \in Nat
  BY DEF State
<1>1. /\ i \in Nat \ {0} /\ Len(ts) \in Nat
      /\ \A j, t : [at EXCEPT !.i = j, !.section = t] = made(j, t, at.c)
      /\ \A j, d : [at EXCEPT !.i = j, !.c = d] = made(j, s, d)
  <2>1. \A j, t : [at EXCEPT !.i = j, !.section = t] = made(j, t, at.c)
    BY StateChanges
  <2>2. \A j, d : [at EXCEPT !.i = j, !.c = d] = made(j, s, d)
    BY StateChanges
  <2> QED
    BY <1>0, <2>1, <2>2
<1>2. /\ i > Len(ts) => ~Looking(ts, i, Keywords) /\ ~Tells(ts, at)
                        /\ ~Replaces(ts, at) /\ ~Assigns(ts, at)
      /\ Looking(ts, i, Keywords) => ~Tells(ts, at) /\ ~Replaces(ts, at) /\ ~Assigns(ts, at)
      /\ Tells(ts, at) => ~Replaces(ts, at) /\ ~Assigns(ts, at)
      /\ Replaces(ts, at) => ~Assigns(ts, at)
  <2>1. i > Len(ts) => ~Looking(ts, i, Keywords) /\ ~Looking(ts, i, Names)
                       /\ ~Looking(ts, i, Token \ Keywords)
    BY <1>0 DEF Looking
  <2>2. Looking(ts, i, Keywords) => ~Looking(ts, i, Names) /\ ~Looking(ts, i, Token \ Keywords)
    BY TokenKinds DEF Looking
  <2>3. Looking(ts, i + 1, {"<-"}) => ~Looking(ts, i + 1, {"="})
    BY DEF Looking
  <2> QED
    BY <2>1, <2>2, <2>3 DEF Tells, Replaces, Assigns
<1>3. next = CASE i > Len(ts) -> at
               [] Looking(ts, i, Keywords) -> made(i + 1, SectionOf(ts[i]), at.c)
               [] Tells(ts, at) -> made(i + 1, s, Told(at.c, s, ts[i]))
               [] Replaces(ts, at) -> made(i + 3, s, WithConstant(at.c, Replacing(ts, i)))
               [] Assigns(ts, at) ->
                    made(ValueEnd(ts, i + 2), s, WithConstant(at.c, Assigning(ts, i)))
               [] OTHER -> made(Len(ts) + 1, s, ParseError)
  BY <1>1 DEF ParseOne, Tells, Replaces, Assigns, Declared, WithConstant, Replacing, Assigning
<1> HIDE DEF i, s, next, made
<1> DEFINE done == i > Len(ts)
           keyword == Looking(ts, i, Keywords)
           tells == Tells(ts, at)
           replaces == Replaces(ts, at)
           assigns == Assigns(ts, at)
<1> HIDE DEF done, keyword, tells, replaces, assigns
<1>4. /\ done => ~keyword /\ ~tells /\ ~replaces /\ ~assigns
      /\ keyword => ~tells /\ ~replaces /\ ~assigns
      /\ tells => ~replaces /\ ~assigns
      /\ replaces => ~assigns
  BY <1>2 DEF done, keyword, tells, replaces, assigns
<1>5. next = CASE done -> at
               [] keyword -> made(i + 1, SectionOf(ts[i]), at.c)
               [] tells -> made(i + 1, s, Told(at.c, s, ts[i]))
               [] replaces -> made(i + 3, s, WithConstant(at.c, Replacing(ts, i)))
               [] assigns ->
                    made(ValueEnd(ts, i + 2), s, WithConstant(at.c, Assigning(ts, i)))
               [] OTHER -> made(Len(ts) + 1, s, ParseError)
  BY <1>3, Zenon DEF done, keyword, tells, replaces, assigns
<1>6. done => next = at
  BY <1>4, <1>5
<1>7. keyword => next = made(i + 1, SectionOf(ts[i]), at.c)
  BY <1>4, <1>5
<1>8. tells => next = made(i + 1, s, Told(at.c, s, ts[i]))
  BY <1>4, <1>5
<1>9. replaces => next = made(i + 3, s, WithConstant(at.c, Replacing(ts, i)))
  BY <1>4, <1>5
<1>10. assigns => next = made(ValueEnd(ts, i + 2), s, WithConstant(at.c, Assigning(ts, i)))
  BY <1>4, <1>5
<1>11. ~(done \/ keyword \/ tells \/ replaces \/ assigns) => next = made(Len(ts) + 1, s, ParseError)
  BY <1>5
<1> QED
  BY <1>6, <1>7, <1>8, <1>9, <1>10, <1>11
     DEF i, s, next, made, done, keyword, tells, replaces, assigns

LEMMA ToldCases ==
  ASSUME NEW c, NEW s, NEW t
  PROVE  /\ s \in Singles => Told(c, s, t) = WithOne(c, s, <<t>>)
         /\ s \in Lists => Told(c, s, t) = WithMany(c, s, <<t>>)
         /\ s = "CHECK_DEADLOCK" =>
              Told(c, s, t) = WithDeadlock(c, IF t = "TRUE" THEN "TRUE" ELSE "FALSE")
<1>1. CASE s \in Singles
  <2>1. s \notin Lists /\ s # "CHECK_DEADLOCK"
    BY <1>1, SectionKinds
  <2> QED
    BY <1>1, <2>1 DEF Told, WithOne
<1>2. CASE s \in Lists
  <2>1. s \notin Singles /\ s # "CHECK_DEADLOCK"
    BY <1>2, SectionKinds
  <2> QED
    BY <1>2, <2>1 DEF Told, WithMany
<1>3. CASE s = "CHECK_DEADLOCK"
  <2>1. s \notin Singles /\ s \notin Lists
    BY <1>3, SectionKinds
  <2> QED
    BY <1>3, <2>1 DEF Told, WithDeadlock
<1> QED
  BY <1>1, <1>2, <1>3

\* A section that takes names; the constants stay.
LEMMA ToldType ==
  ASSUME NEW c \in Config, NEW s \in Sections \ {"CONSTANT"}, NEW t \in Token
  PROVE  Told(c, s, t) \in Config /\ Told(c, s, t).constants = c.constants
<1>1. <<t>> \in Seq(Token)
  OBVIOUS
<1> DEFINE u == <<t>>
<1> HIDE DEF u
<1>2. CASE s \in Singles
  <2>1. Told(c, s, t) = WithOne(c, s, u)
    BY <1>2, ToldCases DEF u
  <2>2. WithOne(c, s, u) \in Config /\ WithOne(c, s, u).constants = c.constants
    BY <1>1, <1>2, OneChanges DEF u
  <2> QED
    BY <2>1, <2>2
<1>3. CASE s \in Lists
  <2>1. Told(c, s, t) = WithMany(c, s, u)
    BY <1>3, ToldCases DEF u
  <2>2. WithMany(c, s, u) \in Config /\ WithMany(c, s, u).constants = c.constants
    BY <1>1, <1>3, ManyChanges DEF u
  <2> QED
    BY <2>1, <2>2
<1>4. CASE s = "CHECK_DEADLOCK"
  <2> DEFINE v == IF t = "TRUE" THEN "TRUE" ELSE "FALSE"
  <2>1. Told(c, s, t) = WithDeadlock(c, v) /\ v \in {"TRUE", "FALSE"}
    BY <1>4, ToldCases
  <2> HIDE DEF v
  <2>2. WithDeadlock(c, v) \in Config /\ WithDeadlock(c, v).constants = c.constants
    BY <2>1, DeadlockChanges
  <2> QED
    BY <2>1, <2>2
<1> QED
  BY <1>2, <1>3, <1>4, SectionKinds

LEMMA ReplacingType ==
  ASSUME NEW ts \in Seq(Token), NEW at \in State, Replaces(ts, at)
  PROVE  Replacing(ts, at.i) \in Constants
<1>1. ts[at.i] \in Token /\ ts[at.i + 2] \in Token
  BY TokenKinds DEF Replaces, Looking
<1> QED
  BY <1>1 DEF Replacing, Constant, Constants

LEMMA AssigningType ==
  ASSUME NEW ts \in Seq(Token), NEW at \in State, Assigns(ts, at)
  PROVE  /\ Assigning(ts, at.i) \in Constants
         /\ ValueEnd(ts, at.i + 2) \in (at.i + 3)..(Len(ts) + 1)
<1> DEFINE i == at.i
           e == ValueEnd(ts, i + 2)
           v == SubSeq(ts, i + 2, e - 1)
<1>1. i \in Nat /\ Len(ts) \in Nat /\ i + 2 \in 1..Len(ts) /\ i + 2 + 1 = i + 3
  BY DEF Assigns, State
<1>2. ts[i] \in Token
  BY TokenKinds DEF Assigns, Looking
<1>3. e \in (i + 3)..(Len(ts) + 1)
  BY <1>1, ValueEndIs
<1> HIDE DEF e, i
<1>4. \A j \in (i + 2)..(e - 1) : ts[j] \in Token
  BY <1>1, <1>3
<1>5. v \in Seq(Token)
  BY <1>1, <1>3, <1>4, SubSeqProperties
<1>6. Assigning(ts, i) = Constant(<<ts[i]>>, v, <<>>)
  BY DEF Assigning, e
<1> HIDE DEF v
<1>7. Assigning(ts, i) \in Constants
  BY <1>2, <1>5, <1>6 DEF Constant, Constants
<1> QED
  BY <1>3, <1>7 DEF e, i

\* An iteration takes a token, unless there is none.
LEMMA IterationType ==
  ASSUME NEW ts \in Seq(Token), NEW at \in State
  PROVE  LET next == ParseOne(ts, at)
         IN  next \in State /\ (at.i > Len(ts) => next = at) /\ (at.i <= Len(ts) => next.i > at.i)
<1> DEFINE i == at.i
           s == at.section
           next == ParseOne(ts, at)
<1>1. i \in Nat \ {0} /\ s \in Sections \cup {"none"} /\ at.c \in Config /\ Len(ts) \in Nat
  BY DEF State
<1>2. CASE i > Len(ts)
  BY <1>1, <1>2, Iterations
<1>3. CASE i <= Len(ts) /\ Looking(ts, i, Keywords)
  <2>1. next = [i |-> i + 1, section |-> SectionOf(ts[i]), c |-> at.c]
    BY <1>3, Iterations
  <2>2. SectionOf(ts[i]) \in Sections
    BY <1>3, SectionKinds DEF Looking
  <2> QED
    BY <1>1, <1>3, <2>1, <2>2 DEF State
<1>4. CASE i <= Len(ts) /\ Tells(ts, at)
  <2>1. next = [i |-> i + 1, section |-> s, c |-> Told(at.c, s, ts[i])]
    BY <1>4, Iterations
  <2>2. s \in Sections \ {"CONSTANT"} /\ ts[i] \in Token
    BY <1>1, <1>4 DEF Tells, Looking
  <2>3. Told(at.c, s, ts[i]) \in Config
    BY <1>1, <2>2, ToldType
  <2> QED
    BY <1>1, <1>4, <2>1, <2>3 DEF State
<1>5. CASE i <= Len(ts) /\ Replaces(ts, at)
  <2>1. next = [i |-> i + 3, section |-> s, c |-> WithConstant(at.c, Replacing(ts, i))]
    BY <1>5, Iterations
  <2>2. WithConstant(at.c, Replacing(ts, i)) \in Config
    BY <1>1, <1>5, ReplacingType, ConstantChanges
  <2> QED
    BY <1>1, <1>5, <2>1, <2>2 DEF State
<1>6. CASE i <= Len(ts) /\ Assigns(ts, at)
  <2>1. next = [i |-> ValueEnd(ts, i + 2), section |-> s, c |-> WithConstant(at.c, Assigning(ts, i))]
    BY <1>6, Iterations
  <2>2. ValueEnd(ts, i + 2) \in (i + 3)..(Len(ts) + 1)
    BY <1>6, AssigningType
  <2>3. WithConstant(at.c, Assigning(ts, i)) \in Config
    BY <1>1, <1>6, AssigningType, ConstantChanges
  <2> QED
    BY <1>1, <1>6, <2>1, <2>2, <2>3 DEF State
<1>7. CASE ~(i > Len(ts) \/ Looking(ts, i, Keywords) \/ Tells(ts, at)
             \/ Replaces(ts, at) \/ Assigns(ts, at))
  <2>1. next = [i |-> Len(ts) + 1, section |-> s, c |-> ParseError]
    BY <1>7, Iterations
  <2> QED
    BY <1>1, <1>7, <2>1, NoConfigType DEF State
<1>8. i > Len(ts) \/ i <= Len(ts)
  BY <1>1
<1> HIDE DEF next, i
<1> QED
  BY <1>2, <1>3, <1>4, <1>5, <1>6, <1>7, <1>8 DEF next, i

LEMMA LoopSteps ==
  ASSUME NEW ts \in Seq(Token)
  PROVE  /\ Loop(ts) \in [0..Len(ts) -> State] /\ Loop(ts)[0] = Begin
         /\ \A n \in 1..Len(ts) : Loop(ts)[n] = ParseOne(ts, Loop(ts)[n - 1])
<1> DEFINE N == Len(ts)
           Is(f) == f = [n \in 0..N |-> IF n = 0 THEN Begin ELSE ParseOne(ts, f[n - 1])]
           step == [p \in State \X (1..N) |-> ParseOne(ts, p[1])]
<1>1. N \in Nat
  OBVIOUS
<1>2. Begin \in State
  BY NoConfigType DEF Begin, State
<1>3. step \in Steps(State, N)
  BY <1>1, IterationType DEF Steps
<1> HIDE DEF step, N
<1>4. PICK f \in [0..N -> State] : IsRun(f, Begin, step, N)
  BY <1>1, <1>2, <1>3, Recursion
<1>5. ASSUME NEW n \in 1..N PROVE step[<<f[n - 1], n>>] = ParseOne(ts, f[n - 1])
  <2>1. n - 1 \in 0..N
    BY <1>1
  <2>2. f[n - 1] \in State
    BY <2>1
  <2> QED
    BY <2>2 DEF step
<1>6. Is(f)
  <2>1. \A n \in 0..N : n # 0 => n \in 1..N
    BY <1>1
  <2> QED
    BY <1>4, <1>5, <2>1 DEF IsRun
<1> DEFINE g == CHOOSE h : Is(h)
<1>7. Is(g)
  <2> HIDE DEF Is
  <2> QED
    BY <1>6
<1>8. Loop(ts) = g
  BY DEF Loop, N, Begin
<1>9. g = [n \in 0..N |-> IF n = 0 THEN Begin ELSE ParseOne(ts, g[n - 1])]
  BY <1>7
<1> HIDE DEF g, Is
<1>10. g[0] = Begin /\ \A n \in 1..N : g[n] = ParseOne(ts, g[n - 1])
  <2>1. 0 \in 0..N /\ \A n \in 1..N : n \in 0..N /\ n # 0
    BY <1>1
  <2> QED
    BY <1>9, <2>1
<1> DEFINE T == {n \in 0..N : g[n] \in State}
<1>11. \A n \in 0..N : n \in T
  <2>1. 0 \in T
    BY <1>1, <1>2, <1>10
  <2>2. ASSUME NEW n \in 1..N, n - 1 \in T PROVE n \in T
    <3>1. n \in 0..N /\ g[n - 1] \in State
      BY <1>1, <2>2
    <3>2. ParseOne(ts, g[n - 1]) \in State
      BY <3>1, IterationType
    <3> QED
      BY <1>10, <3>1, <3>2
  <2> HIDE DEF T
  <2> QED
    BY <1>1, <2>1, <2>2, UpTo
<1>12. g \in [0..N -> State]
  BY <1>9, <1>11
<1> QED
  BY <1>8, <1>10, <1>12 DEF N

\* The loop is at a state after as many iterations as there are tokens
\* before it, or fewer.
At(ts, s) == \E n \in 0..Len(ts) : n < s.i /\ Loop(ts)[n] = s

LEMMA AtBegin == ASSUME NEW ts \in Seq(Token) PROVE At(ts, Begin)
<1>1. 0 \in 0..Len(ts) /\ 0 < Begin.i
  BY DEF Begin
<1> QED
  BY <1>1, LoopSteps DEF At

LEMMA AtState == ASSUME NEW ts \in Seq(Token), NEW s, At(ts, s) PROVE s \in State
<1>1. PICK n \in 0..Len(ts) : Loop(ts)[n] = s
  BY DEF At
<1> QED
  BY <1>1, LoopSteps

LEMMA AtNext ==
  ASSUME NEW ts \in Seq(Token), NEW s, At(ts, s), s.i <= Len(ts)
  PROVE  At(ts, ParseOne(ts, s))
<1>1. PICK n \in 0..Len(ts) : n < s.i /\ Loop(ts)[n] = s
  BY DEF At
<1>2. s \in State /\ s.i \in Nat /\ Len(ts) \in Nat
  BY AtState DEF State
<1>3. ParseOne(ts, s) \in State /\ ParseOne(ts, s).i > s.i
  BY <1>2, IterationType
<1>4. ParseOne(ts, s).i \in Nat
  BY <1>3 DEF State
<1>5. n + 1 \in 1..Len(ts) /\ n + 1 \in 0..Len(ts) /\ n + 1 - 1 = n
  BY <1>1, <1>2
<1>6. Loop(ts)[n + 1] = ParseOne(ts, s)
  BY <1>1, <1>5, LoopSteps
<1>7. n + 1 < ParseOne(ts, s).i
  BY <1>1, <1>2, <1>3, <1>4
<1> QED
  BY <1>5, <1>6, <1>7 DEF At

\* What holds of a state and of the one after it holds at the end.
LEMMA AtLast ==
  ASSUME NEW ts \in Seq(Token), NEW s, At(ts, s), NEW T, s \in T,
         \A x \in State : x \in T => ParseOne(ts, x) \in T
  PROVE  \E x \in State : x \in T /\ Parse(ts) = x.c
<1> DEFINE N == Len(ts)
<1>1. PICK n \in 0..N : Loop(ts)[n] = s
  BY DEF At
<1> DEFINE U == {m \in 0..N : m >= n => Loop(ts)[m] \in T}
<1>2. N \in Nat
  OBVIOUS
<1>3. 0 \in U
  BY <1>1, <1>2
<1>4. ASSUME NEW m \in 1..N, m - 1 \in U PROVE m \in U
  <2>1. /\ m - 1 \in 0..N /\ Loop(ts)[m] = ParseOne(ts, Loop(ts)[m - 1])
        /\ Loop(ts)[m - 1] \in State
    BY <1>2, LoopSteps
  <2>2. CASE m = n
    BY <1>1, <2>2
  <2>3. CASE m > n
    <3>1. Loop(ts)[m - 1] \in T
      BY <1>2, <1>4, <2>1, <2>3
    <3> QED
      BY <2>1, <3>1
  <2>4. CASE m < n
    BY <2>4
  <2> QED
    BY <1>2, <2>2, <2>3, <2>4
<1> HIDE DEF U
<1>5. N \in U
  <2>1. \A m \in 0..N : m \in U
    <3> HIDE DEF N
    <3> QED
      BY <1>2, <1>3, <1>4, UpTo
  <2> QED
    BY <1>2, <2>1
<1>6. Loop(ts)[N] \in T /\ Loop(ts)[N] \in State
  <2>1. N \in 0..N /\ N >= n
    BY <1>2
  <2> QED
    BY <1>5, <2>1, LoopSteps DEF U
<1> QED
  BY <1>6 DEF Parse

LEMMA AtEnd ==
  ASSUME NEW ts \in Seq(Token), NEW s, At(ts, s), s.i > Len(ts)
  PROVE  Parse(ts) = s.c
<1> DEFINE T == {s}
<1>1. s \in State
  BY AtState
<1>2. ParseOne(ts, s) = s
  BY <1>1, IterationType
<1>3. s \in T /\ \A x \in State : x \in T => ParseOne(ts, x) \in T
  BY <1>2
<1>4. \E x \in State : x \in T /\ Parse(ts) = x.c
  <2> HIDE DEF T
  <2> QED
    BY <1>3, AtLast
<1> QED
  BY <1>4
-----------------------------------------------------------------------------
(***************************************************************************)
(* A piece of a text, and the state of the loop after it.                  *)
(***************************************************************************)
Here(i, s, c) == [i |-> i, section |-> s, c |-> c]

Holds(ts, i, x) == /\ i + Len(x) - 1 <= Len(ts)
                   /\ \A j \in 1..Len(x) : ts[i + j - 1] = x[j]

LEMMA DepthOfValue ==
  ASSUME NEW ts \in Seq(Token), NEW i \in Nat, NEW v \in Seq(Token), Holds(ts, i, v),
         NEW n \in 0..Len(v)
  PROVE  DepthAt(v, n) = DepthIn(ts, i, n)
<1>1. \A j \in 1..n : j \in 1..Len(v)
  OBVIOUS
<1>2. \A j \in 1..n : ts[i + j - 1] = v[j]
  BY <1>1 DEF Holds
<1>3. \A A : {j \in 1..n : v[j] \in A} = Among(ts, i, n, A)
  BY <1>2 DEF Among
<1> QED
  BY <1>3 DEF DepthAt, DepthIn

\* A value that is not cut ends where it was written to end, when its
\* brackets match and something new begins there, or nothing follows.
LEMMA ValueIsRead ==
  ASSUME NEW ts \in Seq(Token), NEW i \in Nat \ {0}, NEW v \in Seq(Token), v # <<>>,
         ~IsCut(v), Holds(ts, i, v),
         \/ i + Len(v) = Len(ts) + 1
         \/ DepthAt(v, Len(v)) = 0 /\ BeginsNext(ts, i + Len(v))
  PROVE  ValueEnd(ts, i) = i + Len(v)
<1> DEFINE e == ValueEnd(ts, i)
           n == Len(v)
           q == i + n
<1>1. /\ n \in Nat \ {0} /\ Len(ts) \in Nat /\ q \in Nat /\ q <= Len(ts) + 1
      /\ i \in 1..Len(ts) /\ q \in (i + 1)..(Len(ts) + 1) /\ q - i = n
  BY DEF Holds
<1>2. /\ e \in (i + 1)..(Len(ts) + 1) /\ Stops(ts, i, e)
      /\ \A j \in (i + 1)..(Len(ts) + 1) : Stops(ts, i, j) => e <= j
  BY <1>1, ValueEndIs
<1>3. DepthAt(v, n) = DepthIn(ts, i, n)
  BY <1>1, DepthOfValue
<1>4. Stops(ts, i, q)
  BY <1>1, <1>3 DEF Stops
<1>5. e <= q
  BY <1>1, <1>2, <1>4
<1> HIDE DEF e
<1>6. ASSUME e < q PROVE FALSE
  <2> DEFINE k == e - i
  <2>1. k \in 1..(n - 1) /\ k \in 0..n /\ e = i + k /\ e <= Len(ts) /\ e \in Nat
    BY <1>1, <1>2, <1>6
  <2>2. /\ DepthIn(ts, i, k) = 0
        /\ BeginsNext(ts, e) \/ (ts[e - 1] \in Closes /\ ~Looking(ts, e, GoesOn))
    BY <1>2, <2>1 DEF Stops
  <2> HIDE DEF k
  <2>3. DepthAt(v, k) = 0
    BY <1>1, <2>1, <2>2, DepthOfValue
  <2>4. ts[e - 1] = v[k] /\ ts[e] = v[k + 1]
    <3>1. k \in 1..n /\ k + 1 \in 1..n /\ i + k - 1 = e - 1 /\ i + (k + 1) - 1 = e
      BY <1>1, <2>1
    <3> QED
      BY <3>1 DEF Holds
  <2>5. \A x : x \in {"=", "<-"} => x \notin Keywords /\ x \notin Idents
    BY TokenKinds
  <2>6. CASE ts[e - 1] \in Closes /\ ~Looking(ts, e, GoesOn)
    BY <2>1, <2>3, <2>4, <2>6 DEF IsCut, Looking
  <2>7. CASE Looking(ts, e, Keywords)
    BY <2>1, <2>3, <2>4, <2>7 DEF IsCut, Looking
  <2>8. CASE Looking(ts, e, Idents) /\ Looking(ts, e + 1, {"=", "<-"})
    <3>1. v[k + 1] \in Idents /\ ts[e + 1] \in {"=", "<-"} /\ e + 1 <= Len(ts)
      BY <2>4, <2>8 DEF Looking
    <3>2. CASE k + 2 <= n
      <4>1. k + 2 \in 1..n /\ i + (k + 2) - 1 = e + 1
        BY <1>1, <2>1, <3>2
      <4>2. v[k + 2] = ts[e + 1]
        BY <4>1 DEF Holds
      <4> QED
        BY <2>1, <2>3, <3>1, <3>2, <4>2 DEF IsCut
    <3>3. CASE k + 1 = n
      <4>1. e + 1 = q /\ q # Len(ts) + 1
        BY <1>1, <2>1, <3>1, <3>3
      <4>2. BeginsNext(ts, q)
        BY <4>1
      <4>3. ts[q] \in Keywords \/ ts[q] \in Idents
        <5> HIDE DEF q
        <5> QED
          BY <4>2 DEF BeginsNext, Looking
      <4> HIDE DEF q
      <4>4. ts[q] \in {"=", "<-"}
        BY <3>1, <4>1
      <4> QED
        BY <2>5, <4>3, <4>4, Zenon
    <3>4. k + 2 <= n \/ k + 1 = n
      <4>1. n \in Nat /\ k \in 1..(n - 1)
        BY <1>1, <2>1
      <4> HIDE DEF n
      <4> QED
        BY <4>1
    <3> QED
      BY <3>2, <3>3, <3>4
  <2> QED
    BY <2>2, <2>6, <2>7, <2>8 DEF BeginsNext
<1> QED
  BY <1>1, <1>2, <1>5, <1>6 DEF e

LEMMA ConstantTextIs ==
  ASSUME NEW k \in Constants, Len(k.name) = 1
  PROVE  LET t == ConstantText(k)
             x == IF k.replacement # <<>> THEN k.replacement ELSE k.value
         IN  /\ k.name = <<k.name[1]>> /\ t[1] = k.name[1]
             /\ t[2] = IF k.replacement # <<>> THEN "<-" ELSE "="
             /\ x \in Seq(Token) /\ Len(t) = 2 + Len(x) /\ \A j \in 1..Len(x) : t[2 + j] = x[j]
<1> DEFINE t == ConstantText(k)
           x == IF k.replacement # <<>> THEN k.replacement ELSE k.value
           b == IF k.replacement # <<>> THEN "<-" ELSE "="
           n == k.name
<1>1. n \in Seq(Token) /\ x \in Seq(Token) /\ b \in Token /\ Len(n) = 1
  BY TokenKinds DEF Constants
<1>2. t = n \o (<<b>> \o x)
  BY ConstantTextType
<1> HIDE DEF t, x, b, n
<1> DEFINE y == <<b>> \o x
<1>3. y \in Seq(Token) /\ Len(y) = 1 + Len(x) /\ y[1] = b /\ \A j \in 1..Len(x) : y[1 + j] = x[j]
  <2>1. <<b>> \in Seq(Token) /\ Len(<<b>>) = 1 /\ <<b>>[1] = b /\ Len(x) \in Nat
    BY <1>1
  <2>2. /\ y \in Seq(Token) /\ Len(y) = Len(<<b>>) + Len(x)
        /\ \A i \in 1..Len(y) : y[i] = IF i <= Len(<<b>>) THEN <<b>>[i] ELSE x[i - Len(<<b>>)]
    BY <1>1, <2>1, ConcatProperties
  <2> HIDE DEF y
  <2>3. Len(y) = 1 + Len(x) /\ \A i \in 1..(1 + Len(x)) : y[i] = IF i <= 1 THEN <<b>>[i] ELSE x[i - 1]
    BY <2>1, <2>2
  <2>4. \A j \in 1..Len(x) : 1 + j \in 1..(1 + Len(x)) /\ ~(1 + j <= 1) /\ 1 + j - 1 = j
    BY <2>1
  <2>5. 1 \in 1..(1 + Len(x))
    BY <2>1
  <2> QED
    BY <2>1, <2>2, <2>3, <2>4, <2>5
<1>4. t = n \o y
  BY <1>2
<1> HIDE DEF y
<1>5. /\ Len(t) = 1 + Len(y)
      /\ \A i \in 1..Len(t) : t[i] = IF i <= 1 THEN n[i] ELSE y[i - 1]
  <2>1. /\ Len(t) = Len(n) + Len(y)
        /\ \A i \in 1..Len(t) : t[i] = IF i <= Len(n) THEN n[i] ELSE y[i - Len(n)]
    <3>1. /\ n \o y \in Seq(Token) /\ Len(n \o y) = Len(n) + Len(y)
          /\ \A i \in 1..(Len(n) + Len(y)) :
               (n \o y)[i] = IF i <= Len(n) THEN n[i] ELSE y[i - Len(n)]
      <4>1. n \in Seq(Token) /\ y \in Seq(Token)
        BY <1>1, <1>3
      <4> QED
        BY <4>1, ConcatProperties
    <3> QED
      BY <1>4, <3>1, Zenon
  <2> QED
    BY <1>1, <2>1
<1>6. Len(x) \in Nat /\ Len(t) = 2 + Len(x)
  BY <1>1, <1>3, <1>5
<1>7. t[1] = n[1]
  BY <1>5, <1>6
<1>8. t[2] = b
  <2>1. 2 \in 1..Len(t) /\ 2 - 1 = 1
    BY <1>6
  <2> QED
    BY <1>3, <1>5, <2>1
<1>9. ASSUME NEW j \in 1..Len(x) PROVE t[2 + j] = x[j]
  <2>1. 2 + j \in 1..Len(t) /\ ~(2 + j <= 1) /\ 2 + j - 1 = 1 + j
    BY <1>6
  <2> QED
    BY <1>3, <1>5, <2>1
<1>10. n = <<n[1]>>
  BY <1>1
<1> QED
  BY <1>1, <1>6, <1>7, <1>8, <1>9, <1>10 DEF t, x, b, n

\* Of the text of a readable constant that stands in ts, the name and the
\* sign after it.
LEMMA ConstantStands ==
  ASSUME NEW ts \in Seq(Token), NEW i \in Nat \ {0}, NEW k \in Constants, Len(k.name) = 1,
         Holds(ts, i, ConstantText(k))
  PROVE  LET x == IF k.replacement # <<>> THEN k.replacement ELSE k.value
         IN  /\ i + 1 <= Len(ts) /\ ts[i] = k.name[1]
             /\ ts[i + 1] = IF k.replacement # <<>> THEN "<-" ELSE "="
             /\ Holds(ts, i + 2, x) /\ i + Len(ConstantText(k)) = i + 2 + Len(x)
<1> DEFINE t == ConstantText(k)
           x == IF k.replacement # <<>> THEN k.replacement ELSE k.value
           b == IF k.replacement # <<>> THEN "<-" ELSE "="
<1>1. /\ t[1] = k.name[1] /\ t[2] = b /\ x \in Seq(Token) /\ Len(t) = 2 + Len(x)
      /\ \A j \in 1..Len(x) : t[2 + j] = x[j]
  BY ConstantTextIs
<1>2. /\ i + Len(t) - 1 <= Len(ts)
      /\ \A j \in 1..Len(t) : ts[i + j - 1] = t[j]
  BY DEF Holds
<1> HIDE DEF t, x, b
<1>3. Len(x) \in Nat /\ Len(t) = 2 + Len(x) /\ Len(ts) \in Nat
  BY <1>1
<1>4. ts[i] = t[1]
  <2>1. 1 \in 1..Len(t) /\ i + 1 - 1 = i
    BY <1>3
  <2> QED
    BY <1>2, <2>1
<1>5. ts[i + 1] = t[2]
  <2>1. 2 \in 1..Len(t) /\ i + 2 - 1 = i + 1
    BY <1>3
  <2> QED
    BY <1>2, <2>1
<1>6. ASSUME NEW j \in 1..Len(x) PROVE ts[i + 2 + j - 1] = x[j]
  <2>1. 2 + j \in 1..Len(t) /\ i + (2 + j) - 1 = i + 2 + j - 1
    BY <1>3
  <2> QED
    BY <1>1, <1>2, <2>1
<1>7. /\ i + 1 <= Len(ts) /\ i + 2 + Len(x) - 1 <= Len(ts)
      /\ i + Len(t) = i + 2 + Len(x)
  BY <1>2, <1>3
<1> QED
  BY <1>1, <1>4, <1>5, <1>6, <1>7 DEF t, x, b, Holds

LEMMA ConstantIsRead ==
  ASSUME NEW ts \in Seq(Token), NEW i \in Nat \ {0}, NEW c \in Config, NEW k \in Constants,
         ReadableConstant(k), Holds(ts, i, ConstantText(k)),
         \/ i + Len(ConstantText(k)) = Len(ts) + 1
         \/ ~Unclosed(k) /\ BeginsNext(ts, i + Len(ConstantText(k)))
  PROVE  ParseOne(ts, Here(i, "CONSTANT", c)) =
           Here(i + Len(ConstantText(k)), "CONSTANT", WithConstant(c, k))
<1> DEFINE x == IF k.replacement # <<>> THEN k.replacement ELSE k.value
           at == Here(i, "CONSTANT", c)
           e == i + Len(ConstantText(k))
<1>1. /\ Len(k.name) = 1 /\ k.name = <<k.name[1]>> /\ k.name[1] \in Names
      /\ x \in Seq(Token) /\ Len(x) \in Nat
  BY ConstantTextIs DEF ReadableConstant
<1>2. /\ i + 1 <= Len(ts) /\ ts[i] = k.name[1]
      /\ ts[i + 1] = IF k.replacement # <<>> THEN "<-" ELSE "="
      /\ Holds(ts, i + 2, x) /\ e = i + 2 + Len(x) /\ Len(ts) \in Nat
  <2>1. Len(ts) \in Nat
    OBVIOUS
  <2>2. Len(k.name) = 1
    BY <1>1
  <2> QED
    BY <2>1, <2>2, ConstantStands
<1>3. at \in State /\ at.i = i /\ at.section = "CONSTANT" /\ at.c = c
  BY SectionKinds DEF State, Here
<1> HIDE DEF x, at, e
<1>4. Looking(ts, i, Names) /\ k = Constant(<<ts[i]>>, k.value, k.replacement)
  <2>1. Looking(ts, i, Names)
    BY <1>1, <1>2 DEF Looking
  <2>2. k = Constant(k.name, k.value, k.replacement)
    BY DEF Constant, Constants
  <2>3. k.name = <<ts[i]>>
    BY <1>1, <1>2
  <2> QED
    BY <2>1, <2>2, <2>3
<1>5. CASE k.replacement # <<>>
  <2>1. /\ k.value = <<>> /\ Len(k.replacement) = 1 /\ k.replacement[1] \in Idents
        /\ x = k.replacement
    BY <1>5 DEF ReadableConstant, x
  <2>2. k.replacement = <<k.replacement[1]>>
    BY <2>1 DEF Constants
  <2>3. i + 2 <= Len(ts) /\ ts[i + 2] = k.replacement[1] /\ e = i + 3
    <3>1. 1 \in 1..Len(x) /\ i + 2 + 1 - 1 = i + 2 /\ Len(x) = 1
      BY <2>1
    <3>2. i + 2 + 1 - 1 <= Len(ts) /\ ts[i + 2 + 1 - 1] = x[1]
      BY <1>2, <3>1 DEF Holds
    <3>3. e = i + 3
      BY <1>2, <3>1
    <3> QED
      BY <2>1, <3>1, <3>2, <3>3
  <2>4. Replaces(ts, at)
    BY <1>2, <1>3, <1>4, <1>5, <2>1, <2>3 DEF Replaces, Looking
  <2>5. k = Replacing(ts, i)
    BY <1>4, <2>1, <2>2, <2>3 DEF Replacing
  <2>6. ParseOne(ts, at) = [i |-> i + 3, section |-> "CONSTANT", c |-> WithConstant(c, k)]
    BY <1>3, <2>4, <2>5, Iterations
  <2> QED
    BY <2>3, <2>6 DEF Here, at, e
<1>6. CASE k.replacement = <<>>
  <2>1. x # <<>> /\ ~IsCut(x) /\ x = k.value
    BY <1>6 DEF ReadableConstant, x
  <2>2. Len(x) >= 1 /\ i + 2 <= Len(ts)
    <3>1. Len(x) >= 1
      BY <1>1, <2>1
    <3>2. i + 2 + Len(x) - 1 <= Len(ts)
      BY <1>2 DEF Holds
    <3> QED
      BY <1>1, <1>2, <3>1, <3>2
  <2>3. \/ e = Len(ts) + 1
        \/ DepthAt(x, Len(x)) = 0 /\ BeginsNext(ts, e)
    BY <1>6, <2>1 DEF Unclosed, e
  <2>4. ValueEnd(ts, i + 2) = i + 2 + Len(x)
    <3>1. i + 2 \in Nat \ {0} /\ e = (i + 2) + Len(x)
      BY <1>2
    <3> QED
      BY <1>1, <1>2, <2>1, <2>3, <3>1, ValueIsRead
  <2>5. SubSeq(ts, i + 2, i + 2 + Len(x) - 1) = x
    <3> DEFINE y == SubSeq(ts, i + 2, i + 2 + Len(x) - 1)
    <3>1. i + 2 + Len(x) - 1 <= Len(ts)
      BY <1>2 DEF Holds
    <3>2. \A j \in (i + 2)..(i + 2 + Len(x) - 1) : ts[j] \in Token
      BY <1>1, <1>2, <3>1
    <3>3. /\ y \in Seq(Token) /\ Len(y) = Len(x)
          /\ \A j \in 1..Len(x) : y[j] = ts[i + 2 + j - 1]
      <4> DEFINE m == i + 2
                 n == i + 2 + Len(x) - 1
      <4>1. /\ m \in Int /\ n \in Int /\ m <= n + 1 /\ n - m + 1 = Len(x) /\ m <= n
        BY <1>1, <2>2
      <4>2. \A j \in m..n : ts[j] \in Token
        BY <3>2
      <4> HIDE DEF m, n
      <4>3. /\ SubSeq(ts, m, n) \in Seq(Token) /\ Len(SubSeq(ts, m, n)) = n - m + 1
            /\ \A j \in 1..(n - m + 1) : SubSeq(ts, m, n)[j] = ts[m + j - 1]
        BY <4>1, <4>2, SubSeqProperties
      <4> QED
        BY <4>1, <4>3 DEF m, n
    <3> HIDE DEF y
    <3>4. \A j \in 1..Len(x) : ts[i + 2 + j - 1] = x[j]
      BY <1>2 DEF Holds
    <3>5. y = x
      BY <1>1, <3>3, <3>4, SeqEqual
    <3> QED
      BY <3>5 DEF y
  <2>6. Assigns(ts, at)
    BY <1>2, <1>3, <1>4, <1>6, <2>2 DEF Assigns, Looking
  <2>7. k = Assigning(ts, i)
    <3>1. Assigning(ts, i) = Constant(<<ts[i]>>, SubSeq(ts, i + 2, i + 2 + Len(x) - 1), <<>>)
      BY <2>4 DEF Assigning
    <3> QED
      BY <1>4, <1>6, <2>1, <2>5, <3>1
  <2>8. ParseOne(ts, at) =
          [i |-> ValueEnd(ts, i + 2), section |-> "CONSTANT", c |-> WithConstant(c, k)]
    BY <1>3, <2>6, <2>7, Iterations
  <2> QED
    BY <1>2, <2>4, <2>8 DEF Here, at, e
<1> QED
  BY <1>5, <1>6 DEF at, e

\* What can be read wherever it stands, or where nothing follows.
Clear(p, last) ==
  \/ p.opens
  \/ SectionOf(p.kw) = "CONSTANT" /\ ReadableConstant(p.entry) /\ (last \/ ~Unclosed(p.entry))
  \/ SectionOf(p.kw) = "CHECK_DEADLOCK"
  \/ SectionOf(p.kw) \in Singles \cup Lists /\ ReadableName(p.entry.name)

IsConstant(p) == ~p.opens /\ SectionOf(p.kw) = "CONSTANT"

LEMMA OneElement ==
  ASSUME NEW S, NEW t \in Seq(S), Len(t) = 1 PROVE t = <<t[1]>> /\ t[1] \in S
<1>1. t[1] \in S
  OBVIOUS
<1>2. <<t[1]>> \in Seq(S) /\ Len(<<t[1]>>) = 1 /\ <<t[1]>>[1] = t[1]
  BY <1>1
<1> QED
  BY <1>1, <1>2, SeqEqual

LEMMA TokenIsRead ==
  ASSUME NEW ts \in Seq(Token), NEW i \in Nat \ {0}, NEW c \in Config,
         NEW sec \in Sections \cup {"none"}, NEW p \in Piece, ~IsConstant(p),
         p.opens \/ sec = SectionOf(p.kw), Holds(ts, i, PieceText(p)), Clear(p, FALSE)
  PROVE  /\ Len(PieceText(p)) = 1 /\ i <= Len(ts)
         /\ ParseOne(ts, Here(i, sec, c)) = Here(i + 1, SectionOf(p.kw), Said(c, p))
<1> DEFINE s == SectionOf(p.kw)
           at == Here(i, sec, c)
           t == p.entry.name
<1>1. /\ at \in State /\ at.i = i /\ at.section = sec /\ at.c = c
      /\ Len(ts) \in Nat /\ \A j \in 1..Len(ts) : ts[j] \in Token
  BY DEF State, Here
<1>2. /\ s \in Sections /\ t \in Seq(Token) /\ p.kw \in Keywords /\ p.opens \in BOOLEAN
  BY SaidCases DEF Piece
<1>3. ASSUME NEW x, PieceText(p) = <<x>> PROVE Len(PieceText(p)) = 1 /\ i <= Len(ts) /\ ts[i] = x
  <2>1. Len(<<x>>) = 1 /\ 1 \in 1..1 /\ <<x>>[1] = x
    OBVIOUS
  <2>2. i + 1 - 1 <= Len(ts) /\ ts[i + 1 - 1] = x
    BY <1>3, <2>1 DEF Holds
  <2>3. i + 1 - 1 = i
    OBVIOUS
  <2> QED
    BY <1>3, <2>1, <2>2, <2>3
<1> HIDE DEF at, s, t
<1>4. CASE p.opens
  <2>1. PieceText(p) = <<p.kw>> /\ Said(c, p) = c
    BY <1>4, SaidCases DEF PieceText
  <2>2. Len(PieceText(p)) = 1 /\ i <= Len(ts) /\ ts[i] = p.kw
    BY <1>3, <2>1
  <2>3. Looking(ts, i, Keywords)
    BY <1>2, <2>2 DEF Looking
  <2>4. ParseOne(ts, at) = [i |-> i + 1, section |-> SectionOf(ts[i]), c |-> c]
    BY <1>1, <2>3, Iterations
  <2> QED
    BY <2>1, <2>2, <2>4 DEF at, s, Here
<1>5. CASE ~p.opens
  <2>1. s # "CONSTANT" /\ sec = s /\ s \notin {"none", "CONSTANT"}
    BY <1>2, <1>5, SectionKinds DEF s, IsConstant
  <2>2. PieceText(p) = t
    BY <1>5, <2>1 DEF PieceText, s, t
  <2>3. PICK x \in Token : t = <<x>> /\ x \notin Keywords
    <3>1. CASE s = "CHECK_DEADLOCK"
      <4>1. t \in {<<"TRUE">>, <<"FALSE">>}
        BY <1>5, <3>1, SaidCases DEF s, t
      <4>2. \A x : x \in {"TRUE", "FALSE"} => x \in Token /\ x \notin Keywords
        BY TokenKinds
      <4> QED
        BY <4>1, <4>2
    <3>2. CASE s # "CHECK_DEADLOCK"
      <4>1. Len(t) = 1 /\ t[1] \notin Keywords
        BY <1>5, <2>1, <3>2 DEF Clear, ReadableName, s, t
      <4>2. t = <<t[1]>> /\ t[1] \in Token
        BY <1>2, <4>1, OneElement
      <4> QED
        BY <4>1, <4>2
    <3> QED
      BY <3>1, <3>2
  <2>4. Len(PieceText(p)) = 1 /\ i <= Len(ts) /\ ts[i] = x
    BY <1>3, <2>2, <2>3
  <2>5. Tells(ts, at)
    BY <1>1, <2>1, <2>3, <2>4 DEF Tells, Looking
  <2>6. ParseOne(ts, at) = [i |-> i + 1, section |-> s, c |-> Told(c, s, x)]
    BY <1>1, <2>1, <2>4, <2>5, Iterations
  <2>7. Told(c, s, x) = Said(c, p)
    <3>1. CASE s \in Singles
      <4>1. Said(c, p) = WithOne(c, s, t)
        BY <1>5, <3>1, SaidCases DEF s, t
      <4>2. Told(c, s, x) = WithOne(c, s, <<x>>)
        BY <3>1, ToldCases
      <4> QED
        BY <2>3, <4>1, <4>2
    <3>2. CASE s \in Lists
      <4>1. Said(c, p) = WithMany(c, s, t)
        BY <1>5, <3>2, SaidCases DEF s, t
      <4>2. Told(c, s, x) = WithMany(c, s, <<x>>)
        BY <3>2, ToldCases
      <4> QED
        BY <2>3, <4>1, <4>2
    <3>3. CASE s = "CHECK_DEADLOCK"
      <4>1. t \in {<<"TRUE">>, <<"FALSE">>} /\ Said(c, p) = WithDeadlock(c, t[1])
        BY <1>5, <3>3, SaidCases DEF s, t
      <4>2. Told(c, s, x) = WithDeadlock(c, IF x = "TRUE" THEN "TRUE" ELSE "FALSE")
        BY <3>3, ToldCases
      <4>3. t[1] = IF x = "TRUE" THEN "TRUE" ELSE "FALSE"
        BY <2>3, <4>1
      <4> QED
        BY <4>1, <4>2, <4>3
    <3> QED
      BY <1>2, <2>1, <3>1, <3>2, <3>3, SectionKinds
  <2> QED
    BY <2>4, <2>6, <2>7 DEF at, s, Here
<1> QED
  BY <1>2, <1>4, <1>5

LEMMA PieceIsRead ==
  ASSUME NEW ts \in Seq(Token), NEW i \in Nat \ {0}, NEW c \in Config, NEW sec,
         NEW p \in Piece, At(ts, Here(i, sec, c)), p.opens \/ sec = SectionOf(p.kw),
         Holds(ts, i, PieceText(p)), NEW b \in BOOLEAN, Clear(p, b),
         b => i + Len(PieceText(p)) = Len(ts) + 1,
         IsConstant(p) => \/ i + Len(PieceText(p)) = Len(ts) + 1
                          \/ BeginsNext(ts, i + Len(PieceText(p)))
  PROVE  At(ts, Here(i + Len(PieceText(p)), SectionOf(p.kw), Said(c, p)))
<1> DEFINE at == Here(i, sec, c)
<1>1. at \in State /\ at.i = i /\ sec \in Sections \cup {"none"}
  <2>1. at \in State
    BY AtState
  <2> QED
    BY <2>1 DEF Here, State
<1> HIDE DEF at
<1>2. CASE ~IsConstant(p)
  <2>1. Clear(p, FALSE)
    BY <1>2 DEF Clear, IsConstant
  <2>2. /\ Len(PieceText(p)) = 1 /\ i <= Len(ts)
        /\ ParseOne(ts, at) = Here(i + 1, SectionOf(p.kw), Said(c, p))
    BY <1>1, <1>2, <2>1, TokenIsRead DEF at
  <2>3. At(ts, ParseOne(ts, at))
    BY <1>1, <2>2, AtNext DEF at
  <2> QED
    BY <2>2, <2>3
<1>3. CASE IsConstant(p)
  <2> DEFINE k == p.entry
             n == Len(PieceText(p))
  <2>1. /\ PieceText(p) = ConstantText(k) /\ k \in Constants /\ sec = "CONSTANT"
        /\ SectionOf(p.kw) = "CONSTANT" /\ Said(c, p) = WithConstant(c, k)
    BY <1>3, SaidCases DEF IsConstant, PieceText
  <2>2. ReadableConstant(k) /\ (i + n = Len(ts) + 1 \/ ~Unclosed(k))
    BY <1>3, SectionKinds DEF Clear, IsConstant
  <2>3. i + n = Len(ts) + 1 \/ (~Unclosed(k) /\ BeginsNext(ts, i + n))
    BY <1>3, <2>2
  <2>4. i <= Len(ts)
    <3>1. i + 1 <= Len(ts) /\ Len(ts) \in Nat
      <4>1. Len(k.name) = 1
        BY <2>2 DEF ReadableConstant
      <4>2. Len(ts) \in Nat
        OBVIOUS
      <4> QED
        BY <2>1, <4>1, <4>2, ConstantStands
    <3> QED
      BY <3>1
  <2> HIDE DEF k, n
  <2>5. ParseOne(ts, at) = Here(i + n, "CONSTANT", WithConstant(c, k))
    <3>1. Holds(ts, i, ConstantText(k)) /\ n = Len(ConstantText(k))
      BY <2>1 DEF n
    <3> QED
      BY <2>1, <2>2, <2>3, <3>1, ConstantIsRead DEF at
  <2>6. At(ts, ParseOne(ts, at))
    BY <1>1, <2>4, AtNext DEF at
  <2> QED
    BY <2>1, <2>5, <2>6 DEF n
<1> QED
  BY <1>2, <1>3
-----------------------------------------------------------------------------
(***************************************************************************)
(* The pieces of a file, one after the other.                              *)
(***************************************************************************)
\* Every entry stands in the section of its keyword.
Chained(s) == \A i \in 1..Len(s) : ~s[i].opens => i - 1 \in 1..Len(s) /\ s[i - 1].kw = s[i].kw

SectionAfter(s) == IF s = <<>> THEN "none" ELSE SectionOf(s[Len(s)].kw)

LEMMA HoldsConcat ==
  ASSUME NEW ts \in Seq(Token), NEW x \in Seq(Token), NEW y \in Seq(Token)
  PROVE  /\ Len(x \o y) = Len(x) + Len(y)
         /\ Holds(ts, 1, x \o y) <=> Holds(ts, 1, x) /\ Holds(ts, Len(x) + 1, y)
<1> DEFINE z == x \o y
           a == Len(x)
           b == Len(y)
<1>1. /\ Len(z) = a + b
      /\ \A i \in 1..(a + b) : z[i] = IF i <= a THEN x[i] ELSE y[i - a]
  BY ConcatProperties
<1>2. a \in Nat /\ b \in Nat /\ Len(ts) \in Nat
  OBVIOUS
<1> HIDE DEF z, a, b
<1>3. ASSUME Holds(ts, 1, z) PROVE Holds(ts, 1, x) /\ Holds(ts, a + 1, y)
  <2>1. /\ 1 + (a + b) - 1 <= Len(ts)
        /\ \A j \in 1..(a + b) : ts[1 + j - 1] = z[j]
    BY <1>1, <1>3 DEF Holds
  <2>2. 1 + a - 1 <= Len(ts) /\ (a + 1) + b - 1 <= Len(ts)
    BY <1>2, <2>1
  <2>3. ASSUME NEW j \in 1..a PROVE ts[1 + j - 1] = x[j]
    <3>1. j \in 1..(a + b) /\ j <= a
      BY <1>2
    <3> QED
      BY <1>1, <2>1, <3>1
  <2>4. ASSUME NEW j \in 1..b PROVE ts[(a + 1) + j - 1] = y[j]
    <3>1. /\ a + j \in 1..(a + b) /\ ~(a + j <= a) /\ (a + j) - a = j
          /\ 1 + (a + j) - 1 = (a + 1) + j - 1
      BY <1>2
    <3>2. ts[1 + (a + j) - 1] = z[a + j]
      BY <2>1, <3>1
    <3>3. z[a + j] = y[(a + j) - a]
      <4> DEFINE k == a + j
      <4>1. k \in 1..(a + b) /\ ~(k <= a)
        BY <3>1
      <4> HIDE DEF k
      <4>2. z[k] = y[k - a]
        BY <1>1, <4>1
      <4> QED
        BY <4>2 DEF k
    <3> QED
      BY <3>1, <3>2, <3>3
  <2> QED
    BY <2>2, <2>3, <2>4 DEF Holds, a, b
<1>4. ASSUME Holds(ts, 1, x), Holds(ts, a + 1, y) PROVE Holds(ts, 1, z)
  <2>1. /\ (a + 1) + b - 1 <= Len(ts)
        /\ \A j \in 1..a : ts[1 + j - 1] = x[j]
        /\ \A j \in 1..b : ts[(a + 1) + j - 1] = y[j]
    BY <1>4 DEF Holds, a, b
  <2>2. ASSUME NEW j \in 1..(a + b) PROVE ts[1 + j - 1] = z[j]
    <3>1. CASE j <= a
      <4>1. j \in 1..a
        BY <1>2, <3>1
      <4> QED
        BY <1>1, <2>1, <3>1, <4>1
    <3>2. CASE ~(j <= a)
      <4>1. j - a \in 1..b /\ (a + 1) + (j - a) - 1 = 1 + j - 1
        BY <1>2, <3>2
      <4>2. ts[(a + 1) + (j - a) - 1] = y[j - a]
        BY <2>1, <4>1
      <4>3. z[j] = y[j - a]
        BY <1>1, <3>2
      <4> QED
        BY <4>1, <4>2, <4>3
    <3> QED
      BY <3>1, <3>2
  <2>3. 1 + (a + b) - 1 <= Len(ts)
    BY <1>2, <2>1
  <2> QED
    BY <1>1, <2>2, <2>3 DEF Holds
<1> QED
  BY <1>1, <1>3, <1>4 DEF z, a, b

LEMMA PieceBegins ==
  ASSUME NEW ts \in Seq(Token), NEW i \in Nat \ {0}, NEW p \in Piece, Holds(ts, i, PieceText(p)),
         p.opens \/ (IsConstant(p) /\ ReadableConstant(p.entry))
  PROVE  BeginsNext(ts, i) /\ i <= Len(ts)
<1>1. Len(ts) \in Nat /\ p.kw \in Keywords /\ p.entry \in Constants
  BY DEF Piece
<1>2. CASE p.opens
  <2>1. PieceText(p) = <<p.kw>> /\ Len(<<p.kw>>) = 1 /\ 1 \in 1..1 /\ <<p.kw>>[1] = p.kw
    BY <1>2 DEF PieceText
  <2>2. i + 1 - 1 <= Len(ts) /\ ts[i + 1 - 1] = p.kw
    BY <2>1 DEF Holds
  <2>3. i + 1 - 1 = i
    OBVIOUS
  <2>4. Looking(ts, i, Keywords)
    BY <1>1, <2>2, <2>3 DEF Looking
  <2> QED
    BY <2>4 DEF BeginsNext, Looking
<1>3. CASE IsConstant(p) /\ ReadableConstant(p.entry)
  <2> DEFINE k == p.entry
  <2>1. Holds(ts, i, ConstantText(k))
    BY <1>3 DEF IsConstant, PieceText
  <2>2. Len(k.name) = 1 /\ k.name[1] \in Idents
    BY <1>3 DEF ReadableConstant, Idents
  <2>3. /\ i + 1 <= Len(ts) /\ ts[i] = k.name[1] /\ ts[i + 1] \in {"=", "<-"}
    BY <1>1, <2>1, <2>2, ConstantStands
  <2> QED
    BY <1>1, <2>2, <2>3 DEF BeginsNext, Looking
<1> QED
  BY <1>2, <1>3

\* The conditions under which the loop comes to the place after the pieces.
Passes(ts, s) ==
  /\ Chained(s) /\ Holds(ts, 1, TextOf(s))
  /\ \A i \in 1..Len(s) : Clear(s[i], i = Len(s) /\ Len(TextOf(s)) = Len(ts))
  /\ s # <<>> /\ IsConstant(s[Len(s)]) =>
       Len(TextOf(s)) = Len(ts) \/ BeginsNext(ts, Len(TextOf(s)) + 1)

LEMMA ClearMore ==
  ASSUME NEW p, NEW b \in BOOLEAN, NEW d \in BOOLEAN, Clear(p, b), b => d PROVE Clear(p, d)
BY DEF Clear

LEMMA PassesLast ==
  ASSUME NEW ts \in Seq(Token), NEW s \in Seq(Piece), NEW e \in Piece, Passes(ts, Append(s, e))
  PROVE  /\ Passes(ts, s) /\ Holds(ts, Len(TextOf(s)) + 1, PieceText(e))
         /\ e.opens \/ SectionAfter(s) = SectionOf(e.kw)
         /\ Clear(e, Len(TextOf(s)) + 1 + Len(PieceText(e)) = Len(ts) + 1)
         /\ IsConstant(e) => \/ Len(TextOf(s)) + 1 + Len(PieceText(e)) = Len(ts) + 1
                             \/ BeginsNext(ts, Len(TextOf(s)) + 1 + Len(PieceText(e)))
<1> DEFINE M == Append(s, e)
           N == Len(s)
           x == TextOf(s)
           y == PieceText(e)
<1>1. /\ M \in Seq(Piece) /\ Len(M) = N + 1 /\ N \in Nat /\ M[N + 1] = e /\ M # <<>>
      /\ \A n \in 1..N : M[n] = s[n]
  BY AppendProperties
<1>2. TextOf(M) = x \o y
  BY TextOneMore
<1>3. x \in Seq(Token) /\ y \in Seq(Token) /\ Len(x) \in Nat /\ Len(y) \in Nat /\ Len(ts) \in Nat
  BY TextType, PieceTextType
<1>4. /\ Chained(M) /\ Holds(ts, 1, x \o y)
      /\ \A i \in 1..(N + 1) : Clear(M[i], i = N + 1 /\ Len(x \o y) = Len(ts))
      /\ IsConstant(e) => Len(x \o y) = Len(ts) \/ BeginsNext(ts, Len(x \o y) + 1)
  <2>1. Passes(ts, M)
    OBVIOUS
  <2> HIDE DEF M
  <2> QED
    BY <1>1, <1>2, <2>1 DEF Passes
<1> HIDE DEF M, x, y, N
<1>5. Holds(ts, 1, x) /\ Holds(ts, Len(x) + 1, y) /\ Len(x \o y) = Len(x) + Len(y)
  BY <1>3, <1>4, HoldsConcat
<1>6. N + 1 \in 1..(N + 1) /\ \A i \in 1..N : i \in 1..(N + 1) /\ i # N + 1
  BY <1>1
<1>7. Clear(e, Len(x) + 1 + Len(y) = Len(ts) + 1)
  <2>1. Clear(e, N + 1 = N + 1 /\ Len(x \o y) = Len(ts))
    BY <1>1, <1>4, <1>6
  <2>2. (N + 1 = N + 1 /\ Len(x \o y) = Len(ts)) => Len(x) + 1 + Len(y) = Len(ts) + 1
    <3> DEFINE l == Len(x \o y)
    <3>1. l = Len(x) + Len(y)
      BY <1>5
    <3> HIDE DEF l
    <3>2. l = Len(ts) => Len(x) + 1 + Len(y) = Len(ts) + 1
      BY <1>3, <3>1
    <3> QED
      BY <3>2 DEF l
  <2> QED
    BY <2>1, <2>2, ClearMore
<1>8. IsConstant(e) => \/ Len(x) + 1 + Len(y) = Len(ts) + 1
                       \/ BeginsNext(ts, Len(x) + 1 + Len(y))
  <2>1. Len(x) + Len(y) + 1 = Len(x) + 1 + Len(y)
    BY <1>3
  <2> QED
    BY <1>3, <1>4, <1>5, <2>1
<1>9. Chained(s)
  <2>1. ASSUME NEW i \in 1..N, ~s[i].opens PROVE i - 1 \in 1..N /\ s[i - 1].kw = s[i].kw
    <3>1. i \in 1..(N + 1) /\ ~M[i].opens
      BY <1>1, <1>6, <2>1
    <3>2. i - 1 \in 1..(N + 1) /\ M[i - 1].kw = M[i].kw
      BY <1>1, <1>4, <3>1 DEF Chained
    <3>3. i - 1 \in 1..N
      BY <1>1, <3>2
    <3> QED
      BY <1>1, <3>2, <3>3
  <2> QED
    BY <2>1 DEF Chained, N
<1>10. ~e.opens => s # <<>> /\ s[N].kw = e.kw
  <2> HAVE ~e.opens
  <2>1. N + 1 - 1 \in 1..(N + 1) /\ M[N + 1 - 1].kw = M[N + 1].kw
    BY <1>1, <1>4, <1>6 DEF Chained
  <2>2. N + 1 - 1 = N /\ N \in 1..N
    BY <1>1, <2>1
  <2>3. s # <<>>
    BY <2>2 DEF N
  <2> QED
    BY <1>1, <2>1, <2>2, <2>3
<1>11. e.opens \/ SectionAfter(s) = SectionOf(e.kw)
  BY <1>10 DEF SectionAfter, N
<1>12. ASSUME NEW i \in 1..N PROVE Clear(s[i], i = N /\ Len(x) = Len(ts))
  <2>1. Clear(s[i], i = N + 1 /\ Len(x \o y) = Len(ts))
    BY <1>1, <1>4, <1>6
  <2>2. (i = N + 1 /\ Len(x \o y) = Len(ts)) => (i = N /\ Len(x) = Len(ts))
    BY <1>6
  <2> QED
    BY <2>1, <2>2, ClearMore
<1>13. ASSUME s # <<>>, IsConstant(s[N]) PROVE BeginsNext(ts, Len(x) + 1)
  <2>1. e.opens \/ (IsConstant(e) /\ ReadableConstant(e.entry))
    <3>1. CASE ~e.opens
      <4>1. IsConstant(e)
        BY <1>10, <1>13, <3>1 DEF IsConstant
      <4>2. ReadableConstant(e.entry)
        BY <1>7, <4>1, SectionKinds DEF Clear, IsConstant
      <4> QED
        BY <4>1, <4>2
    <3> QED
      BY <3>1
  <2>2. Len(x) + 1 \in Nat \ {0} /\ Holds(ts, Len(x) + 1, PieceText(e))
    BY <1>3, <1>5 DEF y
  <2> QED
    BY <2>1, <2>2, PieceBegins
<1>14. Passes(ts, s)
  BY <1>5, <1>9, <1>12, <1>13 DEF Passes, N, x
<1> QED
  BY <1>5, <1>7, <1>8, <1>11, <1>14 DEF x, y

LEMMA PiecesAreRead ==
  ASSUME NEW ts \in Seq(Token), NEW s \in Seq(Piece), Passes(ts, s)
  PROVE  At(ts, Here(Len(TextOf(s)) + 1, SectionAfter(s), MeaningOf(s)))
<1> DEFINE Done(r) == At(ts, Here(Len(TextOf(r)) + 1, SectionAfter(r), MeaningOf(r)))
           T == {r \in Seq(Piece) : Passes(ts, r) => Done(r)}
<1>1. <<>> \in T
  <2>1. Len(TextOf(<<>>)) = 0 /\ SectionAfter(<<>>) = "none" /\ MeaningOf(<<>>) = NoConfig
    BY TextNothing, MeaningNothing DEF SectionAfter
  <2>2. Here(Len(TextOf(<<>>)) + 1, SectionAfter(<<>>), MeaningOf(<<>>)) = Begin
    BY <2>1 DEF Here, Begin
  <2>3. Done(<<>>)
    BY <2>2, AtBegin
  <2> QED
    BY <2>3
<1>2. ASSUME NEW r \in Seq(Piece), NEW e \in Piece, r \in T PROVE Append(r, e) \in T
  <2>1. SUFFICES ASSUME Passes(ts, Append(r, e)) PROVE Done(Append(r, e))
    BY AppendProperties
  <2> DEFINE i == Len(TextOf(r)) + 1
             y == PieceText(e)
  <2>2. /\ Passes(ts, r) /\ Holds(ts, i, y)
        /\ e.opens \/ SectionAfter(r) = SectionOf(e.kw)
        /\ Clear(e, i + Len(y) = Len(ts) + 1)
        /\ IsConstant(e) => i + Len(y) = Len(ts) + 1 \/ BeginsNext(ts, i + Len(y))
    BY <2>1, PassesLast
  <2>3. At(ts, Here(i, SectionAfter(r), MeaningOf(r)))
    <3>1. Done(r)
      <4>1. r \in {q \in Seq(Piece) : Passes(ts, q) => Done(q)}
        BY <1>2
      <4> HIDE DEF Done, T
      <4> QED
        BY <2>2, <4>1, Zenon
    <3> QED
      BY <3>1
  <2>4. TextOf(r) \in Seq(Token) /\ y \in Seq(Token) /\ MeaningOf(r) \in Config
    BY TextType, PieceTextType, MeaningType
  <2>5. i \in Nat \ {0}
    BY <2>4
  <2> HIDE DEF i, y, T
  <2>6. At(ts, Here(i + Len(y), SectionOf(e.kw), Said(MeaningOf(r), e)))
    <3> DEFINE sec == SectionAfter(r)
               c == MeaningOf(r)
    <3>1. c \in Config /\ i \in Nat \ {0} /\ At(ts, Here(i, sec, c))
      BY <2>3, <2>4, <2>5
    <3>2. /\ Holds(ts, i, PieceText(e))
          /\ e.opens \/ sec = SectionOf(e.kw)
          /\ Clear(e, i + Len(PieceText(e)) = Len(ts) + 1)
          /\ IsConstant(e) => \/ i + Len(PieceText(e)) = Len(ts) + 1
                              \/ BeginsNext(ts, i + Len(PieceText(e)))
      BY <2>2 DEF y
    <3> HIDE DEF sec, c
    <3> DEFINE b == i + Len(PieceText(e)) = Len(ts) + 1
    <3>3. b \in BOOLEAN /\ Clear(e, b) /\ (b => i + Len(PieceText(e)) = Len(ts) + 1)
      BY <3>2
    <3> HIDE DEF b
    <3>4. At(ts, Here(i + Len(PieceText(e)), SectionOf(e.kw), Said(c, e)))
      BY <3>1, <3>2, <3>3, PieceIsRead
    <3> QED
      BY <3>4 DEF y, c
  <2>7. i + Len(y) = Len(TextOf(Append(r, e))) + 1
    <3>1. TextOf(Append(r, e)) = TextOf(r) \o y
      BY TextOneMore DEF y
    <3>2. Len(TextOf(r) \o y) = Len(TextOf(r)) + Len(y)
      BY <2>4, ConcatProperties
    <3>3. Len(TextOf(r)) \in Nat /\ Len(y) \in Nat
      BY <2>4
    <3> HIDE DEF Done
    <3> QED
      BY <3>1, <3>2, <3>3 DEF i
  <2>8. SectionAfter(Append(r, e)) = SectionOf(e.kw)
    <3>1. Append(r, e) # <<>> /\ Append(r, e)[Len(Append(r, e))] = e
      BY AppendProperties
    <3> QED
      BY <3>1 DEF SectionAfter
  <2>9. MeaningOf(Append(r, e)) = Said(MeaningOf(r), e)
    BY MeaningOneMore
  <2> QED
    BY <2>6, <2>7, <2>8, <2>9
<1> HIDE DEF T
<1>3. s \in T
  BY <1>1, <1>2, ByLastElement
<1> QED
  BY <1>3 DEF T

LEMMA AllIsRead ==
  ASSUME NEW s \in Seq(Piece), Chained(s), \A i \in 1..Len(s) : Clear(s[i], i = Len(s))
  PROVE  Parse(TextOf(s)) = MeaningOf(s)
<1> DEFINE ts == TextOf(s)
<1>1. ts \in Seq(Token) /\ Len(ts) \in Nat
  BY TextType
<1> HIDE DEF ts
<1>2. Holds(ts, 1, ts)
  <2>1. \A j \in 1..Len(ts) : 1 + j - 1 = j
    OBVIOUS
  <2>2. 1 + Len(ts) - 1 <= Len(ts)
    BY <1>1
  <2> QED
    BY <2>1, <2>2 DEF Holds
<1>3. ASSUME NEW i \in 1..Len(s) PROVE Clear(s[i], i = Len(s) /\ Len(TextOf(s)) = Len(ts))
  <2>1. Clear(s[i], i = Len(s))
    OBVIOUS
  <2>2. (i = Len(s)) => (i = Len(s) /\ Len(TextOf(s)) = Len(ts))
    BY DEF ts
  <2> QED
    BY <2>1, <2>2, ClearMore
<1>4. Passes(ts, s)
  BY <1>2, <1>3 DEF Passes, ts
<1>5. At(ts, Here(Len(ts) + 1, SectionAfter(s), MeaningOf(s)))
  BY <1>1, <1>4, PiecesAreRead DEF ts
<1> DEFINE at == Here(Len(ts) + 1, SectionAfter(s), MeaningOf(s))
<1>6. at.i > Len(ts) /\ at.c = MeaningOf(s)
  BY <1>1 DEF Here
<1> HIDE DEF at
<1>7. Parse(ts) = at.c
  BY <1>1, <1>5, <1>6, AtEnd DEF at
<1> QED
  BY <1>6, <1>7 DEF ts
-----------------------------------------------------------------------------
(***************************************************************************)
(* What a person writes.                                                   *)
(***************************************************************************)
WrittenInPieces == written \in Seq(Piece) /\ Chained(written)

LEMMA ChainedOneMore ==
  ASSUME NEW s \in Seq(Piece), Chained(s), NEW e \in Piece,
         ~e.opens => s # <<>> /\ s[Len(s)].kw = e.kw
  PROVE  Append(s, e) \in Seq(Piece) /\ Chained(Append(s, e))
<1> DEFINE M == Append(s, e)
           N == Len(s)
<1>1. /\ M \in Seq(Piece) /\ Len(M) = N + 1 /\ N \in Nat /\ M[N + 1] = e
      /\ \A n \in 1..N : M[n] = s[n]
  BY AppendProperties
<1>2. ~e.opens => N \in 1..N /\ s[N].kw = e.kw
  BY DEF N
<1> HIDE DEF M, N
<1>3. ASSUME NEW i \in 1..(N + 1), ~M[i].opens PROVE i - 1 \in 1..(N + 1) /\ M[i - 1].kw = M[i].kw
  <2>1. CASE i = N + 1
    <3>1. N \in 1..N /\ s[N].kw = e.kw /\ i - 1 = N
      BY <1>1, <1>2, <1>3, <2>1
    <3>2. N \in 1..(N + 1) /\ M[N] = s[N]
      BY <1>1, <3>1
    <3> QED
      BY <1>1, <2>1, <3>1, <3>2
  <2>2. CASE i \in 1..N
    <3>1. ~s[i].opens
      BY <1>1, <1>3, <2>2
    <3>2. i - 1 \in 1..N /\ s[i - 1].kw = s[i].kw
      BY <2>2, <3>1 DEF Chained, N
    <3>3. i - 1 \in 1..(N + 1)
      BY <1>1, <3>2
    <3> QED
      BY <1>1, <2>2, <3>2, <3>3
  <2> QED
    BY <1>1, <2>1, <2>2
<1> QED
  BY <1>1, <1>3 DEF M, Chained

LEMMA KeywordType == \A kw \in Keywords : Keyword(kw) \in Piece /\ Keyword(kw).opens
<1>1. <<>> \in Seq(Token)
  OBVIOUS
<1>2. Name(<<>>) \in Constants
  BY <1>1, NameType
<1> QED
  BY <1>2 DEF Keyword, Piece

LEMMA EntryType ==
  ASSUME NEW kw \in Keywords, NEW e \in Constants,
         SectionOf(kw) = "CHECK_DEADLOCK" => e \in Flags
  PROVE  /\ Entry(kw, e) \in Piece /\ ~Entry(kw, e).opens
         /\ Entry(kw, e).kw = kw /\ Entry(kw, e).entry = e
BY DEF Entry, Piece

LEMMA EntriesType ==
  ASSUME NEW kw \in Keywords, NEW e \in EntriesOf(SectionOf(kw))
  PROVE  e \in Constants /\ (SectionOf(kw) = "CHECK_DEADLOCK" => e \in Flags)
<1> DEFINE s == SectionOf(kw)
<1>1. /\ <<>> \in Seq(Token) /\ <<"3">> \in Seq(Token) /\ <<"a">> \in Seq(Token)
      /\ NameTexts \subseteq Seq(Token) /\ ValueTexts \subseteq Seq(Token)
  <2>1. "3" \in Token /\ "a" \in Token
    BY ConfigFileAssumption DEF Token, Closes
  <2>2. <<"3">> \in Seq(Token) /\ <<"a">> \in Seq(Token)
    BY <2>1
  <2> QED
    BY <2>2, ConfigFileAssumption
<1>2. CASE s = "CONSTANT"
  <2>1. EntriesOf(s) = {Constant(<<"a">>, v, <<>>) : v \in ValueTexts}
                       \cup {Constant(<<"a">>, v, r) : v \in {<<>>, <<"3">>}, r \in NameTexts}
                       \cup {Constant(n, <<"3">>, <<>>) : n \in NameTexts}
    BY <1>2 DEF EntriesOf
  <2>2. \A n, v, r \in Seq(Token) : Constant(n, v, r) \in Constants
    BY DEF Constant, Constants
  <2>3. \A v \in ValueTexts : Constant(<<"a">>, v, <<>>) \in Constants
    BY <1>1, <2>2
  <2>4. \A v \in {<<>>, <<"3">>}, r \in NameTexts : Constant(<<"a">>, v, r) \in Constants
    BY <1>1, <2>2
  <2>5. \A n \in NameTexts : Constant(n, <<"3">>, <<>>) \in Constants
    BY <1>1, <2>2
  <2>6. e \in Constants
    BY <2>1, <2>3, <2>4, <2>5
  <2> QED
    BY <1>2, <2>6
<1>3. CASE s = "CHECK_DEADLOCK"
  <2>1. EntriesOf(s) = {Name(<<b>>) : b \in {"TRUE", "FALSE"}}
    BY <1>3 DEF EntriesOf
  <2>2. e \in Flags
    BY <2>1 DEF Flags
  <2> QED
    BY <2>2, FlagType
<1>4. CASE s # "CONSTANT" /\ s # "CHECK_DEADLOCK"
  <2>1. EntriesOf(s) = {Name(n) : n \in NameTexts}
    BY <1>4 DEF EntriesOf
  <2>2. e \in Constants
    BY <1>1, <2>1, NameType
  <2> QED
    BY <1>4, <2>2
<1> QED
  BY <1>2, <1>3, <1>4

LEMMA LastPiece == \A s \in Seq(Piece) : s # <<>> => Last(s) = s[Len(s)] /\ Last(s) \in Piece
BY DEF Last

\* Every entry that Open and Write put down stands in the section of its
\* keyword, and is one of the kind that this section takes.
THEOREM EntriesStandInSections == Spec => []WrittenInPieces
<1>1. Init => WrittenInPieces
  BY DEF Init, WrittenInPieces, Chained
<1>2. WrittenInPieces /\ [Next]_written => WrittenInPieces'
  <2> SUFFICES ASSUME WrittenInPieces, [Next]_written PROVE WrittenInPieces'
    OBVIOUS
  <2> USE DEF WrittenInPieces
  <2>1. CASE Open
    <3>1. PICK kw \in Spellings : written' = Append(written, Keyword(kw))
      BY <2>1 DEF Open
    <3>2. kw \in Keywords
      BY ConfigFileAssumption
    <3> DEFINE e == Keyword(kw)
    <3>3. e \in Piece /\ e.opens
      BY <3>2, KeywordType
    <3> HIDE DEF e
    <3>4. Append(written, e) \in Seq(Piece) /\ Chained(Append(written, e))
      BY <3>3, ChainedOneMore
    <3> QED
      BY <3>1, <3>4 DEF e
  <2>2. CASE Write
    <3> DEFINE kw == Last(written).kw
    <3>1. PICK k \in EntriesOf(SectionOf(kw)) : written' = Append(written, Entry(kw, k))
      BY <2>2 DEF Write
    <3>2. written # <<>> /\ kw = written[Len(written)].kw /\ kw \in Keywords
      <4>1. written # <<>>
        BY <2>2 DEF Write
      <4>2. Last(written) = written[Len(written)] /\ Last(written) \in Piece
        BY <4>1, LastPiece
      <4> QED
        BY <4>1, <4>2 DEF Piece
    <3> HIDE DEF kw
    <3> DEFINE e == Entry(kw, k)
    <3>3. e \in Piece /\ ~e.opens /\ e.kw = kw
      BY <3>2, EntriesType, EntryType
    <3> HIDE DEF e
    <3>4. Append(written, e) \in Seq(Piece) /\ Chained(Append(written, e))
      BY <3>2, <3>3, ChainedOneMore
    <3> QED
      BY <3>1, <3>4 DEF e
  <2>3. CASE UNCHANGED written
    BY <2>3 DEF Chained
  <2> QED
    BY <2>1, <2>2, <2>3 DEF Next
<1> QED
  BY <1>1, <1>2, PTL DEF Spec

\* Whatever the order and the number of the sections, the spelling of their
\* keywords and the values of the constants, parse finds every border
\* between two entries and between two sections.
THEOREM BordersAreFound == Spec => []EveryEntryIsRead
<1>1. WrittenInPieces => EveryEntryIsRead
  <2> SUFFICES ASSUME WrittenInPieces, \A i \in DOMAIN written : Readable(written[i])
               PROVE  Parse(TextOf(written)) = MeaningOf(written)
    BY DEF EveryEntryIsRead, Meaning
  <2>1. written \in Seq(Piece) /\ Chained(written) /\ DOMAIN written = 1..Len(written)
    BY DEF WrittenInPieces
  <2>2. ASSUME NEW i \in 1..Len(written) PROVE Clear(written[i], i = Len(written))
    <3>1. Readable(written[i])
      BY <2>1
    <3> QED
      BY <3>1 DEF Readable, Clear
  <2> QED
    BY <2>1, <2>2, AllIsRead
<1> QED
  BY <1>1, EntriesStandInSections, PTL
-----------------------------------------------------------------------------
(***************************************************************************)
(* What is written for a configuration: the pieces of Lines, and what they *)
(* mean.                                                                   *)
(***************************************************************************)
\* Of the sections in D, m says what c does, and of the others nothing.
Says(c, m, D) ==
  /\ \A s \in Singles : m.one[s] = IF s \in D THEN c.one[s] ELSE <<>>
  /\ \A s \in Lists : m.many[s] = IF s \in D THEN c.many[s] ELSE <<>>
  /\ m.constants = IF "CONSTANT" \in D THEN c.constants ELSE <<>>
  /\ m.deadlock = IF "CHECK_DEADLOCK" \in D THEN c.deadlock ELSE "unset"

\* The i-th piece, when the first constant is the one after the b-th.
Part(c, b, i, p) ==
  LET s == SectionOf(p.kw)
      t == p.entry.name
  IN  \/ p.opens
      \/ s \in Singles /\ t = c.one[s] /\ t # <<>>
      \/ s \in Lists /\ \E j \in 1..Len(c.many[s]) : t = c.many[s][j]
      \/ s = "CONSTANT" /\ i - b \in 1..Len(c.constants) /\ p.entry = c.constants[i - b]
      \/ s = "CHECK_DEADLOCK"

Made(c, b, a) == /\ a \in Seq(Piece) /\ Chained(a)
                 /\ \A i \in 1..Len(a) : Part(c, b, i, a[i])

LEMMA SaysOne ==
  ASSUME NEW c \in Config, NEW m \in Config, NEW D, Says(c, m, D), NEW s \in Singles \ D
  PROVE  Says(c, WithOne(m, s, c.one[s]), D \cup {s})
<1> DEFINE n == WithOne(m, s, c.one[s])
<1>1. c.one[s] \in Seq(Token) /\ m.one \in [Singles -> Seq(Token)]
  BY DEF Config
<1>2. /\ n.one = [m.one EXCEPT ![s] = c.one[s]] /\ n.many = m.many
      /\ n.constants = m.constants /\ n.deadlock = m.deadlock
  BY <1>1, OneChanges
<1>3. \A x \in Lists \cup {"CONSTANT", "CHECK_DEADLOCK"} : x \in D \cup {s} <=> x \in D
  BY SectionKinds
<1> HIDE DEF n
<1>4. ASSUME NEW x \in Singles PROVE n.one[x] = IF x \in D \cup {s} THEN c.one[x] ELSE <<>>
  <2>1. n.one[x] = IF x = s THEN c.one[s] ELSE m.one[x]
    BY <1>1, <1>2
  <2> QED
    BY <2>1 DEF Says
<1> QED
  BY <1>2, <1>3, <1>4 DEF Says, n

LEMMA SaysMany ==
  ASSUME NEW c \in Config, NEW m \in Config, NEW D, Says(c, m, D), NEW s \in Lists \ D,
         NEW n, n.many = [m.many EXCEPT ![s] = c.many[s]], n.one = m.one,
         n.constants = m.constants, n.deadlock = m.deadlock
  PROVE  Says(c, n, D \cup {s})
<1>1. m.many \in [Lists -> Seq(Seq(Token))]
  BY DEF Config
<1>2. \A x \in Singles \cup {"CONSTANT", "CHECK_DEADLOCK"} : x \in D \cup {s} <=> x \in D
  BY SectionKinds
<1>3. ASSUME NEW x \in Lists PROVE n.many[x] = IF x \in D \cup {s} THEN c.many[x] ELSE <<>>
  <2>1. n.many[x] = IF x = s THEN c.many[s] ELSE m.many[x]
    BY <1>1
  <2> QED
    BY <2>1 DEF Says
<1> QED
  BY <1>2, <1>3 DEF Says

LEMMA SaysAll ==
  ASSUME NEW c \in Config, NEW m \in Config, Says(c, m, Sections) PROVE m = c
<1>1. /\ m.constants = c.constants /\ m.deadlock = c.deadlock
      /\ \A s \in Singles : m.one[s] = c.one[s]
      /\ \A s \in Lists : m.many[s] = c.many[s]
  BY SectionKinds DEF Says
<1>2. m.one = c.one
  BY <1>1 DEF Config
<1>3. m.many = c.many
  BY <1>1 DEF Config
<1> QED
  BY <1>1, <1>2, <1>3 DEF Config

LEMMA MadeOneMore ==
  ASSUME NEW c, NEW b, NEW a, Made(c, b, a), NEW e \in Piece, Part(c, b, Len(a) + 1, e),
         ~e.opens => a # <<>> /\ a[Len(a)].kw = e.kw
  PROVE  Made(c, b, Append(a, e)) /\ MeaningOf(Append(a, e)) = Said(MeaningOf(a), e)
<1>1. a \in Seq(Piece) /\ Chained(a) /\ Len(a) \in Nat
  BY DEF Made
<1>2. Append(a, e) \in Seq(Piece) /\ Chained(Append(a, e))
  BY <1>1, ChainedOneMore
<1>3. /\ Len(Append(a, e)) = Len(a) + 1 /\ Append(a, e)[Len(a) + 1] = e
      /\ \A i \in 1..Len(a) : Append(a, e)[i] = a[i]
  BY <1>1, AppendProperties
<1>4. MeaningOf(Append(a, e)) = Said(MeaningOf(a), e)
  BY <1>1, MeaningOneMore
<1> DEFINE M == Append(a, e)
<1> HIDE DEF M
<1>5. ASSUME NEW i \in 1..(Len(a) + 1) PROVE Part(c, b, i, M[i])
  <2>1. i \in 1..Len(a) \/ i = Len(a) + 1
    BY <1>1
  <2> QED
    BY <1>3, <2>1 DEF M, Made
<1> QED
  BY <1>2, <1>3, <1>4, <1>5 DEF M, Made

LEMMA MadeTwoMore ==
  ASSUME NEW c \in Config, NEW b, NEW a, Made(c, b, a), NEW s \in Sections, NEW k \in Constants,
         s = "CHECK_DEADLOCK" => k \in Flags, \A i : Part(c, b, i, Entry(s, k))
  PROVE  LET M == a \o <<Keyword(s), Entry(s, k)>>
         IN  Made(c, b, M) /\ MeaningOf(M) = Said(MeaningOf(a), Entry(s, k))
<1> DEFINE K == Keyword(s)
           E == Entry(s, k)
           M == Append(a, K)
<1>1. s \in Keywords /\ SectionOf(s) = s
  BY SectionKinds
<1>2. K \in Piece /\ K.opens /\ K.kw = s
  BY <1>1, KeywordType DEF Keyword
<1>3. E \in Piece /\ ~E.opens /\ E.kw = s
  BY <1>1, EntryType
<1>4. a \in Seq(Piece) /\ \A i : Part(c, b, i, E)
  BY DEF Made
<1>5. <<K>> \in Seq(Piece) /\ <<K, E>> = Append(<<K>>, E) /\ a \o <<K>> = Append(a, K)
  BY <1>2, <1>3, <1>4, AppendIsConcat
<1> HIDE DEF K, E
<1>6. a \o <<K, E>> = Append(Append(a, K), E)
  <2>1. a \o Append(<<K>>, E) = Append(a \o <<K>>, E)
    BY <1>3, <1>4, <1>5, AppendConcat
  <2> QED
    BY <1>5, <2>1, Zenon
<1>7. Made(c, b, M) /\ MeaningOf(M) = Said(MeaningOf(a), K)
  <2>1. Part(c, b, Len(a) + 1, K)
    BY <1>2 DEF Part
  <2> QED
    BY <1>2, <2>1, MadeOneMore
<1>8. Said(MeaningOf(a), K) = MeaningOf(a)
  BY <1>2, SaidCases
<1>9. M # <<>> /\ M[Len(M)] = K
  BY <1>2, <1>4, AppendProperties
<1> HIDE DEF M
<1>10. Made(c, b, Append(M, E)) /\ MeaningOf(Append(M, E)) = Said(MeaningOf(M), E)
  <2>1. Part(c, b, Len(M) + 1, E)
    BY <1>4
  <2> QED
    BY <1>2, <1>3, <1>7, <1>9, <2>1, MadeOneMore
<1>11. Append(M, E) = a \o <<K, E>>
  BY <1>6 DEF M
<1> QED
  BY <1>7, <1>8, <1>10, <1>11 DEF K, E

Gives(c, b, a, D) == Made(c, b, a) /\ Says(c, MeaningOf(a), D)

LEMMA GivesType ==
  ASSUME NEW c, NEW b, NEW a, NEW D, Gives(c, b, a, D)
  PROVE  a \in Seq(Piece) /\ MeaningOf(a) \in Config
BY MeaningType DEF Gives, Made

LEMMA GivesOne ==
  ASSUME NEW c \in Config, NEW b, NEW a, NEW D, Gives(c, b, a, D), NEW s \in Singles \ D
  PROVE  Gives(c, b, a \o One(c, s), D \cup {s})
<1> DEFINE m == MeaningOf(a)
           t == c.one[s]
<1>1. a \in Seq(Piece) /\ m \in Config /\ t \in Seq(Token) /\ Made(c, b, a) /\ Says(c, m, D)
  BY GivesType DEF Gives, Config
<1>2. CASE t = <<>>
  <2>1. a \o One(c, s) = a
    BY <1>1, <1>2, ConcatEmptySeq DEF One
  <2>2. Says(c, m, D \cup {s})
    BY <1>1, <1>2, SectionKinds DEF Says
  <2> QED
    BY <1>1, <2>1, <2>2 DEF Gives
<1>3. CASE t # <<>>
  <2> DEFINE k == Name(t)
  <2>1. k \in Constants /\ k.name = t
    BY <1>1, NameType
  <2>2. s \in Sections /\ s # "CHECK_DEADLOCK" /\ s \in Keywords /\ SectionOf(s) = s
    BY SectionKinds
  <2>3. One(c, s) = <<Keyword(s), Entry(s, k)>>
    BY <1>3 DEF One
  <2> HIDE DEF k, m
  <2>4. /\ Entry(s, k) \in Piece /\ ~Entry(s, k).opens
        /\ Entry(s, k).kw = s /\ Entry(s, k).entry = k
    BY <2>1, <2>2, EntryType
  <2>5. \A i : Part(c, b, i, Entry(s, k))
    BY <1>3, <2>1, <2>2, <2>4 DEF Part
  <2>6. /\ Made(c, b, a \o <<Keyword(s), Entry(s, k)>>)
        /\ MeaningOf(a \o <<Keyword(s), Entry(s, k)>>) = Said(m, Entry(s, k))
    BY <1>1, <2>1, <2>2, <2>5, MadeTwoMore DEF m
  <2>7. Said(m, Entry(s, k)) = WithOne(m, s, t)
    BY <2>1, <2>2, <2>4, SaidCases
  <2>8. Says(c, WithOne(m, s, t), D \cup {s})
    BY <1>1, SaysOne
  <2> QED
    BY <2>3, <2>6, <2>7, <2>8 DEF Gives
<1> QED
  BY <1>2, <1>3

Pairs(s, t) == [i \in DOMAIN t |-> <<Keyword(s), Entry(s, Name(t[i]))>>]

LEMMA PairsOneMore ==
  ASSUME NEW s \in Lists, NEW t \in Seq(Seq(Token)), NEW x \in Seq(Token)
  PROVE  /\ Joined(Pairs(s, t)) \in Seq(Piece)
         /\ Joined(Pairs(s, Append(t, x))) =
              Joined(Pairs(s, t)) \o <<Keyword(s), Entry(s, Name(x))>>
<1> DEFINE two(y) == <<Keyword(s), Entry(s, Name(y))>>
           P == Pairs(s, t)
           Q == Pairs(s, Append(t, x))
<1>1. \A y \in Seq(Token) : two(y) \in Seq(Piece)
  <2>1. s \in Keywords /\ SectionOf(s) = s /\ s # "CHECK_DEADLOCK"
    BY SectionKinds
  <2>2. Keyword(s) \in Piece
    BY <2>1, KeywordType
  <2>3. \A y \in Seq(Token) : Entry(s, Name(y)) \in Piece
    BY <2>1, NameType, EntryType
  <2> QED
    BY <2>2, <2>3
<1>2. /\ Append(t, x) \in Seq(Seq(Token)) /\ Len(Append(t, x)) = Len(t) + 1 /\ Len(t) \in Nat
      /\ Append(t, x)[Len(t) + 1] = x /\ \A i \in 1..Len(t) : Append(t, x)[i] = t[i]
  BY AppendProperties
<1> HIDE DEF two
<1>3. P \in Seq(Seq(Piece)) /\ Len(P) = Len(t) /\ \A i \in 1..Len(t) : P[i] = two(t[i])
  <2>1. P = [i \in 1..Len(t) |-> two(t[i])]
    BY DEF Pairs, two
  <2>2. \A i \in 1..Len(t) : two(t[i]) \in Seq(Piece)
    BY <1>1
  <2> HIDE DEF P
  <2> QED
    BY <1>2, <2>1, <2>2
<1> DEFINE M == Append(t, x)
<1> HIDE DEF M
<1>4. Q \in Seq(Seq(Piece)) /\ Len(Q) = Len(t) + 1 /\ \A i \in 1..(Len(t) + 1) : Q[i] = two(M[i])
  <2>1. Q = [i \in 1..(Len(t) + 1) |-> two(M[i])]
    BY <1>2 DEF Pairs, two, M
  <2>2. \A i \in 1..(Len(t) + 1) : two(M[i]) \in Seq(Piece)
    BY <1>1, <1>2 DEF M
  <2> HIDE DEF Q
  <2> QED
    BY <1>2, <2>1, <2>2
<1> HIDE DEF P, Q
<1> DEFINE A == Append(P, two(x))
<1>5. /\ A \in Seq(Seq(Piece)) /\ Len(A) = Len(t) + 1 /\ A[Len(t) + 1] = two(x)
      /\ \A i \in 1..Len(t) : A[i] = P[i]
  BY <1>1, <1>3, AppendProperties
<1> HIDE DEF A
<1>6. Q = A
  <2>1. ASSUME NEW i \in 1..(Len(t) + 1) PROVE Q[i] = A[i]
    <3>1. CASE i = Len(t) + 1
      BY <1>2, <1>4, <1>5, <3>1 DEF M
    <3>2. CASE i \in 1..Len(t)
      <4>1. A[i] = two(t[i])
        BY <1>3, <1>5, <3>2
      <4>2. M[i] = t[i]
        BY <1>2, <3>2 DEF M
      <4> QED
        BY <1>4, <4>1, <4>2
    <3> QED
      BY <1>2, <3>1, <3>2
  <2> QED
    BY <1>4, <1>5, <2>1, SeqEqual
<1>7. Joined(P) \in Seq(Piece) /\ Joined(A) = Joined(P) \o two(x)
  BY <1>1, <1>3, JoinedType, JoinedOneMore DEF A
<1> QED
  BY <1>6, <1>7 DEF P, Q, two

LEMMA GivesEach ==
  ASSUME NEW c \in Config, NEW b, NEW a, NEW D, Gives(c, b, a, D), NEW s \in Lists \ D
  PROVE  Gives(c, b, a \o Each(c, s), D \cup {s})
<1> DEFINE m == MeaningOf(a)
           l == c.many[s]
           X == {l[j] : j \in 1..Len(l)}
           Is(n, t) == /\ n \in Config /\ n.many = [m.many EXCEPT ![s] = t]
                       /\ n.one = m.one /\ n.constants = m.constants /\ n.deadlock = m.deadlock
           J(t) == a \o Joined(Pairs(s, t))
           T == {t \in Seq(X) : Made(c, b, J(t)) /\ Is(MeaningOf(J(t)), t)}
<1>1. /\ a \in Seq(Piece) /\ m \in Config /\ Made(c, b, a) /\ Says(c, m, D)
      /\ m.many \in [Lists -> Seq(Seq(Token))] /\ l \in Seq(Seq(Token))
  BY GivesType DEF Gives, Config
<1>2. m.many[s] = <<>>
  BY <1>1 DEF Says
<1>3. X \subseteq Seq(Token) /\ l \in Seq(X) /\ \A t \in Seq(X) : t \in Seq(Seq(Token))
  <2>1. l \in [1..Len(l) -> X] /\ Len(l) \in Nat
    BY <1>1
  <2>2. X \subseteq Seq(Token)
    BY <1>1
  <2> HIDE DEF X, l
  <2>3. l \in Seq(X)
    BY <2>1
  <2> QED
    BY <2>2, <2>3
<1> HIDE DEF l, m
<1>4. <<>> \in T
  <2>1. Pairs(s, <<>>) = <<>>
    BY DEF Pairs
  <2>2. a \o Joined(Pairs(s, <<>>)) = a
    BY <1>1, <2>1, JoinedNothing, ConcatEmptySeq
  <2>3. [m.many EXCEPT ![s] = <<>>] = m.many
    BY <1>1, <1>2
  <2>4. Is(m, <<>>)
    BY <1>1, <2>3
  <2> HIDE DEF Is
  <2>5. Made(c, b, J(<<>>)) /\ Is(MeaningOf(J(<<>>)), <<>>)
    BY <1>1, <2>2, <2>4 DEF m
  <2>6. <<>> \in Seq(X)
    OBVIOUS
  <2> QED
    BY <2>5, <2>6
<1>5. ASSUME NEW t \in Seq(X), NEW x \in X, t \in T PROVE Append(t, x) \in T
  <2> DEFINE k == Name(x)
             n == MeaningOf(J(t))
             E == Entry(s, k)
  <2>1. t \in Seq(Seq(Token)) /\ x \in Seq(Token) /\ k \in Constants /\ k.name = x
    BY <1>3, NameType
  <2>2. s \in Sections /\ s # "CHECK_DEADLOCK" /\ s \in Keywords /\ SectionOf(s) = s
    BY SectionKinds
  <2>3. Made(c, b, J(t)) /\ Is(n, t)
    BY <1>5
  <2> HIDE DEF k, n, J, Is
  <2>4. E \in Piece /\ ~E.opens /\ E.kw = s /\ E.entry = k
    BY <2>1, <2>2, EntryType
  <2> HIDE DEF E
  <2>5. \A i : Part(c, b, i, E)
    <3>1. \E j \in 1..Len(l) : x = l[j]
      OBVIOUS
    <3> QED
      BY <2>1, <2>2, <2>4, <3>1 DEF Part, l
  <2>6. /\ Made(c, b, J(t) \o <<Keyword(s), E>>)
        /\ MeaningOf(J(t) \o <<Keyword(s), E>>) = Said(n, E)
    <3>1. \A i : Part(c, b, i, Entry(s, k))
      BY <2>5 DEF E
    <3> QED
      BY <2>1, <2>2, <2>3, <3>1, MadeTwoMore DEF n, E
  <2>7. J(Append(t, x)) = J(t) \o <<Keyword(s), E>>
    <3> DEFINE u == Joined(Pairs(s, t))
               v == <<Keyword(s), E>>
    <3>1. u \in Seq(Piece) /\ Joined(Pairs(s, Append(t, x))) = u \o v
      BY <2>1, PairsOneMore DEF E, k
    <3>2. v \in Seq(Piece)
      BY <2>2, <2>4, KeywordType
    <3> HIDE DEF u, v
    <3>3. (a \o u) \o v = a \o (u \o v)
      <4>1. a \in Seq(Piece) /\ u \in Seq(Piece) /\ v \in Seq(Piece)
        BY <1>1, <3>1, <3>2
      <4> QED
        BY <4>1, ConcatAssociative
    <3> QED
      BY <3>1, <3>3, Zenon DEF J, u, v
  <2>8. Said(n, E) = WithMany(n, s, x) /\ n \in Config
    <3>1. Said(n, E) = WithMany(n, s, x)
      BY <2>1, <2>2, <2>4, SaidCases
    <3> QED
      BY <2>3, <3>1 DEF Is
  <2>9. Is(WithMany(n, s, x), Append(t, x))
    <3> DEFINE q == WithMany(n, s, x)
    <3>1. /\ q \in Config /\ q.many = [n.many EXCEPT ![s] = Append(n.many[s], x)]
          /\ q.one = n.one /\ q.constants = n.constants /\ q.deadlock = n.deadlock
      BY <2>1, <2>8, ManyChanges
    <3> HIDE DEF q
    <3>2. n.many = [m.many EXCEPT ![s] = t] /\ n.many[s] = t
      BY <1>1, <2>3 DEF Is
    <3> DEFINE w == Append(t, x)
    <3> HIDE DEF w
    <3>3. [[m.many EXCEPT ![s] = t] EXCEPT ![s] = w] = [m.many EXCEPT ![s] = w]
      BY <1>1
    <3>4. q.many = [m.many EXCEPT ![s] = w]
      BY <3>1, <3>2, <3>3 DEF w
    <3> QED
      BY <2>3, <3>1, <3>4 DEF Is, q, w
  <2>10. Append(t, x) \in Seq(X)
    BY AppendProperties
  <2> HIDE DEF X
  <2>11. Made(c, b, J(Append(t, x))) /\ Is(MeaningOf(J(Append(t, x))), Append(t, x))
    BY <2>6, <2>7, <2>8, <2>9
  <2> QED
    BY <2>10, <2>11
<1> HIDE DEF T, X
<1>6. l \in T
  BY <1>3, <1>4, <1>5, ByLastElement
<1>7. Made(c, b, J(l)) /\ Is(MeaningOf(J(l)), l)
  BY <1>6 DEF T
<1>8. J(l) = a \o Each(c, s)
  BY DEF Each, Pairs, l
<1> HIDE DEF J
<1> DEFINE n == MeaningOf(J(l))
<1> HIDE DEF n
<1>9. /\ n.many = [m.many EXCEPT ![s] = c.many[s]] /\ n.one = m.one
      /\ n.constants = m.constants /\ n.deadlock = m.deadlock
  BY <1>7 DEF n, l
<1>10. Says(c, n, D \cup {s})
  BY <1>1, <1>9, SaysMany
<1> QED
  BY <1>7, <1>8, <1>10 DEF Gives, n

LEMMA GivesDeadlock ==
  ASSUME NEW c \in Config, c.deadlock # "error", NEW b, NEW a, NEW D, Gives(c, b, a, D),
         "CHECK_DEADLOCK" \notin D
  PROVE  Gives(c, b, a \o Deadlock(c), D \cup {"CHECK_DEADLOCK"})
<1> DEFINE m == MeaningOf(a)
           v == c.deadlock
           s == "CHECK_DEADLOCK"
           B == D \cup {"CHECK_DEADLOCK"}
<1>1. /\ a \in Seq(Piece) /\ m \in Config /\ Made(c, b, a) /\ Says(c, m, D)
      /\ v \in {"unset", "TRUE", "FALSE"}
  BY GivesType DEF Gives, Config
<1>2. \A x \in Singles \cup Lists \cup {"CONSTANT"} : x \in B <=> x \in D
  BY SectionKinds
<1> HIDE DEF m
<1>3. ASSUME NEW n \in Config, n.one = m.one, n.many = m.many, n.constants = m.constants,
             n.deadlock = v
      PROVE  Says(c, n, B)
  BY <1>1, <1>2, <1>3 DEF Says
<1>4. CASE v = "unset"
  <2>1. a \o Deadlock(c) = a
    BY <1>1, <1>4, ConcatEmptySeq DEF Deadlock
  <2>2. m.deadlock = v
    BY <1>1, <1>4 DEF Says
  <2>3. Says(c, m, B)
    BY <1>1, <1>3, <2>2
  <2> QED
    BY <1>1, <2>1, <2>3 DEF Gives, m
<1>5. CASE v \in {"TRUE", "FALSE"}
  <2> DEFINE k == Name(<<v>>)
  <2>1. k \in Flags /\ k \in Constants /\ k.name = <<v>>
    <3>1. k \in Flags
      BY <1>5 DEF Flags
    <3>2. k.name = <<v>>
      BY DEF Name, Constant
    <3> QED
      BY <3>1, <3>2, FlagType
  <2>2. s \in Sections /\ s \in Keywords /\ SectionOf(s) = s
    BY SectionKinds
  <2>3. Deadlock(c) = <<Keyword(s), Entry(s, k)>>
    BY <1>5 DEF Deadlock
  <2> HIDE DEF k, v
  <2>4. /\ Entry(s, k) \in Piece /\ ~Entry(s, k).opens
        /\ Entry(s, k).kw = s /\ Entry(s, k).entry = k
    BY <2>1, <2>2, EntryType
  <2>5. \A i : Part(c, b, i, Entry(s, k))
    BY <2>2, <2>4 DEF Part
  <2>6. /\ Made(c, b, a \o <<Keyword(s), Entry(s, k)>>)
        /\ MeaningOf(a \o <<Keyword(s), Entry(s, k)>>) = Said(m, Entry(s, k))
    BY <1>1, <2>1, <2>2, <2>5, MadeTwoMore DEF m
  <2>7. Said(m, Entry(s, k)) = WithDeadlock(m, v)
    <3>1. Said(m, Entry(s, k)) = WithDeadlock(m, k.name[1])
      BY <2>2, <2>4, SaidCases
    <3> QED
      BY <2>1, <3>1
  <2> DEFINE n == WithDeadlock(m, v)
  <2>8. /\ n \in Config /\ n.deadlock = v
        /\ n.one = m.one /\ n.many = m.many /\ n.constants = m.constants
    BY <1>1, DeadlockChanges
  <2> HIDE DEF n
  <2>9. Says(c, n, B)
    BY <1>3, <2>8
  <2> QED
    BY <2>3, <2>6, <2>7, <2>9 DEF Gives, n
<1> QED
  BY <1>1, <1>4, <1>5

LEMMA StartOneMore ==
  ASSUME NEW S, NEW s \in Seq(S), NEW n \in 1..Len(s)
  PROVE  /\ SubSeq(s, 1, n - 1) \in Seq(S) /\ Len(SubSeq(s, 1, n - 1)) = n - 1
         /\ SubSeq(s, 1, n) = Append(SubSeq(s, 1, n - 1), s[n])
<1>1. Len(s) \in Nat /\ 1 \in 1..Len(s) /\ n \in Nat /\ \A i \in 1..(n - 1) : s[i] \in S
  OBVIOUS
<1>2. SubSeq(s, 1, n - 1) \in Seq(S) /\ Len(SubSeq(s, 1, n - 1)) = n - 1
  <2>1. n - 1 \in Int /\ 1 \in Int
    BY <1>1
  <2> DEFINE k == n - 1
  <2>2. k \in Nat
    BY <1>1
  <2> HIDE DEF k
  <2>3. \A i \in 1..k : s[i] \in S
    BY <1>1 DEF k
  <2>4. SubSeq(s, 1, k) \in Seq(S) /\ Len(SubSeq(s, 1, k)) = IF 1 <= k THEN k - 1 + 1 ELSE 0
    BY <2>2, <2>3, SubSeqProperties
  <2>5. Len(SubSeq(s, 1, k)) = k
    BY <2>2, <2>4
  <2> QED
    BY <2>4, <2>5 DEF k
<1>3. SubSeq(s, 1, n) = SubSeq(s, 1, n - 1) \o <<s[n]>>
  BY <1>1, SubSeqRecursiveSecond
<1>4. s[n] \in S
  OBVIOUS
<1> QED
  BY <1>2, <1>3, <1>4, AppendIsConcat, Zenon

Declares(t) == [i \in DOMAIN t |-> Entry("CONSTANTS", t[i])]

LEMMA DeclaresOneMore ==
  ASSUME NEW t \in Seq(Constants), NEW x \in Constants
  PROVE  /\ Declares(t) \in Seq(Piece) /\ Entry("CONSTANTS", x) \in Piece
         /\ Declares(Append(t, x)) = Append(Declares(t), Entry("CONSTANTS", x))
<1> DEFINE one(y) == Entry("CONSTANTS", y)
           M == Append(t, x)
           A == Append(Declares(t), one(x))
<1>1. \A y \in Constants : one(y) \in Piece
  <2>1. "CONSTANTS" \in Keywords /\ SectionOf("CONSTANTS") = "CONSTANT"
    BY DEF Keywords, Plurals, SectionOf
  <2> QED
    BY <2>1, EntryType
<1>2. /\ M \in Seq(Constants) /\ Len(M) = Len(t) + 1 /\ Len(t) \in Nat /\ M[Len(t) + 1] = x
      /\ \A i \in 1..Len(t) : M[i] = t[i]
  BY AppendProperties
<1> HIDE DEF M, one
<1>3. /\ Declares(t) \in Seq(Piece) /\ Len(Declares(t)) = Len(t)
      /\ \A i \in 1..Len(t) : Declares(t)[i] = one(t[i])
  <2>1. Declares(t) = [i \in 1..Len(t) |-> one(t[i])]
    BY DEF Declares, one
  <2>2. \A i \in 1..Len(t) : one(t[i]) \in Piece
    BY <1>1
  <2> QED
    BY <1>2, <2>1, <2>2
<1>4. /\ Declares(M) \in Seq(Piece) /\ Len(Declares(M)) = Len(t) + 1
      /\ \A i \in 1..(Len(t) + 1) : Declares(M)[i] = one(M[i])
  <2>1. Declares(M) = [i \in 1..(Len(t) + 1) |-> one(M[i])]
    BY <1>2 DEF Declares, one
  <2>2. \A i \in 1..(Len(t) + 1) : one(M[i]) \in Piece
    BY <1>1, <1>2
  <2> QED
    BY <1>2, <2>1, <2>2
<1>5. /\ A \in Seq(Piece) /\ Len(A) = Len(t) + 1 /\ A[Len(t) + 1] = one(x)
      /\ \A i \in 1..Len(t) : A[i] = Declares(t)[i]
  BY <1>1, <1>3, AppendProperties
<1> HIDE DEF A
<1>6. Declares(M) = A
  <2>1. ASSUME NEW i \in 1..(Len(t) + 1) PROVE Declares(M)[i] = A[i]
    <3>1. CASE i = Len(t) + 1
      BY <1>2, <1>4, <1>5, <3>1
    <3>2. CASE i \in 1..Len(t)
      <4>1. A[i] = one(t[i]) /\ M[i] = t[i]
        BY <1>2, <1>3, <1>5, <3>2
      <4> QED
        BY <1>4, <4>1
    <3> QED
      BY <1>2, <3>1, <3>2
  <2> QED
    BY <1>4, <1>5, <2>1, SeqEqual
<1>7. one(x) \in Piece
  BY <1>1
<1> QED
  BY <1>3, <1>6, <1>7 DEF M, A, one

\* The constants are the last pieces of a, from the one after the b-th.
EndsInConstants(c, b, a) ==
  c.constants # <<>> =>
    /\ Len(a) = b + Len(c.constants)
    /\ \A i \in 1..Len(c.constants) : a[b + i] = Entry("CONSTANTS", c.constants[i])

LEMMA GivesConstants ==
  ASSUME NEW c \in Config, NEW a, NEW D, NEW b, b = Len(a) + 1, Gives(c, b, a, D),
         "CONSTANT" \notin D, NEW l, l = a \o ConstantLines(c)
  PROVE  Gives(c, b, l, D \cup {"CONSTANT"}) /\ EndsInConstants(c, b, l)
<1> DEFINE m == MeaningOf(a)
           k == c.constants
           N == Len(k)
           B == D \cup {"CONSTANT"}
           K == Keyword("CONSTANTS")
           E(x) == Entry("CONSTANTS", x)
<1>1. /\ a \in Seq(Piece) /\ m \in Config /\ Made(c, b, a) /\ Says(c, m, D) /\ k \in Seq(Constants)
      /\ N \in Nat /\ Len(a) \in Nat
  BY GivesType DEF Gives, Config
<1>2. \A x \in Singles \cup Lists \cup {"CHECK_DEADLOCK"} : x \in B <=> x \in D
  BY SectionKinds
<1> HIDE DEF m, k, N
<1>3. ASSUME NEW n \in Config, n.one = m.one, n.many = m.many, n.constants = k,
             n.deadlock = m.deadlock
      PROVE  Says(c, n, B)
  BY <1>1, <1>2, <1>3 DEF Says, k
<1>4. m.constants = <<>>
  BY <1>1 DEF Says
<1>5. CASE k = <<>>
  <2>1. a \o ConstantLines(c) = a
    BY <1>1, <1>5, ConcatEmptySeq DEF ConstantLines, k
  <2>2. Says(c, m, B)
    BY <1>1, <1>3, <1>4, <1>5
  <2> QED
    BY <1>1, <1>5, <2>1, <2>2 DEF Gives, EndsInConstants, m, k
<1>6. CASE k # <<>>
  <2> DEFINE J(t) == Append(a, K) \o Declares(t)
             first(n) == SubSeq(k, 1, n)
             Is(n, M) == /\ Made(c, b, M) /\ Len(M) = b + n /\ M[b + n].kw = "CONSTANTS"
                         /\ \A i \in 1..n : M[b + i] = E(k[i])
                         /\ MeaningOf(M) \in Config /\ MeaningOf(M).constants = first(n)
                         /\ MeaningOf(M).one = m.one /\ MeaningOf(M).many = m.many
                         /\ MeaningOf(M).deadlock = m.deadlock
             T == {n \in 0..N : Is(n, J(first(n)))}
  <2>1. K \in Piece /\ K.opens /\ K.kw = "CONSTANTS"
    <3>1. "CONSTANTS" \in Keywords
      BY DEF Keywords, Plurals
    <3> QED
      BY <3>1, KeywordType DEF Keyword
  <2>2. \A x \in Constants : /\ E(x) \in Piece /\ ~E(x).opens /\ E(x).kw = "CONSTANTS"
                             /\ E(x).entry = x /\ SectionOf("CONSTANTS") = "CONSTANT"
    <3>1. "CONSTANTS" \in Keywords /\ SectionOf("CONSTANTS") = "CONSTANT"
      BY DEF Keywords, Plurals, SectionOf
    <3> QED
      BY <3>1, EntryType
  <2> HIDE DEF K, E
  <2>3. 0 \in T
    <3>1. first(0) = <<>>
      BY SubSeqEmpty
    <3>2. Declares(<<>>) = <<>>
      BY DEF Declares
    <3>3. Append(a, K) \in Seq(Piece) /\ Append(a, K) \o <<>> = Append(a, K)
      BY <1>1, <2>1, AppendProperties, ConcatEmptySeq
    <3> DEFINE M == Append(a, K)
    <3>4. Made(c, b, M) /\ MeaningOf(M) = Said(m, K)
      <4>1. Part(c, b, Len(a) + 1, K)
        BY <2>1 DEF Part
      <4> QED
        BY <1>1, <2>1, <4>1, MadeOneMore DEF m
    <3>5. Said(m, K) = m
      BY <2>1, SaidCases
    <3>6. Len(M) = b /\ M[b] = K
      BY <1>1, <2>1, AppendProperties
    <3> HIDE DEF M
    <3>7. b + 0 = b
      BY <1>1
    <3>8. Is(0, M)
      <4>1. Len(M) = b + 0 /\ M[b + 0].kw = "CONSTANTS"
        BY <2>1, <3>6, <3>7
      <4>2. \A i \in 1..0 : M[b + i] = E(k[i])
        OBVIOUS
      <4>3. MeaningOf(M) = m
        BY <3>4, <3>5
      <4>4. MeaningOf(M).constants = first(0)
        BY <1>4, <3>1, <4>3
      <4> HIDE DEF first
      <4> QED
        BY <1>1, <3>4, <4>1, <4>2, <4>3, <4>4
    <3>9. J(first(0)) = M
      BY <3>1, <3>2, <3>3 DEF M
    <3> HIDE DEF Is, J, first
    <3> QED
      BY <1>1, <3>8, <3>9
  <2>4. ASSUME NEW n \in 1..N, n - 1 \in T PROVE n \in T
    <3> DEFINE P == J(first(n - 1))
               x == k[n]
    <3>1. Is(n - 1, P)
      BY <2>4
    <3>2. n \in 0..N /\ n \in Nat /\ b \in Nat /\ b + (n - 1) + 1 = b + n
      BY <1>1
    <3>3. first(n - 1) \in Seq(Constants) /\ first(n) = Append(first(n - 1), x) /\ x \in Constants
      BY <1>1, StartOneMore DEF N
    <3> DEFINE f == first(n - 1)
               M == Append(P, E(x))
    <3> HIDE DEF first, x
    <3>4. J(first(n)) = M
      <4>1. Declares(f) \in Seq(Piece) /\ Declares(Append(f, x)) = Append(Declares(f), E(x))
        BY <3>3, DeclaresOneMore DEF E
      <4>2. Append(a, K) \in Seq(Piece)
        BY <1>1, <2>1, AppendProperties
      <4>3. E(x) \in Piece
        BY <2>2, <3>3
      <4>4. Append(a, K) \o Append(Declares(f), E(x)) = Append(Append(a, K) \o Declares(f), E(x))
        BY <4>1, <4>2, <4>3, AppendConcat
      <4> QED
        BY <3>3, <4>1, <4>4, Zenon
    <3> HIDE DEF J, f
    <3> DEFINE Q == P
    <3>5. /\ Made(c, b, Q) /\ Len(Q) = b + (n - 1) /\ Q[b + (n - 1)].kw = "CONSTANTS"
          /\ \A i \in 1..(n - 1) : Q[b + i] = E(k[i])
          /\ MeaningOf(Q) \in Config /\ MeaningOf(Q).constants = first(n - 1)
          /\ MeaningOf(Q).one = m.one /\ MeaningOf(Q).many = m.many
          /\ MeaningOf(Q).deadlock = m.deadlock
      BY <3>1
    <3> HIDE DEF Q, Is, P, T
    <3>6. Q \in Seq(Piece) /\ Q # <<>> /\ Q[Len(Q)].kw = "CONSTANTS" /\ Len(Q) + 1 = b + n
      <4>1. Q \in Seq(Piece) /\ Len(Q) + 1 = b + n
        BY <3>2, <3>5 DEF Made
      <4>2. Len(Q) # 0
        BY <1>1, <3>2, <3>5
      <4> QED
        BY <3>5, <4>1, <4>2
    <3>7. /\ E(x) \in Piece /\ ~E(x).opens /\ E(x).kw = "CONSTANTS" /\ E(x).entry = x
          /\ SectionOf("CONSTANTS") = "CONSTANT"
      BY <2>2, <3>3
    <3>8. Part(c, b, Len(Q) + 1, E(x))
      <4>1. (Len(Q) + 1) - b = n
        <5>1. \A x1, x2, x3 \in Nat : x1 = x2 + x3 => x1 - x2 = x3
          OBVIOUS
        <5>2. Len(Q) + 1 \in Nat
          BY <3>6
        <5> QED
          BY <3>2, <3>6, <5>1, <5>2, Zenon
      <4>2. n \in 1..Len(c.constants) /\ x = c.constants[n]
        BY DEF x, k, N
      <4> QED
        BY <3>7, <4>1, <4>2 DEF Part
    <3> DEFINE R == Append(Q, E(x))
    <3>9. Made(c, b, R) /\ MeaningOf(R) = Said(MeaningOf(Q), E(x))
      BY <3>5, <3>6, <3>7, <3>8, MadeOneMore
    <3> DEFINE r == MeaningOf(Q)
    <3> HIDE DEF r
    <3>10. Said(r, E(x)) = WithConstant(r, x)
      BY <3>7, SaidCases
    <3>11. LET q == WithConstant(r, x)
           IN  /\ q \in Config /\ q.constants = Append(r.constants, x)
               /\ q.one = r.one /\ q.many = r.many /\ q.deadlock = r.deadlock
      <4>1. r \in Config
        BY <3>5 DEF r
      <4> QED
        BY <3>3, <4>1, ConstantChanges
    <3>12. /\ MeaningOf(R) \in Config /\ MeaningOf(R).constants = first(n)
           /\ MeaningOf(R).one = m.one /\ MeaningOf(R).many = m.many
           /\ MeaningOf(R).deadlock = m.deadlock
      <4>1. MeaningOf(R) = WithConstant(r, x)
        BY <3>9, <3>10 DEF r
      <4>2. r.constants = first(n - 1) /\ r.one = m.one /\ r.many = m.many /\ r.deadlock = m.deadlock
        BY <3>5 DEF r
      <4> HIDE DEF R
      <4> QED
        BY <3>3, <3>11, <4>1, <4>2 DEF f
    <3>13. /\ Len(R) = b + n /\ R[b + n] = E(x)
           /\ \A i \in 1..Len(Q) : R[i] = Q[i]
      BY <3>6, <3>7, AppendProperties
    <3> HIDE DEF R
    <3>14. ASSUME NEW i \in 1..n PROVE R[b + i] = E(k[i])
      <4>1. CASE i = n
        BY <3>13, <4>1 DEF x
      <4>2. CASE i \in 1..(n - 1)
        <5>1. b + i \in 1..Len(Q)
          BY <3>2, <3>5, <4>2
        <5> QED
          BY <3>5, <3>13, <4>2, <5>1
      <4> QED
        BY <3>2, <4>1, <4>2
    <3>15. Is(n, R)
      BY <3>7, <3>9, <3>12, <3>13, <3>14 DEF Is
    <3>16. R = J(first(n))
      BY <3>4 DEF R, Q
    <3> QED
      BY <3>2, <3>15, <3>16 DEF T
  <2> HIDE DEF T
  <2>5. N \in T
    <3>1. \A n \in 0..N : n \in T
      BY <1>1, <2>3, <2>4, UpTo
    <3> QED
      BY <1>1, <3>1
  <2>6. Is(N, J(first(N)))
    BY <2>5 DEF T
  <2>7. first(N) = k
    BY <1>1, SubSeqFull DEF N
  <2>8. J(k) = a \o ConstantLines(c)
    <3>1. ConstantLines(c) = <<K>> \o Declares(k)
      BY <1>6 DEF ConstantLines, Declares, K, E, k
    <3>2. Declares(k) \in Seq(Piece) /\ <<K>> \in Seq(Piece)
      <4>1. \E x : x \in Constants
        BY <1>1, <1>6
      <4> QED
        BY <1>1, <2>1, <4>1, DeclaresOneMore
    <3>3. Append(a, K) = a \o <<K>>
      BY <1>1, <2>1, AppendIsConcat
    <3>4. (a \o <<K>>) \o Declares(k) = a \o (<<K>> \o Declares(k))
      BY <1>1, <3>2, ConcatAssociative
    <3> QED
      BY <3>1, <3>3, <3>4, Zenon
  <2>9. Is(N, l)
    BY <2>6, <2>7, <2>8
  <2> HIDE DEF J
  <2>10. Says(c, MeaningOf(l), B)
    BY <1>3, <2>7, <2>9
  <2> QED
    BY <2>9, <2>10 DEF Gives, EndsInConstants, N, E, k
<1> QED
  BY <1>5, <1>6

\* Lines, up to the constants.
First(c) == One(c, "SPECIFICATION") \o One(c, "INIT") \o One(c, "NEXT")

ThroughConstants(c) == First(c) \o ConstantLines(c)

Extends(m, l) == \E x \in Seq(Piece) : l = m \o x

LEMMA GroupTypes ==
  ASSUME NEW c \in Config, c.deadlock # "error"
  PROVE  /\ \A s \in Singles : One(c, s) \in Seq(Piece)
         /\ \A s \in Lists : Each(c, s) \in Seq(Piece)
         /\ Deadlock(c) \in Seq(Piece)
<1>1. \A s \in Sections : Keyword(s) \in Piece
  BY SectionKinds, KeywordType
<1>2. ASSUME NEW s \in Singles PROVE One(c, s) \in Seq(Piece)
  <2>1. s \in Keywords /\ SectionOf(s) = s /\ s # "CHECK_DEADLOCK" /\ s \in Sections
    BY SectionKinds
  <2>2. Name(c.one[s]) \in Constants
    BY NameType DEF Config
  <2>3. Entry(s, Name(c.one[s])) \in Piece
    BY <2>1, <2>2, EntryType
  <2> QED
    BY <1>1, <2>1, <2>3 DEF One
<1>3. ASSUME NEW s \in Lists PROVE Each(c, s) \in Seq(Piece)
  <2>1. c.many[s] \in Seq(Seq(Token)) /\ <<>> \in Seq(Token)
    BY DEF Config
  <2>2. Each(c, s) = Joined(Pairs(s, c.many[s]))
    BY DEF Each, Pairs
  <2> QED
    BY <2>1, <2>2, PairsOneMore
<1>4. Deadlock(c) \in Seq(Piece)
  <2>1. CASE c.deadlock = "unset"
    BY <2>1 DEF Deadlock
  <2>2. CASE c.deadlock \in {"TRUE", "FALSE"}
    <3> DEFINE s == "CHECK_DEADLOCK"
    <3>1. s \in Keywords /\ SectionOf(s) = s /\ s \in Sections
      BY SectionKinds
    <3>2. Name(<<c.deadlock>>) \in Flags /\ Name(<<c.deadlock>>) \in Constants
      BY <2>2, FlagType DEF Flags
    <3>3. Entry(s, Name(<<c.deadlock>>)) \in Piece
      BY <3>1, <3>2, EntryType
    <3> QED
      BY <1>1, <2>2, <3>1, <3>3 DEF Deadlock
  <2> QED
    BY <2>1, <2>2 DEF Config
<1> QED
  BY <1>2, <1>3, <1>4

LEMMA ExtendsMore ==
  ASSUME NEW m \in Seq(Piece), NEW l, Extends(m, l), NEW x \in Seq(Piece)
  PROVE  Extends(m, l \o x)
<1>1. PICK y \in Seq(Piece) : l = m \o y
  BY DEF Extends
<1> DEFINE z == y \o x
<1>2. z \in Seq(Piece)
  BY ConcatProperties
<1>3. (m \o y) \o x = m \o z
  BY ConcatAssociative
<1> HIDE DEF z
<1>4. l \o x = m \o z
  BY <1>1, <1>3, Zenon
<1> QED
  BY <1>2, <1>4 DEF Extends

LEMMA ExtendsIs ==
  ASSUME NEW m \in Seq(Piece), NEW l, Extends(m, l)
  PROVE  /\ Len(m) <= Len(l) /\ \A i \in 1..Len(m) : l[i] = m[i]
         /\ Len(m) = Len(l) => l = m
<1>1. PICK y \in Seq(Piece) : l = m \o y
  BY DEF Extends
<1>2. /\ Len(l) = Len(m) + Len(y) /\ Len(m) \in Nat /\ Len(y) \in Nat
      /\ \A i \in 1..(Len(m) + Len(y)) : l[i] = IF i <= Len(m) THEN m[i] ELSE y[i - Len(m)]
  BY <1>1, ConcatProperties
<1>3. ASSUME NEW i \in 1..Len(m) PROVE l[i] = m[i]
  <2>1. i \in 1..(Len(m) + Len(y)) /\ i <= Len(m)
    BY <1>2
  <2> QED
    BY <1>2, <2>1
<1>4. ASSUME Len(m) = Len(l) PROVE l = m
  <2>1. Len(y) = 0
    BY <1>2, <1>4
  <2>2. y = <<>>
    BY <2>1
  <2> QED
    BY <1>1, <2>2, ConcatEmptySeq
<1> QED
  BY <1>2, <1>3, <1>4

\* That nothing is written after the constants.
Closed(c) == /\ \A s \in Lists : c.many[s] = <<>>
             /\ \A s \in Singles \ {"SPECIFICATION", "INIT", "NEXT"} : c.one[s] = <<>>
             /\ c.deadlock = "unset"

LEMMA LinesAre ==
  ASSUME NEW c \in Config, c.deadlock # "error"
  PROVE  LET b == Len(First(c)) + 1
             m == ThroughConstants(c)
         IN  /\ Gives(c, b, m, {"SPECIFICATION", "INIT", "NEXT", "CONSTANT"})
             /\ Gives(c, b, Lines(c), Sections)
             /\ Extends(m, Lines(c)) /\ (Closed(c) => Lines(c) = m)
             /\ EndsInConstants(c, b, m)
<1> DEFINE b == Len(First(c)) + 1
           D1 == {"SPECIFICATION"}
           D2 == D1 \cup {"INIT"}
           D3 == D2 \cup {"NEXT"}
           D4 == D3 \cup {"CONSTANT"}
           D5 == D4 \cup {"INVARIANT"}
           D6 == D5 \cup {"PROPERTY"}
           D7 == D6 \cup {"CONSTRAINT"}
           D8 == D7 \cup {"ACTION_CONSTRAINT"}
           D9 == D8 \cup {"SYMMETRY"}
           D10 == D9 \cup {"VIEW"}
           D11 == D10 \cup {"CHECK_DEADLOCK"}
           D12 == D11 \cup {"ALIAS"}
           D13 == D12 \cup {"POSTCONDITION"}
           L1 == One(c, "SPECIFICATION")
           L2 == L1 \o One(c, "INIT")
           L3 == L2 \o One(c, "NEXT")
           L4 == L3 \o ConstantLines(c)
           L5 == L4 \o Each(c, "INVARIANT")
           L6 == L5 \o Each(c, "PROPERTY")
           L7 == L6 \o Each(c, "CONSTRAINT")
           L8 == L7 \o Each(c, "ACTION_CONSTRAINT")
           L9 == L8 \o One(c, "SYMMETRY")
           L10 == L9 \o One(c, "VIEW")
           L11 == L10 \o Deadlock(c)
           L12 == L11 \o One(c, "ALIAS")
           L13 == L12 \o One(c, "POSTCONDITION")
<1>1. L13 = Lines(c) /\ L3 = First(c) /\ L4 = ThroughConstants(c)
  BY Zenon DEF Lines, First, ThroughConstants
<1>2. /\ "SPECIFICATION" \in Singles \ {} /\ "INIT" \in Singles \ D1 /\ "NEXT" \in Singles \ D2
      /\ "CONSTANT" \notin D3 /\ "INVARIANT" \in Lists \ D4 /\ "PROPERTY" \in Lists \ D5
      /\ "CONSTRAINT" \in Lists \ D6 /\ "ACTION_CONSTRAINT" \in Lists \ D7
      /\ "SYMMETRY" \in Singles \ D8 /\ "VIEW" \in Singles \ D9 /\ "CHECK_DEADLOCK" \notin D10
      /\ "ALIAS" \in Singles \ D11 /\ "POSTCONDITION" \in Singles \ D12
  BY DEF Singles, Lists
<1>3. D13 = Sections /\ D4 = {"SPECIFICATION", "INIT", "NEXT", "CONSTANT"}
  BY DEF Sections, Singles, Lists
<1>4. Gives(c, b, <<>>, {})
  <2>1. <<>> \in Seq(Piece) /\ Len(<<>>) = 0 /\ 1..0 = {}
    OBVIOUS
  <2>2. Says(c, NoConfig, {})
    BY DEF Says, NoConfig
  <2> QED
    BY <2>1, <2>2, MeaningNothing DEF Gives, Made, Chained
<1> HIDE DEF b, D1, D2, D3, D4, D5, D6, D7, D8, D9, D10, D11, D12, D13
<1>5. Gives(c, b, L1, D1)
  <2>1. One(c, "SPECIFICATION") \in Seq(Piece)
    BY <1>2, GroupTypes
  <2>2. Gives(c, b, <<>> \o One(c, "SPECIFICATION"), {} \cup {"SPECIFICATION"})
    BY <1>2, <1>4, GivesOne
  <2>3. <<>> \o One(c, "SPECIFICATION") = L1
    BY <2>1, ConcatEmptySeq
  <2>4. {} \cup {"SPECIFICATION"} = D1
    BY DEF D1
  <2> HIDE DEF L1
  <2> QED
    BY <2>2, <2>3, <2>4, Zenon
<1> HIDE DEF L1
<1>6. Gives(c, b, L2, D2)
  BY <1>2, <1>5, GivesOne DEF D2
<1> HIDE DEF L2
<1>7. Gives(c, b, L3, D3)
  BY <1>2, <1>6, GivesOne DEF D3
<1> HIDE DEF L3
<1>8. Gives(c, b, L4, D4) /\ EndsInConstants(c, b, L4)
  <2>1. b = Len(L3) + 1
    BY <1>1 DEF b
  <2>2. L4 = L3 \o ConstantLines(c) /\ "CONSTANT" \notin D3
    BY <1>2
  <2> HIDE DEF L4
  <2> QED
    BY <1>7, <2>1, <2>2, GivesConstants DEF D4
<1> HIDE DEF L4
<1>9. Gives(c, b, L5, D5)
  BY <1>2, <1>8, GivesEach DEF D5
<1> HIDE DEF L5
<1>10. Gives(c, b, L6, D6)
  BY <1>2, <1>9, GivesEach DEF D6
<1> HIDE DEF L6
<1>11. Gives(c, b, L7, D7)
  BY <1>2, <1>10, GivesEach DEF D7
<1> HIDE DEF L7
<1>12. Gives(c, b, L8, D8)
  BY <1>2, <1>11, GivesEach DEF D8
<1> HIDE DEF L8
<1>13. Gives(c, b, L9, D9)
  BY <1>2, <1>12, GivesOne DEF D9
<1> HIDE DEF L9
<1>14. Gives(c, b, L10, D10)
  BY <1>2, <1>13, GivesOne DEF D10
<1> HIDE DEF L10
<1>15. Gives(c, b, L11, D11)
  BY <1>2, <1>14, GivesDeadlock DEF D11
<1> HIDE DEF L11
<1>16. Gives(c, b, L12, D12)
  BY <1>2, <1>15, GivesOne DEF D12
<1> HIDE DEF L12
<1>17. Gives(c, b, L13, D13)
  BY <1>2, <1>16, GivesOne DEF D13
<1> HIDE DEF L13
<1>18. L4 \in Seq(Piece)
  BY <1>8, GivesType
<1>19. /\ Each(c, "INVARIANT") \in Seq(Piece) /\ Each(c, "PROPERTY") \in Seq(Piece)
       /\ Each(c, "CONSTRAINT") \in Seq(Piece) /\ Each(c, "ACTION_CONSTRAINT") \in Seq(Piece)
       /\ One(c, "SYMMETRY") \in Seq(Piece) /\ One(c, "VIEW") \in Seq(Piece)
       /\ Deadlock(c) \in Seq(Piece)
       /\ One(c, "ALIAS") \in Seq(Piece) /\ One(c, "POSTCONDITION") \in Seq(Piece)
  BY <1>2, GroupTypes
<1>20. Extends(L4, L13)
  <2>1. Extends(L4, L4)
    <3>1. L4 \o <<>> = L4 /\ <<>> \in Seq(Piece)
      BY <1>18, ConcatEmptySeq
    <3> QED
      BY <3>1, Zenon DEF Extends
  <2>2. Extends(L4, L5)
    BY <1>18, <1>19, <2>1, ExtendsMore DEF L5
  <2>3. Extends(L4, L6)
    BY <1>18, <1>19, <2>2, ExtendsMore DEF L6
  <2>4. Extends(L4, L7)
    BY <1>18, <1>19, <2>3, ExtendsMore DEF L7
  <2>5. Extends(L4, L8)
    BY <1>18, <1>19, <2>4, ExtendsMore DEF L8
  <2>6. Extends(L4, L9)
    BY <1>18, <1>19, <2>5, ExtendsMore DEF L9
  <2>7. Extends(L4, L10)
    BY <1>18, <1>19, <2>6, ExtendsMore DEF L10
  <2>8. Extends(L4, L11)
    BY <1>18, <1>19, <2>7, ExtendsMore DEF L11
  <2>9. Extends(L4, L12)
    BY <1>18, <1>19, <2>8, ExtendsMore DEF L12
  <2> QED
    BY <1>18, <1>19, <2>9, ExtendsMore DEF L13
<1>21. ASSUME Closed(c) PROVE L13 = L4
  <2>1. ASSUME NEW s \in Lists PROVE Each(c, s) = <<>>
    <3>1. c.many[s] = <<>>
      BY <1>21 DEF Closed
    <3>2. [i \in DOMAIN c.many[s] |-> <<Keyword(s), Entry(s, Name(c.many[s][i]))>>] = <<>>
      BY <3>1
    <3> QED
      BY <3>2, JoinedNothing, Zenon DEF Each
  <2>2. /\ Each(c, "INVARIANT") = <<>> /\ Each(c, "PROPERTY") = <<>>
        /\ Each(c, "CONSTRAINT") = <<>> /\ Each(c, "ACTION_CONSTRAINT") = <<>>
    BY <1>2, <2>1
  <2>3. /\ One(c, "SYMMETRY") = <<>> /\ One(c, "VIEW") = <<>>
        /\ One(c, "ALIAS") = <<>> /\ One(c, "POSTCONDITION") = <<>>
    BY <1>2, <1>21 DEF Closed, One
  <2>4. Deadlock(c) = <<>>
    BY <1>21 DEF Closed, Deadlock
  <2>5. \A s \in Seq(Piece) : s \o <<>> = s
    BY ConcatEmptySeq
  <2>6. L4 \o <<>> = L4
    BY <1>18, <2>5
  <2>7. L5 = L4 /\ L6 = L4 /\ L7 = L4 /\ L8 = L4
    BY <2>2, <2>6, Zenon DEF L5, L6, L7, L8
  <2>8. L9 = L4 /\ L10 = L4
    BY <2>3, <2>6, <2>7, Zenon DEF L9, L10
  <2>9. L11 = L4 /\ L12 = L4
    BY <2>3, <2>4, <2>6, <2>8, Zenon DEF L11, L12
  <2> QED
    BY <2>3, <2>6, <2>9, Zenon DEF L13
<1> QED
  BY <1>1, <1>3, <1>8, <1>17, <1>20, <1>21, Zenon DEF b

\* A configuration in which nothing is faulty is read back.
LEMMA NotFaultyIsRead ==
  ASSUME NEW c \in Config, c.deadlock # "error", ~Faulty(c) PROVE Parse(Format(c)) = c
<1> DEFINE b == Len(First(c)) + 1
           m == ThroughConstants(c)
           L == Lines(c)
           N == Len(c.constants)
<1>1. /\ Gives(c, b, m, {"SPECIFICATION", "INIT", "NEXT", "CONSTANT"}) /\ Gives(c, b, L, Sections)
      /\ (Closed(c) => L = m) /\ EndsInConstants(c, b, m)
  BY LinesAre
<1>2. First(c) \in Seq(Piece)
  <2>1. "SPECIFICATION" \in Singles /\ "INIT" \in Singles /\ "NEXT" \in Singles
    BY DEF Singles
  <2>2. /\ One(c, "SPECIFICATION") \in Seq(Piece) /\ One(c, "INIT") \in Seq(Piece)
        /\ One(c, "NEXT") \in Seq(Piece)
    BY <2>1, GroupTypes
  <2>3. One(c, "SPECIFICATION") \o One(c, "INIT") \in Seq(Piece)
    BY <2>2, ConcatProperties
  <2> QED
    BY <2>2, <2>3, ConcatProperties DEF First
<1>3. b \in Nat /\ N \in Nat /\ c.constants \in Seq(Constants)
  BY <1>2 DEF Config
<1> HIDE DEF b, m, L
<1>4. L \in Seq(Piece) /\ Chained(L) /\ \A i \in 1..Len(L) : Part(c, b, i, L[i])
  BY <1>1 DEF Gives, Made
<1>5. MeaningOf(L) = c
  BY <1>1, GivesType, SaysAll DEF Gives
<1>6. ASSUME NEW i \in 1..Len(L) PROVE Clear(L[i], i = Len(L))
  <2> DEFINE p == L[i]
             s == SectionOf(p.kw)
             t == p.entry.name
  <2>1. Part(c, b, i, p)
    BY <1>4
  <2> HIDE DEF p
  <2>2. CASE s \in Singles /\ t = c.one[s] /\ t # <<>>
    <3>1. ReadableName(t)
      BY <2>2 DEF Faulty
    <3> QED
      BY <2>2, <3>1 DEF Clear, p
  <2>3. CASE s \in Lists /\ \E j \in 1..Len(c.many[s]) : t = c.many[s][j]
    <3>1. PICK j \in 1..Len(c.many[s]) : t = c.many[s][j]
      BY <2>3
    <3>2. c.many[s] \in Seq(Seq(Token))
      BY <2>3 DEF Config
    <3>3. j \in DOMAIN c.many[s]
      BY <3>2
    <3>4. ReadableName(t)
      BY <2>3, <3>1, <3>3 DEF Faulty
    <3> QED
      BY <2>3, <3>4 DEF Clear, p
  <2>4. CASE s = "CONSTANT" /\ i - b \in 1..N /\ p.entry = c.constants[i - b]
    <3> DEFINE j == i - b
    <3>1. j \in DOMAIN c.constants
      BY <1>3, <2>4
    <3> HIDE DEF j
    <3>2. /\ ReadableConstant(c.constants[j])
          /\ ~Unclosed(c.constants[j]) \/ NothingAfter(c, j)
      BY <3>1 DEF Faulty
    <3>3. ReadableConstant(p.entry)
      BY <2>4, <3>2 DEF j
    <3>4. ~Unclosed(p.entry) \/ i = Len(L)
      <4>1. CASE ~Unclosed(c.constants[j])
        BY <2>4, <4>1 DEF j
      <4>2. CASE NothingAfter(c, j)
        <5>1. j = N /\ Closed(c)
          BY <4>2 DEF NothingAfter, Closed
        <5>2. c.constants # <<>>
          BY <1>3, <3>1
        <5>3. Len(L) = b + N
          BY <1>1, <5>1, <5>2 DEF EndsInConstants
        <5>4. i = b + N
          BY <1>3, <5>1 DEF j
        <5> QED
          BY <5>3, <5>4
      <4> QED
        BY <3>2, <4>1, <4>2
    <3> QED
      BY <2>4, <3>3, <3>4 DEF Clear, p
  <2>5. CASE p.opens \/ s = "CHECK_DEADLOCK"
    BY <2>5 DEF Clear, p
  <2> QED
    BY <2>1, <2>2, <2>3, <2>4, <2>5 DEF Part
<1>7. Parse(TextOf(L)) = MeaningOf(L)
  BY <1>4, <1>6, AllIsRead
<1> QED
  BY <1>5, <1>7 DEF Format, L
-----------------------------------------------------------------------------
(***************************************************************************)
(* What can be read at all: names that are one word, and constants whose   *)
(* values are not cut.                                                     *)
(***************************************************************************)
Sound(c) ==
  /\ \A s \in Singles : c.one[s] = <<>> \/ ReadableName(c.one[s])
  /\ \A s \in Lists : \A i \in 1..Len(c.many[s]) : ReadableName(c.many[s][i])
  /\ \A i \in 1..Len(c.constants) : ReadableConstant(c.constants[i])

LEMMA ValueNotCut ==
  ASSUME NEW ts \in Seq(Token), NEW p \in 1..Len(ts)
  PROVE  LET e == ValueEnd(ts, p)
             v == SubSeq(ts, p, e - 1)
         IN  /\ v \in Seq(Token) /\ Len(v) = e - p /\ v # <<>> /\ ~IsCut(v)
<1> DEFINE e == ValueEnd(ts, p)
           v == SubSeq(ts, p, e - 1)
<1>1. /\ e \in (p + 1)..(Len(ts) + 1)
      /\ \A i \in (p + 1)..(Len(ts) + 1) : Stops(ts, p, i) => e <= i
  BY ValueEndIs
<1> HIDE DEF e
<1>2. p \in Nat /\ e \in Nat /\ Len(ts) \in Nat /\ p \in Nat \ {0}
  BY <1>1
<1>3. v \in Seq(Token) /\ Len(v) = e - p /\ \A i \in 1..(e - p) : v[i] = ts[p + i - 1]
  <2> DEFINE n == e - 1
  <2>1. p \in Int /\ n \in Int /\ p <= n /\ n - p + 1 = e - p
    BY <1>1, <1>2
  <2>2. \A i \in p..n : ts[i] \in Token
    BY <1>1, <1>2
  <2> HIDE DEF n
  <2>3. /\ SubSeq(ts, p, n) \in Seq(Token) /\ Len(SubSeq(ts, p, n)) = n - p + 1
        /\ \A i \in 1..(n - p + 1) : SubSeq(ts, p, n)[i] = ts[p + i - 1]
    BY <2>1, <2>2, SubSeqProperties
  <2> QED
    BY <2>1, <2>3 DEF n
<1> HIDE DEF v
<1>4. v # <<>>
  BY <1>1, <1>2, <1>3
<1>5. Holds(ts, p, v)
  BY <1>1, <1>2, <1>3 DEF Holds
<1>6. ASSUME IsCut(v) PROVE FALSE
  <2>1. PICK i \in 1..(Len(v) - 1) :
          /\ DepthAt(v, i) = 0
          /\ \/ v[i] \in Closes /\ v[i + 1] \notin GoesOn
             \/ v[i + 1] \in Keywords
             \/ i + 2 <= Len(v) /\ v[i + 1] \in Idents /\ v[i + 2] \in {"=", "<-"}
    BY <1>6 DEF IsCut
  <2> DEFINE q == p + i
             n == e - p
  <2>2. n \in Nat /\ Len(v) = n /\ i \in 1..(n - 1)
    BY <1>1, <1>2, <1>3, <2>1
  <2> HIDE DEF n
  <2>3. /\ i \in 1..n /\ i + 1 \in 1..n /\ i \in 0..n /\ i \in Nat
        /\ p + i - 1 = q - 1 /\ p + (i + 1) - 1 = q /\ q - p = i /\ q \in Nat
    BY <1>2, <2>2
  <2>4. q < e /\ q <= Len(ts) /\ q \in (p + 1)..(Len(ts) + 1)
    BY <1>1, <1>2, <2>2 DEF n
  <2>5. v[i] = ts[q - 1] /\ v[i + 1] = ts[q]
    <3>1. v[i] = ts[p + i - 1] /\ v[i + 1] = ts[p + (i + 1) - 1]
      BY <1>3, <2>3 DEF n
    <3> QED
      BY <2>3, <3>1
  <2>6. DepthIn(ts, p, i) = 0
    BY <1>2, <1>3, <1>5, <2>1, <2>2, <2>3, DepthOfValue
  <2>7. BeginsNext(ts, q) \/ (ts[q - 1] \in Closes /\ ~Looking(ts, q, GoesOn))
    <3>1. CASE v[i] \in Closes /\ v[i + 1] \notin GoesOn
      BY <2>5, <3>1 DEF Looking
    <3>2. CASE v[i + 1] \in Keywords
      BY <2>4, <2>5, <3>2 DEF BeginsNext, Looking
    <3>3. CASE i + 2 <= Len(v) /\ v[i + 1] \in Idents /\ v[i + 2] \in {"=", "<-"}
      <4>1. i + 2 \in 1..n /\ p + (i + 2) - 1 = q + 1
        BY <1>2, <2>2, <2>3, <3>3
      <4>2. v[i + 2] = ts[q + 1]
        BY <1>3, <4>1 DEF n
      <4>3. q + 1 <= Len(ts)
        BY <1>1, <1>2, <4>1 DEF n
      <4> QED
        BY <2>4, <2>5, <3>3, <4>2, <4>3 DEF BeginsNext, Looking
    <3> QED
      BY <2>1, <3>1, <3>2, <3>3
  <2>8. Stops(ts, p, q)
    BY <2>3, <2>6, <2>7 DEF Stops
  <2>9. e <= q
    BY <1>1, <2>4, <2>8
  <2> QED
    BY <1>2, <2>3, <2>4, <2>9
<1> QED
  BY <1>3, <1>4, <1>6 DEF e, v

LEMMA ConstantIsSound ==
  ASSUME NEW ts \in Seq(Token), NEW at \in State
  PROVE  /\ Replaces(ts, at) => ReadableConstant(Replacing(ts, at.i))
         /\ Assigns(ts, at) => ReadableConstant(Assigning(ts, at.i))
<1> DEFINE i == at.i
<1>1. i \in Nat \ {0} /\ Len(ts) \in Nat
  BY DEF State
<1>2. ASSUME Replaces(ts, at) PROVE ReadableConstant(Replacing(ts, i))
  <2>1. ts[i] \in Names /\ ts[i + 2] \in Idents
    BY <1>2 DEF Replaces, Looking
  <2> HIDE DEF i
  <2> DEFINE k == Replacing(ts, i)
  <2>2. k.name = <<ts[i]>> /\ k.value = <<>> /\ k.replacement = <<ts[i + 2]>>
    BY DEF Replacing, Constant
  <2> HIDE DEF k
  <2>3. /\ Len(k.name) = 1 /\ k.name[1] \in Names
        /\ k.replacement # <<>> /\ Len(k.replacement) = 1 /\ k.replacement[1] \in Idents
    BY <2>1, <2>2
  <2> QED
    BY <2>2, <2>3 DEF ReadableConstant, k
<1>3. ASSUME Assigns(ts, at) PROVE ReadableConstant(Assigning(ts, i))
  <2>1. ts[i] \in Names /\ i + 2 <= Len(ts)
    BY <1>3 DEF Assigns, Looking
  <2> HIDE DEF i
  <2>2. i + 2 \in 1..Len(ts)
    BY <1>1, <2>1
  <2> DEFINE k == Assigning(ts, i)
             v == SubSeq(ts, i + 2, ValueEnd(ts, i + 2) - 1)
  <2>3. v # <<>> /\ ~IsCut(v)
    BY <2>2, ValueNotCut
  <2>4. k = Constant(<<ts[i]>>, v, <<>>)
    BY DEF Assigning
  <2> HIDE DEF k, v
  <2>5. k.name = <<ts[i]>> /\ k.value = v /\ k.replacement = <<>>
    BY <2>4 DEF Constant
  <2>6. Len(k.name) = 1 /\ k.name[1] \in Names
    BY <2>1, <2>5
  <2> QED
    BY <2>3, <2>5, <2>6 DEF ReadableConstant, k
<1> QED
  BY <1>2, <1>3

LEMMA NothingIsSound == Sound(NoConfig) /\ Sound(ParseError)
<1>1. NoConfig \in Config /\ ParseError = WithDeadlock(NoConfig, "error")
  BY NoConfigType DEF ParseError, WithDeadlock
<1>2. LET d == WithDeadlock(NoConfig, "error")
      IN  d.one = NoConfig.one /\ d.many = NoConfig.many /\ d.constants = NoConfig.constants
  BY <1>1, DeadlockChanges
<1>3. Sound(NoConfig)
  BY DEF Sound, NoConfig
<1> QED
  BY <1>1, <1>2, <1>3 DEF Sound

LEMMA SoundWithOne ==
  ASSUME NEW c \in Config, Sound(c), NEW s \in Singles, NEW t \in Seq(Token), ReadableName(t)
  PROVE  Sound(WithOne(c, s, t))
<1> DEFINE d == WithOne(c, s, t)
<1>1. /\ d.one = [c.one EXCEPT ![s] = t] /\ d.many = c.many
      /\ d.constants = c.constants
  BY OneChanges
<1>2. c.one \in [Singles -> Seq(Token)]
  BY DEF Config
<1> HIDE DEF d
<1>3. ASSUME NEW x \in Singles PROVE d.one[x] = <<>> \/ ReadableName(d.one[x])
  <2>1. d.one[x] = IF x = s THEN t ELSE c.one[x]
    BY <1>1, <1>2
  <2> QED
    BY <2>1 DEF Sound
<1> QED
  BY <1>1, <1>3 DEF Sound, d

LEMMA SoundWithMany ==
  ASSUME NEW c \in Config, Sound(c), NEW s \in Lists, NEW t \in Seq(Token), ReadableName(t)
  PROVE  Sound(WithMany(c, s, t))
<1> DEFINE d == WithMany(c, s, t)
           a == Append(c.many[s], t)
<1>1. /\ d.many = [c.many EXCEPT ![s] = a] /\ d.one = c.one
      /\ d.constants = c.constants
  BY ManyChanges
<1>2. c.many \in [Lists -> Seq(Seq(Token))] /\ c.many[s] \in Seq(Seq(Token))
  BY DEF Config
<1>3. /\ Len(c.many[s]) \in Nat /\ Len(a) = Len(c.many[s]) + 1
      /\ a[Len(c.many[s]) + 1] = t /\ \A i \in 1..Len(c.many[s]) : a[i] = c.many[s][i]
  BY <1>2, AppendProperties
<1> HIDE DEF d, a
<1>4. ASSUME NEW x \in Lists, NEW i \in 1..Len(d.many[x]) PROVE ReadableName(d.many[x][i])
  <2>1. CASE x = s
    <3>1. d.many[x] = a
      BY <1>1, <1>2, <2>1
    <3>2. i = Len(c.many[s]) + 1 \/ i \in 1..Len(c.many[s])
      BY <1>3, <3>1
    <3> QED
      BY <1>3, <3>1, <3>2 DEF Sound
  <2>2. CASE x # s
    <3>1. d.many[x] = c.many[x]
      BY <1>1, <1>2, <2>2
    <3> QED
      BY <3>1 DEF Sound
  <2> QED
    BY <2>1, <2>2
<1> QED
  BY <1>1, <1>4 DEF Sound, d

LEMMA SoundWithConstant ==
  ASSUME NEW c \in Config, Sound(c), NEW k \in Constants, ReadableConstant(k)
  PROVE  Sound(WithConstant(c, k))
<1> DEFINE d == WithConstant(c, k)
           a == Append(c.constants, k)
<1>1. d.constants = a /\ d.one = c.one /\ d.many = c.many
  BY ConstantChanges
<1>2. c.constants \in Seq(Constants)
  BY DEF Config
<1>3. /\ Len(c.constants) \in Nat /\ Len(a) = Len(c.constants) + 1
      /\ a[Len(c.constants) + 1] = k /\ \A i \in 1..Len(c.constants) : a[i] = c.constants[i]
  BY <1>2, AppendProperties
<1> HIDE DEF d, a
<1>4. ASSUME NEW i \in 1..Len(a) PROVE ReadableConstant(a[i])
  <2>1. i = Len(c.constants) + 1 \/ i \in 1..Len(c.constants)
    BY <1>3
  <2> QED
    BY <1>3, <2>1 DEF Sound
<1> QED
  BY <1>1, <1>4 DEF Sound, d

LEMMA SoundTold ==
  ASSUME NEW c \in Config, Sound(c), NEW s \in Sections \ {"CONSTANT"},
         NEW t \in Token \ Keywords
  PROVE  Sound(Told(c, s, t))
<1> DEFINE u == <<t>>
<1>1. u \in Seq(Token) /\ ReadableName(u)
  BY DEF ReadableName
<1> HIDE DEF u
<1>2. CASE s \in Singles
  <2>1. Told(c, s, t) = WithOne(c, s, u)
    BY <1>2, ToldCases DEF u
  <2>2. Sound(WithOne(c, s, u))
    BY <1>1, <1>2, SoundWithOne
  <2> QED
    BY <2>1, <2>2
<1>3. CASE s \in Lists
  <2>1. Told(c, s, t) = WithMany(c, s, u)
    BY <1>3, ToldCases DEF u
  <2>2. Sound(WithMany(c, s, u))
    BY <1>1, <1>3, SoundWithMany
  <2> QED
    BY <2>1, <2>2
<1>4. CASE s = "CHECK_DEADLOCK"
  <2> DEFINE v == IF t = "TRUE" THEN "TRUE" ELSE "FALSE"
  <2>1. Told(c, s, t) = WithDeadlock(c, v) /\ v \in {"TRUE", "FALSE"}
    BY <1>4, ToldCases
  <2> HIDE DEF v
  <2>2. LET d == WithDeadlock(c, v)
        IN  d.one = c.one /\ d.many = c.many /\ d.constants = c.constants
    BY <2>1, DeadlockChanges
  <2>3. Sound(WithDeadlock(c, v))
    BY <2>2 DEF Sound
  <2> QED
    BY <2>1, <2>3
<1> QED
  BY <1>2, <1>3, <1>4, SectionKinds

LEMMA IterationSound ==
  ASSUME NEW ts \in Seq(Token), NEW at \in State, Sound(at.c)
  PROVE  Sound(ParseOne(ts, at).c)
<1> DEFINE i == at.i
           s == at.section
           next == ParseOne(ts, at)
<1>1. i \in Nat \ {0} /\ s \in Sections \cup {"none"} /\ at.c \in Config /\ Len(ts) \in Nat
  BY DEF State
<1>2. CASE i > Len(ts)
  BY <1>1, <1>2, Iterations
<1>3. CASE Looking(ts, i, Keywords)
  <2>1. next = [i |-> i + 1, section |-> SectionOf(ts[i]), c |-> at.c]
    BY <1>3, Iterations
  <2> QED
    BY <2>1
<1>4. CASE Tells(ts, at)
  <2>1. next = [i |-> i + 1, section |-> s, c |-> Told(at.c, s, ts[i])]
    BY <1>4, Iterations
  <2>2. s \in Sections \ {"CONSTANT"} /\ ts[i] \in Token \ Keywords
    BY <1>1, <1>4 DEF Tells, Looking
  <2> QED
    BY <1>1, <2>1, <2>2, SoundTold
<1>5. CASE Replaces(ts, at)
  <2>1. next = [i |-> i + 3, section |-> s, c |-> WithConstant(at.c, Replacing(ts, i))]
    BY <1>5, Iterations
  <2>2. Sound(WithConstant(at.c, Replacing(ts, i)))
    BY <1>1, <1>5, ReplacingType, ConstantIsSound, SoundWithConstant
  <2> QED
    BY <2>1, <2>2
<1>6. CASE Assigns(ts, at)
  <2>1. next = [i |-> ValueEnd(ts, i + 2), section |-> s, c |-> WithConstant(at.c, Assigning(ts, i))]
    BY <1>6, Iterations
  <2>2. Sound(WithConstant(at.c, Assigning(ts, i)))
    BY <1>1, <1>6, AssigningType, ConstantIsSound, SoundWithConstant
  <2> QED
    BY <2>1, <2>2
<1>7. CASE ~(i > Len(ts) \/ Looking(ts, i, Keywords) \/ Tells(ts, at)
             \/ Replaces(ts, at) \/ Assigns(ts, at))
  <2>1. next = [i |-> Len(ts) + 1, section |-> s, c |-> ParseError]
    BY <1>7, Iterations
  <2>2. Sound(ParseError)
    BY NothingIsSound
  <2> QED
    BY <2>1, <2>2
<1> HIDE DEF next, i
<1> QED
  BY <1>2, <1>3, <1>4, <1>5, <1>6, <1>7 DEF next, i

\* Whatever the text, what is read of it can be read.
LEMMA ParseIsSound == ASSUME NEW ts \in Seq(Token) PROVE Sound(Parse(ts))
<1> DEFINE T == {x \in State : Sound(x.c)}
<1>1. Begin \in T
  BY NoConfigType, NothingIsSound DEF Begin, State
<1>2. \A x \in State : x \in T => ParseOne(ts, x) \in T
  BY IterationSound, IterationType
<1>3. At(ts, Begin)
  BY AtBegin
<1> HIDE DEF T
<1>4. PICK x \in State : x \in T /\ Parse(ts) = x.c
  BY <1>1, <1>2, <1>3, AtLast
<1> QED
  BY <1>4 DEF T

-----------------------------------------------------------------------------
(***************************************************************************)
(* The other direction: a value whose brackets do not match takes in what  *)
(* comes after it, and what is read of it stays.                           *)
(***************************************************************************)
LEMMA SaidDeadlock ==
  ASSUME NEW c \in Config, NEW p \in Piece, c.deadlock # "error"
  PROVE  Said(c, p).deadlock # "error"
<1> DEFINE s == SectionOf(p.kw)
           t == p.entry.name
<1>1. /\ s \in Sections /\ p.entry \in Constants /\ t \in Seq(Token)
      /\ p.opens \in BOOLEAN
  BY SaidCases DEF Piece
<1>2. CASE p.opens
  BY <1>2, SaidCases
<1>3. CASE ~p.opens /\ s \in Singles
  <2>1. Said(c, p) = WithOne(c, s, t)
    BY <1>3, SaidCases
  <2> HIDE DEF s, t
  <2>2. WithOne(c, s, t).deadlock = c.deadlock
    BY <1>1, <1>3, OneChanges
  <2> QED
    BY <2>1, <2>2
<1>4. CASE ~p.opens /\ s \in Lists
  <2>1. Said(c, p) = WithMany(c, s, t)
    BY <1>4, SaidCases
  <2> HIDE DEF s, t
  <2>2. WithMany(c, s, t).deadlock = c.deadlock
    BY <1>1, <1>4, ManyChanges
  <2> QED
    BY <2>1, <2>2
<1>5. CASE ~p.opens /\ s = "CONSTANT"
  <2>1. Said(c, p) = WithConstant(c, p.entry)
    BY <1>5, SaidCases
  <2>2. Said(c, p).deadlock = c.deadlock
    BY <1>1, <2>1, ConstantChanges
  <2> QED
    BY <2>2
<1>6. CASE ~p.opens /\ s = "CHECK_DEADLOCK"
  <2>1. t \in {<<"TRUE">>, <<"FALSE">>} /\ Said(c, p) = WithDeadlock(c, t[1])
    BY <1>6, SaidCases
  <2> HIDE DEF t
  <2>2. t[1] \in {"TRUE", "FALSE"}
    BY <2>1
  <2>3. WithDeadlock(c, t[1]).deadlock = t[1]
    BY <2>2, DeadlockChanges
  <2> QED
    BY <2>1, <2>2, <2>3
<1> QED
  BY <1>1, <1>2, <1>3, <1>4, <1>5, <1>6, SectionKinds

LEMMA MeaningIsNoError ==
  ASSUME NEW s \in Seq(Piece) PROVE MeaningOf(s) \in Config /\ MeaningOf(s).deadlock # "error"
<1> DEFINE T == {r \in Seq(Piece) : MeaningOf(r).deadlock # "error"}
<1>1. <<>> \in T
  BY MeaningNothing DEF NoConfig
<1>2. ASSUME NEW r \in Seq(Piece), NEW e \in Piece, r \in T PROVE Append(r, e) \in T
  <2>1. MeaningOf(r) \in Config /\ MeaningOf(r).deadlock # "error"
    BY <1>2, MeaningType
  <2>2. Said(MeaningOf(r), e).deadlock # "error"
    BY <2>1, SaidDeadlock
  <2>3. Append(r, e) \in Seq(Piece) /\ MeaningOf(Append(r, e)) = Said(MeaningOf(r), e)
    BY MeaningOneMore, AppendProperties
  <2> QED
    BY <2>2, <2>3
<1> HIDE DEF T
<1>3. s \in T
  BY <1>1, <1>2, ByLastElement
<1> QED
  BY <1>3, MeaningType DEF T

\* What an iteration reads, it adds to the constants, unless it fails and
\* the loop ends.
LEMMA IterationDeclares ==
  ASSUME NEW ts \in Seq(Token), NEW at \in State
  PROVE  LET next == ParseOne(ts, at)
         IN  \/ next.c.constants = at.c.constants
             \/ \E k \in Constants : next.c.constants = Append(at.c.constants, k)
             \/ next.i > Len(ts) /\ next.c.deadlock = "error"
<1> DEFINE i == at.i
           s == at.section
           next == ParseOne(ts, at)
<1>1. i \in Nat \ {0} /\ s \in Sections \cup {"none"} /\ at.c \in Config /\ Len(ts) \in Nat
  BY DEF State
<1>2. CASE i > Len(ts)
  BY <1>1, <1>2, Iterations
<1>3. CASE Looking(ts, i, Keywords)
  <2>1. next = [i |-> i + 1, section |-> SectionOf(ts[i]), c |-> at.c]
    BY <1>3, Iterations
  <2> QED
    BY <2>1
<1>4. CASE Tells(ts, at)
  <2>1. next = [i |-> i + 1, section |-> s, c |-> Told(at.c, s, ts[i])]
    BY <1>4, Iterations
  <2>2. s \in Sections \ {"CONSTANT"} /\ ts[i] \in Token
    BY <1>1, <1>4 DEF Tells, Looking
  <2>3. Told(at.c, s, ts[i]).constants = at.c.constants
    BY <1>1, <2>2, ToldType
  <2> QED
    BY <2>1, <2>3
<1>5. CASE Replaces(ts, at)
  <2>1. next = [i |-> i + 3, section |-> s, c |-> WithConstant(at.c, Replacing(ts, i))]
    BY <1>5, Iterations
  <2>2. /\ Replacing(ts, i) \in Constants
        /\ WithConstant(at.c, Replacing(ts, i)).constants = Append(at.c.constants, Replacing(ts, i))
    BY <1>1, <1>5, ReplacingType, ConstantChanges
  <2> QED
    BY <2>1, <2>2
<1>6. CASE Assigns(ts, at)
  <2>1. next = [i |-> ValueEnd(ts, i + 2), section |-> s, c |-> WithConstant(at.c, Assigning(ts, i))]
    BY <1>6, Iterations
  <2>2. /\ Assigning(ts, i) \in Constants
        /\ WithConstant(at.c, Assigning(ts, i)).constants = Append(at.c.constants, Assigning(ts, i))
    BY <1>1, <1>6, AssigningType, ConstantChanges
  <2> QED
    BY <2>1, <2>2
<1>7. CASE ~(i > Len(ts) \/ Looking(ts, i, Keywords) \/ Tells(ts, at)
             \/ Replaces(ts, at) \/ Assigns(ts, at))
  <2>1. next = [i |-> Len(ts) + 1, section |-> s, c |-> ParseError]
    BY <1>7, Iterations
  <2>2. Len(ts) + 1 > Len(ts) /\ ParseError.deadlock = "error"
    BY <1>1 DEF ParseError, NoConfig
  <2> QED
    BY <2>1, <2>2
<1> HIDE DEF next, i
<1> QED
  BY <1>2, <1>3, <1>4, <1>5, <1>6, <1>7 DEF next, i

LEMMA ReadStays ==
  ASSUME NEW ts \in Seq(Token), NEW s, At(ts, s), NEW p \in 1..Len(s.c.constants)
  PROVE  Parse(ts).deadlock = "error" \/ Parse(ts).constants[p] = s.c.constants[p]
<1> DEFINE k == s.c.constants[p]
           Has(x) == p \in 1..Len(x.c.constants) /\ x.c.constants[p] = k
           Fails(x) == x.i > Len(ts) /\ x.c.deadlock = "error"
           T == {x \in State : Has(x) \/ Fails(x)}
<1>1. s \in State
  BY AtState
<1>2. s \in T
  BY <1>1
<1>3. ASSUME NEW x \in State, x \in T PROVE ParseOne(ts, x) \in T
  <2> DEFINE y == ParseOne(ts, x)
  <2>1. y \in State /\ x.c.constants \in Seq(Constants)
    BY IterationType DEF State, Config
  <2>2. Has(x) \/ Fails(x)
    BY <1>3
  <2>3. CASE Fails(x)
    <3>1. y = x
      BY <2>3, IterationType
    <3> QED
      BY <1>3, <3>1
  <2>4. CASE Has(x)
    <3>1. \/ y.c.constants = x.c.constants
          \/ \E l \in Constants : y.c.constants = Append(x.c.constants, l)
          \/ Fails(y)
      BY IterationDeclares
    <3> HIDE DEF y, k
    <3>2. ASSUME NEW l \in Constants, y.c.constants = Append(x.c.constants, l) PROVE Has(y)
      <4>1. /\ Len(y.c.constants) = Len(x.c.constants) + 1 /\ Len(x.c.constants) \in Nat
            /\ \A j \in 1..Len(x.c.constants) : y.c.constants[j] = x.c.constants[j]
        BY <2>1, <3>2, AppendProperties
      <4> DEFINE n == Len(x.c.constants)
                 d == y.c.constants
      <4>2. p \in 1..n /\ x.c.constants[p] = k
        BY <2>4
      <4>3. n \in Nat /\ Len(d) = n + 1
        BY <4>1
      <4>4. p \in 1..Len(d)
        <5> HIDE DEF n, d
        <5> QED
          BY <4>2, <4>3
      <4>5. d[p] = k
        BY <4>1, <4>2
      <4> QED
        BY <4>4, <4>5
    <3>3. Has(y) \/ Fails(y)
      BY <2>4, <3>1, <3>2
    <3> QED
      BY <2>1, <3>3 DEF y
  <2> QED
    BY <2>2, <2>3, <2>4
<1> HIDE DEF T
<1>4. PICK x \in State : x \in T /\ Parse(ts) = x.c
  BY <1>2, <1>3, AtLast
<1> QED
  BY <1>4 DEF T

\* A sequence, at one of its elements.
LEMMA SplitAt ==
  ASSUME NEW S, NEW s \in Seq(S), NEW m \in 1..Len(s)
  PROVE  \E a \in Seq(S), b \in Seq(S) :
           /\ s = Append(a, s[m]) \o b /\ Len(a) = m - 1 /\ \A j \in 1..(m - 1) : a[j] = s[j]
           /\ m < Len(s) => \E d \in Seq(S) : b = Append(d, s[Len(s)])
<1> DEFINE Is(r, n, a, b) ==
             /\ r = Append(a, r[n]) \o b /\ Len(a) = n - 1 /\ \A j \in 1..(n - 1) : a[j] = r[j]
             /\ n < Len(r) => \E d \in Seq(S) : b = Append(d, r[Len(r)])
           T == {r \in Seq(S) : \A n \in 1..Len(r) : \E a \in Seq(S), b \in Seq(S) : Is(r, n, a, b)}
<1>1. <<>> \in T
  OBVIOUS
<1>2. ASSUME NEW r \in Seq(S), NEW e \in S, r \in T PROVE Append(r, e) \in T
  <2> DEFINE M == Append(r, e)
  <2>1. /\ M \in Seq(S) /\ Len(M) = Len(r) + 1 /\ Len(r) \in Nat /\ M[Len(r) + 1] = e
        /\ \A n \in 1..Len(r) : M[n] = r[n]
    BY AppendProperties
  <2>2. M = Append(r, e)
    OBVIOUS
  <2> HIDE DEF M
  <2>3. ASSUME NEW n \in 1..Len(M) PROVE \E a \in Seq(S), b \in Seq(S) : Is(M, n, a, b)
    <3>1. CASE n = Len(M)
      <4>1. M \o <<>> = M /\ <<>> \in Seq(S)
        BY <2>1, ConcatEmptySeq
      <4>2. Append(r, M[n]) \o <<>> = M
        <5>1. M[n] = e
          BY <2>1, <3>1
        <5> QED
          BY <2>2, <4>1, <5>1, Zenon
      <4>3. Len(r) = n - 1 /\ (\A j \in 1..(n - 1) : r[j] = M[j]) /\ ~(n < Len(M))
        BY <2>1, <3>1
      <4>4. Is(M, n, r, <<>>)
        BY <4>2, <4>3
      <4> HIDE DEF Is
      <4> QED
        BY <4>1, <4>4
    <3>2. CASE n \in 1..Len(r)
      <4>1. PICK a \in Seq(S), b \in Seq(S) : Is(r, n, a, b)
        BY <1>2, <3>2
      <4>2. r = Append(a, r[n]) \o b /\ Len(a) = n - 1 /\ \A j \in 1..(n - 1) : a[j] = r[j]
        BY <4>1
      <4> DEFINE u == Append(a, r[n])
                 x == Append(b, e)
      <4>3. r[n] = M[n] /\ r[n] \in S /\ \A j \in 1..(n - 1) : r[j] = M[j]
        BY <2>1, <3>2
      <4>4. u \in Seq(S) /\ x \in Seq(S)
        BY <4>3, AppendProperties
      <4>5. u \o x = Append(u \o b, e)
        <5> HIDE DEF u
        <5> QED
          BY <4>4, AppendConcat
      <4>6. Append(a, M[n]) = u
        BY <4>3
      <4>7. M = Append(a, M[n]) \o x
        <5>1. r = u \o b
          BY <4>2
        <5> HIDE DEF u, x
        <5> QED
          BY <2>2, <4>5, <4>6, <5>1, Zenon
      <4>8. x = Append(b, M[Len(M)])
        BY <2>1
      <4> HIDE DEF u, x
      <4>9. Is(M, n, a, x)
        <5>1. \A j \in 1..(n - 1) : a[j] = M[j]
          BY <4>2, <4>3
        <5>2. \E d \in Seq(S) : x = Append(d, M[Len(M)])
          BY <4>8
        <5> QED
          BY <4>2, <4>7, <5>1, <5>2, Zenon
      <4> HIDE DEF Is
      <4> QED
        BY <4>4, <4>9
    <3> HIDE DEF Is
    <3>3. n = Len(M) \/ n \in 1..Len(r)
      BY <2>1
    <3> QED
      BY <3>1, <3>2, <3>3, Zenon
  <2> HIDE DEF Is
  <2> QED
    BY <2>1, <2>2, <2>3
<1> HIDE DEF T, Is
<1>3. s \in T
  BY <1>1, <1>2, ByLastElement
<1> QED
  BY <1>3, Zenon DEF T, Is

LEMMA UnclosedIsNotRead ==
  ASSUME NEW a \in Seq(Piece), NEW e \in Piece, NEW b \in Seq(Piece), NEW l, l = Append(a, e) \o b,
         Chained(a), a # <<>>, a[Len(a)].kw = e.kw, \A j \in 1..Len(a) : Clear(a[j], FALSE),
         IsConstant(e), ReadableConstant(e.entry), Unclosed(e.entry), TextOf(b) # <<>>
  PROVE  Parse(TextOf(l)) # MeaningOf(l)
<1> DEFINE u == Append(a, e)
           k == e.entry
           ts == TextOf(l)
           x == TextOf(a)
           y == PieceText(e)
           z == TextOf(b)
           i == Len(x) + 1
           c == MeaningOf(a)
           v == k.value
           p == Len(c.constants) + 1
<1>1. u \in Seq(Piece) /\ l = u \o b /\ u \o b \in Seq(Piece)
  BY AppendProperties, ConcatProperties
<1>2. l \in Seq(Piece)
  BY <1>1
<1>3. /\ x \in Seq(Token) /\ y \in Seq(Token) /\ z \in Seq(Token) /\ ts \in Seq(Token)
      /\ Len(x) \in Nat /\ Len(y) \in Nat /\ Len(z) \in Nat \ {0} /\ Len(ts) \in Nat
      /\ i \in Nat \ {0} /\ c \in Config /\ k \in Constants /\ y = ConstantText(k)
  <2>1. x \in Seq(Token) /\ y \in Seq(Token) /\ z \in Seq(Token) /\ ts \in Seq(Token)
    BY <1>2, TextType, PieceTextType
  <2>2. z # <<>>
    OBVIOUS
  <2>3. c \in Config /\ k \in Constants /\ y = ConstantText(k)
    BY MeaningType DEF Piece, PieceText, IsConstant
  <2> HIDE DEF x, y, z, ts, c, k
  <2> QED
    BY <2>1, <2>2, <2>3
<1>4. ts = (x \o y) \o z
  <2>1. TextOf(u) = x \o y
    BY TextOneMore
  <2>2. TextOf(u \o b) = TextOf(u) \o z
    BY <1>1, TextConcat
  <2> HIDE DEF x, y, z, u
  <2> QED
    BY <1>1, <2>1, <2>2, Zenon
<1>5. MeaningOf(u) = Said(c, e) /\ Said(c, e) = WithConstant(c, k)
  BY MeaningOneMore, SaidCases DEF IsConstant
<1>6. /\ Holds(ts, 1, x) /\ Holds(ts, i, y) /\ Len(x) + Len(y) < Len(ts)
  <2> HIDE DEF x, y, z, ts
  <2>1. Len(x \o y) = Len(x) + Len(y) /\ x \o y \in Seq(Token)
    BY <1>3, HoldsConcat, ConcatProperties
  <2> DEFINE w == x \o y
  <2>2. Holds(ts, 1, ts)
    <3>1. \A j \in 1..Len(ts) : 1 + j - 1 = j
      OBVIOUS
    <3>2. 1 + Len(ts) - 1 <= Len(ts)
      BY <1>3
    <3> QED
      BY <3>1, <3>2 DEF Holds
  <2>3. Len(w \o z) = Len(w) + Len(z) /\ (Holds(ts, 1, w \o z) <=> Holds(ts, 1, w) /\ Holds(ts, Len(w) + 1, z))
    BY <1>3, <2>1, HoldsConcat
  <2>4. Holds(ts, 1, w) <=> Holds(ts, 1, x) /\ Holds(ts, i, y)
    BY <1>3, HoldsConcat
  <2>5. ts = w \o z /\ Len(w) = Len(x) + Len(y)
    BY <1>4, <2>1
  <2> HIDE DEF w, i
  <2>6. Len(ts) = Len(w) + Len(z) /\ Holds(ts, 1, w)
    BY <2>2, <2>3, <2>5
  <2> QED
    BY <1>3, <2>4, <2>5, <2>6
<1>7. SectionAfter(a) = "CONSTANT"
  BY DEF SectionAfter, IsConstant
<1>8. BeginsNext(ts, i)
  BY <1>3, <1>6, PieceBegins
<1>9. Passes(ts, a)
  <2>1. \A j \in 1..Len(a) : Clear(a[j], j = Len(a) /\ Len(x) = Len(ts))
    BY ClearMore
  <2> QED
    BY <1>6, <1>8, <2>1 DEF Passes
<1>10. At(ts, Here(i, "CONSTANT", c))
  BY <1>3, <1>7, <1>9, PiecesAreRead
<1> HIDE DEF x, y, z, ts, c, k, i, u, p
<1> DEFINE at == Here(i, "CONSTANT", c)
<1>11. at \in State /\ at.i = i /\ at.section = "CONSTANT" /\ at.c = c
  BY <1>10, <1>3, AtState DEF Here
<1>12. k.replacement = <<>> /\ v \in Seq(Token) /\ v # <<>> /\ DepthAt(v, Len(v)) # 0
       /\ Len(k.name) = 1 /\ k.name[1] \in Names
  BY <1>3 DEF Unclosed, ReadableConstant, k, Constants
<1>13. /\ i + 1 <= Len(ts) /\ ts[i] = k.name[1] /\ ts[i + 1] = "="
       /\ Holds(ts, i + 2, v) /\ i + Len(y) = i + 2 + Len(v)
  BY <1>3, <1>6, <1>12, ConstantStands
<1>14. Len(v) \in Nat \ {0} /\ i + 2 + Len(v) <= Len(ts) /\ i + 2 \in 1..Len(ts)
  <2> DEFINE n == Len(v)
             yn == Len(y)
             xn == Len(x)
             N == Len(ts)
  <2>1. n \in Nat \ {0}
    BY <1>12
  <2>2. /\ yn \in Nat /\ xn \in Nat /\ N \in Nat /\ xn + yn < N /\ i \in Nat
        /\ i = xn + 1 /\ i + yn = i + 2 + n
    BY <1>3, <1>6, <1>13 DEF i
  <2> HIDE DEF n, yn, xn, N
  <2>3. n \in Nat \ {0} /\ i + 2 + n <= N /\ i + 2 \in 1..N
    BY <2>1, <2>2
  <2> QED
    BY <2>3 DEF n, N
<1>15. Assigns(ts, at)
  <2>1. Looking(ts, i, Names) /\ Looking(ts, i + 1, {"="}) /\ i + 2 <= Len(ts)
    BY <1>3, <1>12, <1>13, <1>14 DEF Looking
  <2> QED
    BY <1>11, <2>1 DEF Assigns
<1> HIDE DEF at
<1>16. /\ At(ts, ParseOne(ts, at)) /\ ParseOne(ts, at).c = WithConstant(c, Assigning(ts, i))
       /\ Assigning(ts, i) \in Constants
  <2>1. ParseOne(ts, at) = [i |-> ValueEnd(ts, i + 2), section |-> "CONSTANT",
                            c |-> WithConstant(c, Assigning(ts, i))]
    BY <1>3, <1>11, <1>15, Iterations
  <2>2. Assigning(ts, i) \in Constants
    BY <1>3, <1>11, <1>15, AssigningType
  <2>3. At(ts, ParseOne(ts, at))
    <3>1. at.i <= Len(ts)
      BY <1>3, <1>11, <1>13
    <3> QED
      BY <1>3, <1>10, <3>1, AtNext DEF at
  <2> QED
    BY <2>1, <2>2, <2>3
<1>17. Assigning(ts, i) # k
  <2> DEFINE q == ValueEnd(ts, i + 2)
             w == SubSeq(ts, i + 2, q - 1)
  <2>1. Stops(ts, i + 2, q) /\ q \in (i + 3)..(Len(ts) + 1)
    <3>1. i + 2 + 1 = i + 3
      BY <1>3
    <3> QED
      BY <1>3, <1>14, <3>1, ValueEndIs
  <2>2. Len(w) = q - (i + 2)
    BY <1>3, <1>14, ValueNotCut
  <2>3. Assigning(ts, i).value = w
    BY DEF Assigning, Constant
  <2> HIDE DEF q, w
  <2>4. ASSUME Assigning(ts, i) = k PROVE FALSE
    <3>1. Len(v) = q - (i + 2)
      BY <2>2, <2>3, <2>4
    <3>2. q = i + 2 + Len(v) /\ q - (i + 2) = Len(v) /\ q <= Len(ts)
      BY <1>3, <1>14, <2>1, <3>1
    <3>3. DepthIn(ts, i + 2, Len(v)) = 0
      <4>1. q > Len(ts) \/ DepthIn(ts, i + 2, q - (i + 2)) = 0
        BY <2>1 DEF Stops
      <4>2. ~(q > Len(ts))
        <5>1. q \in Nat
          BY <1>3, <2>1
        <5> HIDE DEF v
        <5> QED
          BY <1>3, <3>2, <5>1
      <4> QED
        BY <3>2, <4>1, <4>2, Zenon
    <3>4. DepthAt(v, Len(v)) = DepthIn(ts, i + 2, Len(v))
      <4>1. i + 2 \in Nat /\ Len(v) \in 0..Len(v)
        BY <1>3, <1>14
      <4> HIDE DEF v
      <4> QED
        BY <1>3, <1>12, <1>13, <4>1, DepthOfValue
    <3> QED
      BY <1>12, <3>3, <3>4
  <2> QED
    BY <2>4
<1>18. c.constants \in Seq(Constants) /\ p \in Nat /\ p = Len(c.constants) + 1
  <2>1. c.constants \in Seq(Constants)
    BY <1>3 DEF Config
  <2> QED
    BY <2>1 DEF p
<1>19. ASSUME NEW d \in Constants
       PROVE  /\ p \in 1..Len(WithConstant(c, d).constants)
              /\ WithConstant(c, d).constants[p] = d
  <2>1. WithConstant(c, d).constants = Append(c.constants, d)
    BY <1>3, ConstantChanges
  <2>2. Len(Append(c.constants, d)) = p /\ Append(c.constants, d)[p] = d
    BY <1>18, AppendProperties
  <2> QED
    BY <1>18, <2>1, <2>2
<1>20. Parse(ts).deadlock = "error" \/ Parse(ts).constants[p] = Assigning(ts, i)
  <2> DEFINE s == ParseOne(ts, at)
  <2>1. p \in 1..Len(s.c.constants) /\ s.c.constants[p] = Assigning(ts, i) /\ At(ts, s)
    BY <1>16, <1>19
  <2> HIDE DEF s
  <2> QED
    BY <1>3, <2>1, ReadStays
<1>21. MeaningOf(l).constants[p] = k /\ MeaningOf(l).deadlock # "error"
  <2>1. MeaningOf(u).constants[p] = k /\ p \in 1..Len(MeaningOf(u).constants)
    BY <1>3, <1>5, <1>19
  <2>2. MeaningOf(u \o b).constants[p] = MeaningOf(u).constants[p]
    BY <1>1, <2>1, DeclaredStay
  <2>3. MeaningOf(l).deadlock # "error"
    BY <1>2, MeaningIsNoError
  <2> QED
    BY <1>1, <2>1, <2>2, <2>3
<1>22. Parse(ts) # MeaningOf(l)
  BY <1>17, <1>20, <1>21
<1> QED
  BY <1>22 DEF ts

LEMMA PartIsSound ==
  ASSUME NEW c \in Config, Sound(c), NEW b \in Nat, NEW i \in Nat, NEW p \in Piece,
         Part(c, b, i, p)
  PROVE  /\ PieceText(p) # <<>>
         /\ IsConstant(p) => ReadableConstant(p.entry)
         /\ ~(IsConstant(p) /\ Unclosed(p.entry)) => Clear(p, FALSE)
<1> DEFINE s == SectionOf(p.kw)
           t == p.entry.name
           k == p.entry
<1>1. /\ s \in Sections /\ k \in Constants /\ t \in Seq(Token) /\ p.opens \in BOOLEAN
      /\ ~p.opens /\ s = "CHECK_DEADLOCK" => t \in {<<"TRUE">>, <<"FALSE">>}
  BY SaidCases DEF Piece
<1>2. CASE p.opens
  BY <1>2 DEF PieceText, IsConstant, Clear
<1>3. ASSUME ~p.opens, s # "CONSTANT", ReadableName(t) \/ s = "CHECK_DEADLOCK",
             s \in Singles \cup Lists \/ s = "CHECK_DEADLOCK"
      PROVE  PieceText(p) # <<>> /\ ~IsConstant(p) /\ Clear(p, FALSE)
  <2>1. PieceText(p) = t
    BY <1>3 DEF PieceText
  <2>2. t # <<>>
    <3>1. CASE ReadableName(t)
      <4>1. Len(t) = 1 /\ t \in Seq(Token)
        BY <1>1, <3>1 DEF ReadableName
      <4> HIDE DEF t
      <4> QED
        BY <4>1
    <3>2. CASE s = "CHECK_DEADLOCK"
      <4>1. t \in {<<"TRUE">>, <<"FALSE">>}
        BY <1>1, <1>3, <3>2
      <4> HIDE DEF t
      <4> QED
        BY <4>1
    <3> QED
      BY <1>3, <3>1, <3>2
  <2>3. Clear(p, FALSE)
    BY <1>3, SectionKinds DEF Clear
  <2> QED
    BY <1>3, <2>1, <2>2, <2>3 DEF IsConstant
<1>4. CASE ~p.opens /\ s \in Singles /\ t = c.one[s] /\ t # <<>>
  <2>1. ReadableName(t)
    BY <1>4 DEF Sound
  <2> QED
    BY <1>3, <1>4, <2>1, SectionKinds
<1>5. CASE ~p.opens /\ s \in Lists /\ \E j \in 1..Len(c.many[s]) : t = c.many[s][j]
  <2>1. ReadableName(t)
    BY <1>5 DEF Sound
  <2> QED
    BY <1>3, <1>5, <2>1, SectionKinds
<1>6. CASE ~p.opens /\ s = "CONSTANT" /\ i - b \in 1..Len(c.constants) /\ k = c.constants[i - b]
  <2>1. ReadableConstant(k)
    BY <1>6 DEF Sound
  <2>2. PieceText(p) = ConstantText(k)
    BY <1>6 DEF PieceText
  <2>3. ConstantText(k) # <<>>
    <3>1. Len(k.name) = 1
      BY <2>1 DEF ReadableConstant
    <3> DEFINE x == IF k.replacement # <<>> THEN k.replacement ELSE k.value
    <3>2. x \in Seq(Token) /\ Len(ConstantText(k)) = 2 + Len(x)
      BY <1>1, <3>1, ConstantTextIs
    <3> HIDE DEF x
    <3>3. Len(ConstantText(k)) # 0
      BY <3>2
    <3> QED
      BY <3>3
  <2>4. IsConstant(p)
    BY <1>6 DEF IsConstant
  <2>5. ~Unclosed(k) => Clear(p, FALSE)
    BY <1>6, <2>1 DEF Clear
  <2> QED
    BY <2>1, <2>2, <2>3, <2>4, <2>5
<1>7. CASE ~p.opens /\ s = "CHECK_DEADLOCK"
  BY <1>3, <1>7, SectionKinds
<1> QED
  BY <1>1, <1>2, <1>4, <1>5, <1>6, <1>7 DEF Part

\* What is read back holds nothing that is faulty.
LEMMA ReadBackIsNotFaulty ==
  ASSUME NEW c \in Config, c.deadlock # "error", Parse(Format(c)) = c PROVE ~Faulty(c)
<1> DEFINE b == Len(First(c)) + 1
           m == ThroughConstants(c)
           L == Lines(c)
           N == Len(c.constants)
           D == {"SPECIFICATION", "INIT", "NEXT", "CONSTANT"}
<1>1. /\ Gives(c, b, m, D) /\ Gives(c, b, L, Sections) /\ Extends(m, L)
      /\ EndsInConstants(c, b, m)
  BY LinesAre
<1>2. b \in Nat
  <2>1. "SPECIFICATION" \in Singles /\ "INIT" \in Singles /\ "NEXT" \in Singles
    BY DEF Singles
  <2>2. /\ One(c, "SPECIFICATION") \in Seq(Piece) /\ One(c, "INIT") \in Seq(Piece)
        /\ One(c, "NEXT") \in Seq(Piece)
    BY <2>1, GroupTypes
  <2>3. One(c, "SPECIFICATION") \o One(c, "INIT") \in Seq(Piece)
    BY <2>2, ConcatProperties
  <2>4. First(c) \in Seq(Piece)
    BY <2>2, <2>3, ConcatProperties DEF First
  <2> QED
    BY <2>4
<1> HIDE DEF b, m, L
<1>3. L \in Seq(Piece) /\ Chained(L) /\ \A i \in 1..Len(L) : Part(c, b, i, L[i])
  BY <1>1 DEF Gives, Made
<1>4. MeaningOf(L) = c /\ m \in Seq(Piece)
  BY <1>1, GivesType, SaysAll DEF Gives
<1>5. Sound(c)
  <2>1. Format(c) \in Seq(Token)
    BY <1>3, TextType DEF Format, L
  <2> QED
    BY <2>1, ParseIsSound
<1>6. /\ N \in Nat /\ DOMAIN c.constants = 1..N /\ Len(L) \in Nat /\ Len(m) \in Nat
      /\ \A s \in Lists : DOMAIN c.many[s] = 1..Len(c.many[s])
  <2>1. c.constants \in Seq(Constants) /\ \A s \in Lists : c.many[s] \in Seq(Seq(Token))
    BY DEF Config
  <2> QED
    BY <1>3, <1>4, <2>1
<1>7. ASSUME NEW i \in 1..N, Unclosed(c.constants[i]) PROVE NothingAfter(c, i)
  <2>1. /\ Len(m) = b + N /\ L[b + i] = Entry("CONSTANTS", c.constants[i])
        /\ b + i \in 1..Len(L) /\ Len(m) <= Len(L) /\ (Len(m) = Len(L) => L = m)
    <3>1. c.constants # <<>>
      BY <1>6
    <3>2. Len(m) = b + N /\ m[b + i] = Entry("CONSTANTS", c.constants[i])
      BY <1>1, <3>1 DEF EndsInConstants
    <3>3. /\ Len(m) <= Len(L) /\ (\A j \in 1..Len(m) : L[j] = m[j])
          /\ (Len(m) = Len(L) => L = m)
      BY <1>1, <1>4, ExtendsIs
    <3>4. b + i \in 1..Len(m) /\ b + i \in 1..Len(L)
      BY <1>2, <1>6, <3>2, <3>3
    <3> QED
      BY <3>2, <3>3, <3>4
  <2> DEFINE Takes(j) == IsConstant(L[j]) /\ Unclosed(L[j].entry)
             U == {j \in 1..Len(L) : Takes(j)}
  <2>2. b + i \in U
    <3>1. SectionOf("CONSTANTS") = "CONSTANT"
      BY DEF SectionOf
    <3> QED
      BY <1>7, <2>1, <3>1 DEF IsConstant, Entry
  <2>3. PICK M \in U : \A j \in U : M <= j
    <3>1. U \in SUBSET Nat /\ U # {}
      BY <2>2
    <3> HIDE DEF U
    <3> QED
      BY <3>1, LeastNumber
  <2>4. M \in 1..Len(L) /\ Takes(M) /\ M <= b + i /\ \A j \in 1..(M - 1) : ~Takes(j)
    <3>1. M \in 1..Len(L) /\ Takes(M) /\ M <= b + i
      BY <2>2, <2>3
    <3>2. ASSUME NEW j \in 1..(M - 1), Takes(j) PROVE FALSE
      <4>1. j \in 1..Len(L) /\ ~(M <= j)
        BY <1>6, <3>1
      <4>2. j \in U
        BY <3>2, <4>1
      <4> QED
        BY <2>3, <4>1, <4>2
    <3> QED
      BY <3>1, <3>2
  <2> HIDE DEF U
  <2>5. CASE M = Len(L)
    <3>1. i = N /\ L = m
      BY <1>2, <1>6, <2>1, <2>4, <2>5
    <3>2. Says(c, c, D)
      BY <1>1, <1>4, <3>1 DEF Gives
    <3>3. /\ \A s \in Lists : s \notin D
          /\ \A s \in Singles \ {"SPECIFICATION", "INIT", "NEXT"} : s \notin D
          /\ "CHECK_DEADLOCK" \notin D
      BY DEF Lists, Singles
    <3>4. /\ \A s \in Lists : c.many[s] = <<>>
          /\ \A s \in Singles \ {"SPECIFICATION", "INIT", "NEXT"} : c.one[s] = <<>>
          /\ c.deadlock = "unset"
      BY <3>2, <3>3 DEF Says
    <3> QED
      BY <3>1, <3>4 DEF NothingAfter
  <2>6. CASE M < Len(L)
    <3> DEFINE e == L[M]
               z == L[Len(L)]
    <3>1. PICK a \in Seq(Piece), r \in Seq(Piece) :
            /\ L = Append(a, e) \o r /\ Len(a) = M - 1 /\ \A j \in 1..(M - 1) : a[j] = L[j]
            /\ M < Len(L) => \E d \in Seq(Piece) : r = Append(d, z)
      BY <1>3, <2>4, SplitAt
    <3>2. PICK d \in Seq(Piece) : r = Append(d, z)
      BY <2>6, <3>1
    <3>3. /\ e \in Piece /\ z \in Piece /\ Part(c, b, M, e) /\ Part(c, b, Len(L), z)
          /\ \A j \in 1..(M - 1) : L[j] \in Piece /\ Part(c, b, j, L[j])
      <4>1. \A j \in 1..(M - 1) : j \in 1..Len(L)
        BY <1>6, <2>4
      <4>2. Len(L) \in 1..Len(L)
        BY <1>6, <2>4
      <4> QED
        BY <1>3, <2>4, <4>1, <4>2
    <3>4. ASSUME NEW j \in 1..Len(a) PROVE Clear(a[j], FALSE)
      <4>1. j \in 1..(M - 1) /\ j \in Nat /\ a[j] = L[j]
        BY <2>4, <3>1
      <4>2. L[j] \in Piece /\ Part(c, b, j, L[j]) /\ ~Takes(j)
        BY <2>4, <3>3, <4>1
      <4>3. Clear(L[j], FALSE)
        BY <1>2, <1>5, <4>1, <4>2, PartIsSound
      <4> QED
        BY <4>1, <4>3
    <3>5. IsConstant(e) /\ Unclosed(e.entry) /\ ReadableConstant(e.entry)
      <4>1. IsConstant(e) /\ Unclosed(e.entry) /\ M \in Nat
        BY <2>4
      <4> HIDE DEF e
      <4> QED
        BY <1>2, <1>5, <3>3, <4>1, PartIsSound
    <3>6. Chained(a) /\ a # <<>> /\ a[Len(a)].kw = e.kw
      <4>1. ASSUME NEW j \in 1..(M - 1), ~L[j].opens
            PROVE  j - 1 \in 1..(M - 1) /\ L[j - 1].kw = L[j].kw
        <5>1. j \in 1..Len(L)
          BY <1>6, <2>4
        <5>2. j - 1 \in 1..Len(L) /\ L[j - 1].kw = L[j].kw
          BY <1>3, <4>1, <5>1 DEF Chained
        <5> QED
          BY <2>4, <5>2
      <4>2. ASSUME NEW j \in 1..Len(a), ~a[j].opens
            PROVE  j - 1 \in 1..Len(a) /\ a[j - 1].kw = a[j].kw
        <5>1. j \in 1..(M - 1) /\ a[j] = L[j]
          BY <3>1
        <5>2. j - 1 \in 1..(M - 1) /\ L[j - 1].kw = L[j].kw
          BY <4>1, <4>2, <5>1
        <5>3. a[j - 1] = L[j - 1]
          BY <3>1, <5>2
        <5> QED
          BY <3>1, <5>1, <5>2, <5>3
      <4>3. M - 1 \in 1..Len(L) /\ L[M - 1].kw = e.kw
        BY <1>3, <2>4, <3>5 DEF Chained, IsConstant
      <4>4. M - 1 \in 1..(M - 1)
        BY <2>4, <4>3
      <4>5. a[Len(a)] = L[M - 1] /\ Len(a) # 0
        BY <3>1, <4>4
      <4> QED
        BY <4>2, <4>3, <4>5 DEF Chained
    <3>7. TextOf(r) # <<>>
      <4>1. PieceText(z) # <<>> /\ PieceText(z) \in Seq(Token) /\ TextOf(d) \in Seq(Token)
        <5> HIDE DEF z
        <5> QED
          BY <1>2, <1>5, <1>6, <3>3, PartIsSound, PieceTextType, TextType
      <4>2. TextOf(r) = TextOf(d) \o PieceText(z)
        BY <3>2, <3>3, TextOneMore
      <4> DEFINE x == TextOf(d)
                 y == PieceText(z)
      <4> HIDE DEF x, y
      <4>3. Len(x \o y) = Len(x) + Len(y) /\ Len(x) \in Nat /\ Len(y) \in Nat /\ Len(y) # 0
        BY <4>1, ConcatProperties DEF x, y
      <4>4. Len(x \o y) # 0
        BY <4>3
      <4>5. x \o y # <<>>
        BY <4>4
      <4> QED
        BY <4>2, <4>5 DEF x, y
    <3> HIDE DEF e
    <3>8. Parse(TextOf(L)) # MeaningOf(L)
      BY <3>1, <3>3, <3>4, <3>5, <3>6, <3>7, UnclosedIsNotRead
    <3> QED
      BY <1>4, <3>8 DEF Format, L
  <2> QED
    BY <1>6, <2>4, <2>5, <2>6
<1>8. ASSUME NEW s \in Singles, c.one[s] # <<>> PROVE ReadableName(c.one[s])
  BY <1>5, <1>8 DEF Sound
<1>9. ASSUME NEW s \in Lists, NEW i \in DOMAIN c.many[s] PROVE ReadableName(c.many[s][i])
  BY <1>5, <1>6 DEF Sound
<1>10. ASSUME NEW i \in DOMAIN c.constants PROVE ReadableConstant(c.constants[i])
  BY <1>5, <1>6 DEF Sound
<1> QED
  BY <1>6, <1>7, <1>8, <1>9, <1>10 DEF Faulty

\* What is written for any configuration, of any number of names and
\* constants of any length, is read back as that configuration exactly when
\* nothing in it is faulty.
THEOREM WhatIsWrittenIsReadBack == Spec => []ReadBackUnlessFaulty
<1>1. WrittenInPieces => ReadBackUnlessFaulty
  <2> SUFFICES ASSUME WrittenInPieces PROVE ReadBackUnlessFaulty
    OBVIOUS
  <2>1. Meaning \in Config /\ Meaning.deadlock # "error"
    BY MeaningIsNoError DEF WrittenInPieces, Meaning
  <2>2. ~Faulty(Meaning) => Parse(Format(Meaning)) = Meaning
    BY <2>1, NotFaultyIsRead
  <2>3. Parse(Format(Meaning)) = Meaning => ~Faulty(Meaning)
    BY <2>1, ReadBackIsNotFaulty
  <2> QED
    BY <2>2, <2>3 DEF ReadBackUnlessFaulty
<1> QED
  BY <1>1, EntriesStandInSections, PTL
=============================================================================
