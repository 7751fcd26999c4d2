------------------------- MODULE ToolOutput_proofs --------------------------
(***************************************************************************)
(* Framing, for every output: fed line by line, the automaton of           *)
(* parse_tool_output has found the messages that the output has by the     *)
(* definition without an automaton.                                        *)
(***************************************************************************)
EXTENDS ToolOutput, FiniteSetTheorems, SequenceTheorems, NaturalsInduction,
        WellFoundedInduction, TLAPS

Body == Seq(Line)

Message == [code: STRING, sev: STRING, body: Body]

\* How many frames end no later than p.
Rank(lines, p) == Cardinality({q \in Frames(lines) : q[2] <= p[2]})

\* A START at s and no delimiter since.
OpenAt(lines, s) == /\ s \in 1..Len(lines) /\ lines[s].kind = "start"
                    /\ \A i \in (s + 1)..Len(lines) : ~IsDelimiter(lines[i])

Framed(msgs, lines) ==
  /\ msgs \in Seq(Message) /\ Len(msgs) = Cardinality(Frames(lines))
  /\ \A p \in Frames(lines) : /\ Rank(lines, p) \in 1..Len(msgs)
                              /\ msgs[Rank(lines, p)] = FramedMessage(lines, p)
  /\ \A i \in 1..Len(msgs) : \E p \in Frames(lines) : Rank(lines, p) = i

\* What the automaton knows after these lines.
Follows(f, lines) ==
  /\ f \in [open: BOOLEAN, cur: Message \cup {NoMessage}, msgs: Seq(Message)]
  /\ Framed(f.msgs, lines)
  /\ f.open => \E s \in 1..Len(lines) :
                 /\ OpenAt(lines, s)
                 /\ f.cur = [code |-> lines[s].code, sev |-> lines[s].sev,
                             body |-> SubSeq(lines, s + 1, Len(lines))]
  /\ ~f.open => \A s \in 1..Len(lines) : ~OpenAt(lines, s)

-----------------------------------------------------------------------------
(***************************************************************************)
(* Induction without an operator for a parameter: over sets of numbers and *)
(* of sequences, from the least number that is not in the set.             *)
(***************************************************************************)
LEMMA LeastNumber ==
  ASSUME NEW T \in SUBSET Nat, T # {} PROVE \E x \in T : \A y \in T : x <= y
<1> DEFINE Less == OpToRel(<, Nat)
<1>1. IsWellFoundedOn(Less, Nat)
  BY NatLessThanWellFounded
<1>2. PICK x \in T : \A y \in T : ~(<<y, x>> \in Less)
  BY <1>1, WFMin
<1>3. \A y \in T : ~(y < x)
  BY <1>2 DEF OpToRel
<1> QED
  BY <1>3

\* Induction up to a number, by the least one that is not in the set.
LEMMA UpTo ==
  ASSUME NEW N \in Nat, NEW T, 0 \in T,
         \A n \in 1..N : n - 1 \in T => n \in T
  PROVE  \A n \in 0..N : n \in T
<1> SUFFICES ASSUME NEW k \in 0..N, k \notin T PROVE FALSE
  OBVIOUS
<1> DEFINE Without == (0..N) \ T
<1>1. Without \in SUBSET Nat /\ Without # {}
  OBVIOUS
<1> HIDE DEF Without
<1>2. PICK m \in Without : \A y \in Without : m <= y
  BY <1>1, LeastNumber
<1>3. m \in 0..N /\ m \notin T
  BY DEF Without
<1>4. m \in 1..N /\ m - 1 \in 0..N /\ ~(m <= m - 1)
  BY <1>3
<1>5. m - 1 \notin Without
  BY <1>2, <1>4
<1>6. m - 1 \in T
  BY <1>4, <1>5 DEF Without
<1> QED
  BY <1>3, <1>4, <1>6

\* A recursive function of the number of a step exists.
Steps(S, N) == [S \X (1..N) -> S]

IsRun(f, base, step, N) ==
  f = [n \in 0..N |-> IF n = 0 THEN base ELSE step[<<f[n - 1], n>>]]

LEMMA Recursion ==
  ASSUME NEW N \in Nat, NEW S, NEW base \in S, NEW step \in Steps(S, N)
  PROVE  \E f \in [0..N -> S] : IsRun(f, base, step, N)
<1> USE DEF Steps, IsRun
<1> DEFINE Upto(k, f) == /\ f \in [0..k -> S] /\ f[0] = base
                         /\ \A n \in 1..k : f[n] = step[<<f[n - 1], n>>]
           T == {k \in 0..N : \E f : Upto(k, f)}
<1>1. 0 \in T
  <2>1. Upto(0, [n \in 0..0 |-> base])
    OBVIOUS
  <2> HIDE DEF Upto
  <2>2. \E f : Upto(0, f)
    BY <2>1
  <2> QED
    BY <2>2
<1>2. ASSUME NEW k \in 1..N, k - 1 \in T PROVE k \in T
  <2>1. PICK f : Upto(k - 1, f)
    BY <1>2
  <2> DEFINE g == [n \in 0..k |-> IF n = k THEN step[<<f[k - 1], k>>] ELSE f[n]]
  <2>2. k \in Nat /\ k - 1 \in 0..(k - 1) /\ 0 \in 0..(k - 1)
        /\ \A n \in 0..k : n = k \/ n \in 0..(k - 1)
    OBVIOUS
  <2>3. f[k - 1] \in S /\ step[<<f[k - 1], k>>] \in S
    BY <2>1, <2>2
  <2>4. g \in [0..k -> S]
    BY <2>1, <2>2, <2>3
  <2>5. g[0] = base
    BY <2>1, <2>2
  <2>6. ASSUME NEW n \in 1..k PROVE g[n] = step[<<g[n - 1], n>>]
    <3>1. n - 1 \in 0..(k - 1) /\ n - 1 # k /\ n - 1 \in 0..k /\ n \in 0..k
      OBVIOUS
    <3>2. g[n - 1] = f[n - 1]
      BY <3>1
    <3>3. CASE n = k
      BY <3>1, <3>2, <3>3
    <3>4. CASE n # k
      <4>1. n \in 1..(k - 1)
        BY <3>4
      <4> QED
        BY <2>1, <3>1, <3>2, <3>4, <4>1
    <3> QED
      BY <3>3, <3>4
  <2> HIDE DEF g
  <2>7. Upto(k, g)
    BY <2>4, <2>5, <2>6
  <2> QED
    BY <2>7
<1> HIDE DEF T
<1>3. N \in T
  BY <1>1, <1>2, UpTo
<1>4. PICK f : Upto(N, f)
  BY <1>3 DEF T
<1>5. \A n \in 0..N : f[n] = IF n = 0 THEN base ELSE step[<<f[n - 1], n>>]
  <2> SUFFICES ASSUME NEW n \in 0..N, n # 0 PROVE f[n] = step[<<f[n - 1], n>>]
    BY <1>4
  <2>1. n \in 1..N
    OBVIOUS
  <2> QED
    BY <1>4, <2>1
<1> DEFINE h == [n \in 0..N |-> IF n = 0 THEN base ELSE step[<<f[n - 1], n>>]]
<1>6. f = h
  <2>1. f = [n \in 0..N |-> f[n]]
    BY <1>4
  <2>2. \A n \in 0..N : f[n] = h[n]
    BY <1>5
  <2>3. h = [n \in 0..N |-> h[n]]
    OBVIOUS
  <2> HIDE DEF h
  <2> QED
    BY <2>1, <2>2, <2>3
<1> QED
  BY <1>4, <1>6

\* Induction by the last element of a sequence.
LEMMA ByLastElement ==
  ASSUME NEW S, NEW T, <<>> \in T,
         \A s \in Seq(S), e \in S : s \in T => Append(s, e) \in T
  PROVE  \A s \in Seq(S) : s \in T
<1> SUFFICES ASSUME NEW s \in Seq(S) PROVE s \in T
  OBVIOUS
<1> DEFINE N == Len(s)
           prefix(n) == SubSeq(s, 1, n)
           U == {n \in 0..N : prefix(n) \in T}
<1>1. N \in Nat /\ \A i \in 1..N : s[i] \in S
  OBVIOUS
<1>2. prefix(0) = <<>>
  BY SubSeqEmpty
<1>3. ASSUME NEW n \in 1..N PROVE prefix(n) = Append(prefix(n - 1), s[n]) /\ prefix(n - 1) \in Seq(S)
  <2>1. /\ n \in Nat /\ n - 1 \in Nat
        /\ \A i \in 1..n : s[i] \in S
        /\ \A i \in 1..(n - 1) : s[i] \in S
    BY <1>1
  <2>2. /\ prefix(n) \in Seq(S) /\ Len(prefix(n)) = n
        /\ \A i \in 1..n : prefix(n)[i] = s[i]
    BY <1>1, <2>1, SubSeqProperties
  <2>3. /\ prefix(n - 1) \in Seq(S) /\ Len(prefix(n - 1)) = n - 1
        /\ \A i \in 1..(n - 1) : prefix(n - 1)[i] = s[i]
    BY <1>1, <2>1, SubSeqProperties
  <2> HIDE DEF prefix
  <2> DEFINE a == Append(prefix(n - 1), s[n])
  <2>4. /\ a \in Seq(S) /\ Len(a) = n /\ a[n] = s[n]
        /\ \A i \in 1..(n - 1) : a[i] = prefix(n - 1)[i]
    BY <2>1, <2>3
  <2> HIDE DEF a
  <2>5. ASSUME NEW i \in 1..n PROVE prefix(n)[i] = a[i]
    <3>1. CASE i = n
      BY <2>2, <2>4, <3>1
    <3>2. CASE i # n
      <4>1. i \in 1..(n - 1)
        BY <3>2
      <4> QED
        BY <2>2, <2>3, <2>4, <4>1
    <3> QED
      BY <3>1, <3>2
  <2>6. prefix(n) = a
    BY <2>2, <2>4, <2>5, SeqEqual
  <2> QED
    BY <2>3, <2>6 DEF a
<1>4. prefix(N) = s
  <2>1. /\ prefix(N) \in Seq(S) /\ Len(prefix(N)) = N
        /\ \A i \in 1..N : prefix(N)[i] = s[i]
    BY <1>1, SubSeqProperties
  <2> QED
    BY <2>1, SeqEqual
<1> HIDE DEF prefix, N
<1>5. 0 \in U
  BY <1>1, <1>2
<1>6. ASSUME NEW n \in 1..N, n - 1 \in U PROVE n \in U
  <2>1. s[n] \in S /\ prefix(n - 1) \in T
    BY <1>1, <1>6
  <2>2. prefix(n) \in T
    BY <1>3, <2>1
  <2> QED
    BY <1>1, <2>2
<1> HIDE DEF U
<1>7. \A n \in 0..N : n \in U
  BY <1>1, <1>5, <1>6, UpTo
<1>8. N \in U
  BY <1>1, <1>7
<1> QED
  BY <1>4, <1>8 DEF U
-----------------------------------------------------------------------------
LEMMA FramesFinite ==
  ASSUME NEW lines \in Body
  PROVE  /\ IsFiniteSet(Frames(lines)) /\ Cardinality(Frames(lines)) \in Nat
         /\ \A p : /\ IsFiniteSet({q \in Frames(lines) : q[2] <= p[2]})
                   /\ Rank(lines, p) \in 0..Cardinality(Frames(lines))
<1> DEFINE I == 1..Len(lines)
<1>1. Len(lines) \in Nat
  OBVIOUS
<1>2. IsFiniteSet(I)
  BY <1>1, FS_Interval
<1>3. IsFiniteSet(I \X I)
  BY <1>2, FS_Product
<1>4. Frames(lines) \subseteq I \X I
  BY DEF Frames
<1>5. IsFiniteSet(Frames(lines)) /\ Cardinality(Frames(lines)) \in Nat
  BY <1>3, <1>4, FS_Subset, FS_CardinalityType
<1>6. ASSUME NEW p PROVE /\ IsFiniteSet({q \in Frames(lines) : q[2] <= p[2]})
                         /\ Rank(lines, p) \in 0..Cardinality(Frames(lines))
  <2> DEFINE T == {q \in Frames(lines) : q[2] <= p[2]}
  <2>1. T \in SUBSET Frames(lines)
    OBVIOUS
  <2> HIDE DEF T
  <2>2. IsFiniteSet(T) /\ Cardinality(T) <= Cardinality(Frames(lines))
    BY <1>5, <2>1, FS_Subset
  <2>3. Cardinality(T) \in Nat
    BY <2>2, FS_CardinalityType
  <2>4. Cardinality(T) = Rank(lines, p)
    BY DEF T, Rank
  <2> QED
    BY <1>5, <2>2, <2>3, <2>4 DEF T
<1> QED
  BY <1>5, <1>6

\* What framing says of an output is all there is to its messages.
LEMMA FramedIsMessages ==
  ASSUME NEW lines \in Body, NEW msgs, Framed(msgs, lines)
  PROVE  msgs = FramedMessages(lines)
<1> DEFINE n == Cardinality(Frames(lines))
           chosen(i) == CHOOSE p \in Frames(lines) :
                          Cardinality({q \in Frames(lines) : q[2] <= p[2]}) = i
<1>1. n \in Nat /\ msgs \in Seq(Message) /\ Len(msgs) = n
  BY FramesFinite DEF Framed
<1>2. ASSUME NEW i \in 1..n PROVE msgs[i] = FramedMessage(lines, chosen(i))
  <2>1. \E p \in Frames(lines) : Cardinality({q \in Frames(lines) : q[2] <= p[2]}) = i
    BY <1>1 DEF Framed, Rank
  <2>2. /\ chosen(i) \in Frames(lines)
        /\ Cardinality({q \in Frames(lines) : q[2] <= chosen(i)[2]}) = i
    BY <2>1
  <2> HIDE DEF chosen
  <2>3. Rank(lines, chosen(i)) = i
    BY <2>2 DEF Rank
  <2> QED
    BY <2>2, <2>3 DEF Framed
<1>3. FramedMessages(lines) = [i \in 1..n |-> FramedMessage(lines, chosen(i))]
  BY DEF FramedMessages
<1> HIDE DEF chosen, n
<1>4. msgs = [i \in 1..n |-> msgs[i]]
  BY <1>1
<1> QED
  BY <1>2, <1>3, <1>4
-----------------------------------------------------------------------------
(***************************************************************************)
(* One more line: which frames, open messages and texts there are then.    *)
(***************************************************************************)
LEMMA SubSeqOfAppend ==
  ASSUME NEW lines \in Body, NEW l \in Line,
         NEW a \in 1..(Len(lines) + 1), NEW b \in 0..Len(lines)
  PROVE  /\ SubSeq(Append(lines, l), a, b) = SubSeq(lines, a, b)
         /\ SubSeq(lines, a, b) \in Body
<1> DEFINE M == Append(lines, l)
<1>1. /\ M \in Seq(Line) /\ Len(lines) \in Nat
      /\ \A i \in 1..Len(lines) : M[i] = lines[i] /\ lines[i] \in Line
  BY DEF Body
<1> HIDE DEF M
<1>2. \A i \in a..b : M[i] = lines[i] /\ lines[i] \in Line
  BY <1>1
<1>3. /\ SubSeq(M, a, b) \in Seq(Line) /\ SubSeq(lines, a, b) \in Seq(Line)
      /\ Len(SubSeq(M, a, b)) = Len(SubSeq(lines, a, b))
      /\ Len(SubSeq(M, a, b)) = IF a <= b THEN b - a + 1 ELSE 0
      /\ \A i \in 1..(b - a + 1) : /\ SubSeq(M, a, b)[i] = M[a + i - 1]
                                   /\ SubSeq(lines, a, b)[i] = lines[a + i - 1]
  BY <1>2, SubSeqProperties
<1>4. \A i \in 1..Len(SubSeq(M, a, b)) : SubSeq(M, a, b)[i] = SubSeq(lines, a, b)[i]
  BY <1>1, <1>3
<1>5. SubSeq(M, a, b) = SubSeq(lines, a, b)
  BY <1>3, <1>4, SeqEqual
<1> QED
  BY <1>3, <1>5 DEF M, Body

\* A text belongs to the message that is open.
LEMMA SubSeqToTheEnd ==
  ASSUME NEW lines \in Body, NEW l \in Line, NEW a \in 1..(Len(lines) + 1)
  PROVE  SubSeq(Append(lines, l), a, Len(lines) + 1) =
           Append(SubSeq(lines, a, Len(lines)), l)
<1> DEFINE n == Len(lines)
           M == Append(lines, l)
           old == SubSeq(lines, a, n)
           new == SubSeq(M, a, n + 1)
<1>1. /\ M \in Seq(Line) /\ n \in Nat /\ Len(M) = n + 1 /\ M[n + 1] = l
      /\ \A i \in 1..n : M[i] = lines[i] /\ lines[i] \in Line
  BY DEF Body
<1> HIDE DEF M, n
<1>2. /\ \A i \in a..(n + 1) : M[i] \in Line
      /\ \A i \in a..n : lines[i] \in Line
  BY <1>1 DEF n
<1>3. /\ new \in Seq(Line) /\ Len(new) = n - a + 2
      /\ \A i \in 1..(n - a + 2) : new[i] = M[a + i - 1]
  BY <1>1, <1>2, SubSeqProperties DEF n
<1>4. /\ old \in Seq(Line) /\ Len(old) = n - a + 1
      /\ \A i \in 1..(n - a + 1) : old[i] = lines[a + i - 1]
  BY <1>1, <1>2, SubSeqProperties DEF n
<1> HIDE DEF old, new
<1>5. /\ Append(old, l) \in Seq(Line) /\ Len(Append(old, l)) = n - a + 2
      /\ Append(old, l)[n - a + 2] = l
      /\ \A i \in 1..(n - a + 1) : Append(old, l)[i] = old[i]
  BY <1>1, <1>4
<1>6. \A i \in 1..(n - a + 2) : new[i] = Append(old, l)[i]
  <2> SUFFICES ASSUME NEW i \in 1..(n - a + 2) PROVE new[i] = Append(old, l)[i]
    OBVIOUS
  <2>1. n \in Nat /\ a \in 1..(n + 1) /\ new[i] = M[a + i - 1]
    BY <1>1, <1>3 DEF n
  <2>2. CASE i = n - a + 2
    <3>1. a + i - 1 = n + 1
      BY <2>1, <2>2
    <3> QED
      BY <1>1, <1>5, <2>1, <2>2, <3>1
  <2>3. CASE i \in 1..(n - a + 1)
    <3>1. a + i - 1 \in 1..n
      BY <2>1, <2>3
    <3>2. Append(old, l)[i] = lines[a + i - 1]
      BY <1>4, <1>5, <2>3
    <3>3. M[a + i - 1] = lines[a + i - 1]
      BY <1>1, <3>1
    <3> QED
      BY <2>1, <3>2, <3>3, Zenon
  <2>4. i = n - a + 2 \/ i \in 1..(n - a + 1)
    BY <2>1
  <2> QED
    BY <2>2, <2>3, <2>4, Zenon
<1>7. new = Append(old, l)
  BY <1>3, <1>5, <1>6, SeqEqual
<1> QED
  BY <1>7 DEF new, old, M, n

LEMMA OpenIsUnique ==
  ASSUME NEW lines \in Body, NEW s, NEW t, OpenAt(lines, s), OpenAt(lines, t)
  PROVE  s = t
<1>1. Len(lines) \in Nat /\ s \in 1..Len(lines) /\ t \in 1..Len(lines)
  BY DEF OpenAt, Body
<1>2. ~(s < t)
  <2>1. s < t => t \in (s + 1)..Len(lines)
    BY <1>1
  <2> QED
    BY <2>1 DEF OpenAt, IsDelimiter
<1>3. ~(t < s)
  <2>1. t < s => s \in (t + 1)..Len(lines)
    BY <1>1
  <2> QED
    BY <2>1 DEF OpenAt, IsDelimiter
<1> QED
  BY <1>1, <1>2, <1>3

LEMMA IsFrame ==
  ASSUME NEW lines, NEW s \in 1..Len(lines), NEW t \in 1..Len(lines), s < t,
         lines[s].kind = "start", lines[t].kind = "end",
         \A i \in (s + 1)..(t - 1) : ~IsDelimiter(lines[i])
  PROVE  <<s, t>> \in Frames(lines)
BY DEF Frames

LEMMA OneMoreLine ==
  ASSUME NEW lines \in Body, NEW l \in Line
  PROVE  LET M == Append(lines, l)
             n == Len(lines)
         IN  /\ M \in Body /\ n \in Nat /\ Len(M) = n + 1 /\ M[n + 1] = l
             /\ \A i \in 1..n : M[i] = lines[i]
             /\ \A s \in 1..n : OpenAt(M, s) <=> OpenAt(lines, s) /\ l.kind = "text"
             /\ OpenAt(M, n + 1) <=> l.kind = "start"
             /\ Frames(M) = Frames(lines) \cup
                  {<<s, n + 1>> : s \in {t \in 1..n : OpenAt(lines, t) /\ l.kind = "end"}}
<1> DEFINE M == Append(lines, l)
           n == Len(lines)
           ended == {t \in 1..n : OpenAt(lines, t) /\ l.kind = "end"}
<1>1. /\ M \in Body /\ n \in Nat /\ Len(M) = n + 1 /\ M[n + 1] = l
      /\ \A i \in 1..n : M[i] = lines[i] /\ lines[i] \in Line
  BY DEF Body
<1>2. l.kind \in {"start", "end", "text"}
  BY DEF Line
<1> HIDE DEF M, n
<1>3. ASSUME NEW s \in 1..n PROVE OpenAt(M, s) <=> OpenAt(lines, s) /\ l.kind = "text"
  <2>1. (s + 1)..(n + 1) = ((s + 1)..n) \cup {n + 1}
    BY <1>1
  <2>2. \A i \in (s + 1)..n : M[i] = lines[i]
    BY <1>1
  <2>3. (\A i \in (s + 1)..(n + 1) : ~IsDelimiter(M[i]))
          <=> (\A i \in (s + 1)..n : ~IsDelimiter(lines[i])) /\ ~IsDelimiter(l)
    BY <1>1, <2>1, <2>2
  <2>4. ~IsDelimiter(l) <=> l.kind = "text"
    BY <1>2 DEF IsDelimiter
  <2>5. s \in 1..Len(M) /\ s \in 1..Len(lines) /\ M[s] = lines[s]
    BY <1>1 DEF n
  <2> QED
    BY <1>1, <2>3, <2>4, <2>5 DEF OpenAt, n
<1>4. OpenAt(M, n + 1) <=> l.kind = "start"
  <2>1. (n + 2)..(n + 1) = {} /\ n + 1 \in 1..(n + 1) /\ n + 1 + 1 = n + 2
    BY <1>1
  <2> QED
    BY <1>1, <2>1 DEF OpenAt
<1>5. ASSUME NEW p \in Frames(lines) PROVE p \in Frames(M)
  <2>1. /\ p \in (1..n) \X (1..n) /\ p[1] < p[2]
        /\ lines[p[1]].kind = "start" /\ lines[p[2]].kind = "end"
        /\ \A i \in (p[1] + 1)..(p[2] - 1) : ~IsDelimiter(lines[i])
    BY DEF Frames, n
  <2>2. \A i \in (p[1] + 1)..(p[2] - 1) : i \in 1..n
    BY <1>1, <2>1
  <2>3. p \in (1..Len(M)) \X (1..Len(M))
    BY <1>1, <2>1
  <2>4. M[p[1]].kind = "start" /\ M[p[2]].kind = "end"
    BY <1>1, <2>1
  <2>5. \A i \in (p[1] + 1)..(p[2] - 1) : ~IsDelimiter(M[i])
    BY <1>1, <2>1, <2>2
  <2> QED
    BY <2>1, <2>3, <2>4, <2>5 DEF Frames
<1>6. ASSUME NEW s \in ended PROVE <<s, n + 1>> \in Frames(M)
  <2>1. /\ s \in 1..n /\ l.kind = "end" /\ lines[s].kind = "start"
        /\ \A i \in (s + 1)..n : ~IsDelimiter(lines[i])
    BY DEF OpenAt, n
  <2>2. \A i \in (s + 1)..(n + 1 - 1) : ~IsDelimiter(M[i])
    BY <1>1, <2>1
  <2>3. M[s].kind = "start" /\ M[n + 1].kind = "end"
    BY <1>1, <2>1
  <2>4. s \in 1..Len(M) /\ n + 1 \in 1..Len(M) /\ s < n + 1
    BY <1>1, <2>1
  <2> QED
    BY <1>1, <2>2, <2>3, <2>4, IsFrame
<1>7. ASSUME NEW p \in Frames(M), p \notin Frames(lines)
      PROVE  \E s \in ended : p = <<s, n + 1>>
  <2>1. /\ p \in (1..(n + 1)) \X (1..(n + 1)) /\ p[1] < p[2]
        /\ M[p[1]].kind = "start" /\ M[p[2]].kind = "end"
        /\ \A i \in (p[1] + 1)..(p[2] - 1) : ~IsDelimiter(M[i])
    BY <1>1 DEF Frames
  <2>2. p[1] \in 1..n /\ p[2] \in 1..(n + 1) /\ p = <<p[1], p[2]>>
    BY <1>1, <2>1
  <2>3. p[2] = n + 1
    <3>1. SUFFICES ASSUME p[2] \in 1..n PROVE FALSE
      BY <1>1, <2>2
    <3>2. p \in (1..n) \X (1..n)
      BY <2>2, <3>1
    <3>3. \A i \in (p[1] + 1)..(p[2] - 1) : i \in 1..n
      BY <1>1, <2>2, <3>1
    <3>4. lines[p[1]].kind = "start" /\ lines[p[2]].kind = "end"
      BY <1>1, <2>1, <2>2, <3>1
    <3>5. \A i \in (p[1] + 1)..(p[2] - 1) : ~IsDelimiter(lines[i])
      BY <1>1, <2>1, <3>3
    <3>6. p \in Frames(lines)
      BY <2>1, <3>2, <3>4, <3>5 DEF Frames, n
    <3> QED
      BY <1>7, <3>6
  <2>4. l.kind = "end"
    BY <1>1, <2>1, <2>3
  <2>5. OpenAt(lines, p[1])
    <3>1. \A i \in (p[1] + 1)..n : ~IsDelimiter(lines[i])
      BY <1>1, <2>1, <2>2, <2>3
    <3> QED
      BY <1>1, <2>1, <2>2, <3>1 DEF OpenAt, n
  <2> QED
    BY <2>2, <2>3, <2>4, <2>5
<1>8. Frames(M) = Frames(lines) \cup {<<s, n + 1>> : s \in ended}
  BY <1>5, <1>6, <1>7
<1> QED
  BY <1>1, <1>3, <1>4, <1>8 DEF M, n

LEMMA FramesAfter ==
  ASSUME NEW lines \in Body, NEW l \in Line
  PROVE  Frames(Append(lines, l)) = Frames(lines) \cup
           {<<s, Len(lines) + 1>> : s \in {t \in 1..Len(lines) : OpenAt(lines, t) /\ l.kind = "end"}}
<1> DEFINE F == Frames(lines) \cup
                  {<<s, Len(lines) + 1>> : s \in {t \in 1..Len(lines) : OpenAt(lines, t) /\ l.kind = "end"}}
<1> HIDE DEF F
<1>1. Frames(Append(lines, l)) = F
  BY OneMoreLine DEF F
<1> QED
  BY <1>1 DEF F

\* The frames of an output are those of its beginning, and their messages
\* the same.
LEMMA FrameParts ==
  ASSUME NEW lines \in Body, NEW l \in Line, NEW p \in Frames(lines)
  PROVE  /\ p[1] \in 1..Len(lines) /\ p[2] \in 1..Len(lines)
         /\ FramedMessage(Append(lines, l), p) = FramedMessage(lines, p)
         /\ FramedMessage(lines, p) \in Message
<1> DEFINE M == Append(lines, l)
<1>1. p[1] \in 1..Len(lines) /\ p[2] \in 1..Len(lines) /\ Len(lines) \in Nat
  BY DEF Frames, Body
<1>2. M[p[1]] = lines[p[1]] /\ lines[p[1]] \in Line
  BY <1>1 DEF Body
<1>3. p[1] + 1 \in 1..(Len(lines) + 1) /\ p[2] - 1 \in 0..Len(lines)
  BY <1>1
<1>4. /\ SubSeq(M, p[1] + 1, p[2] - 1) = SubSeq(lines, p[1] + 1, p[2] - 1)
      /\ SubSeq(lines, p[1] + 1, p[2] - 1) \in Body
  BY <1>3, SubSeqOfAppend
<1>5. lines[p[1]].code \in STRING /\ lines[p[1]].sev \in STRING
  BY <1>2 DEF Line
<1> HIDE DEF M
<1>6. FramedMessage(M, p) = FramedMessage(lines, p) /\ FramedMessage(lines, p) \in Message
  BY <1>2, <1>4, <1>5 DEF FramedMessage, Message
<1> QED
  BY <1>1, <1>6 DEF M

LEMMA SameFrames ==
  ASSUME NEW lines \in Body, NEW l \in Line, NEW msgs, Framed(msgs, lines),
         Frames(Append(lines, l)) = Frames(lines)
  PROVE  Framed(msgs, Append(lines, l))
<1> DEFINE M == Append(lines, l)
<1>1. Frames(M) = Frames(lines)
  OBVIOUS
<1>2. \A p \in Frames(lines) : FramedMessage(M, p) = FramedMessage(lines, p)
  BY FrameParts
<1> HIDE DEF M
<1>3. \A p : Rank(M, p) = Rank(lines, p)
  BY <1>1 DEF Rank
<1>4. Framed(msgs, M)
  BY <1>1, <1>2, <1>3 DEF Framed
<1> QED
  BY <1>4 DEF M

\* An END closes one more frame.
LEMMA NewFrame ==
  ASSUME NEW lines \in Body, NEW l \in Line, l.kind = "end",
         NEW s \in 1..Len(lines), OpenAt(lines, s)
  PROVE  LET M == Append(lines, l)
             e == <<s, Len(lines) + 1>>
             m == [code |-> lines[s].code, sev |-> lines[s].sev,
                   body |-> SubSeq(lines, s + 1, Len(lines))]
         IN  /\ Frames(M) = Frames(lines) \cup {e} /\ e \notin Frames(lines)
             /\ m \in Message /\ FramedMessage(M, e) = m
<1> DEFINE M == Append(lines, l)
           n == Len(lines)
           F == Frames(lines)
           e == <<s, n + 1>>
           m == [code |-> lines[s].code, sev |-> lines[s].sev,
                 body |-> SubSeq(lines, s + 1, Len(lines))]
<1>1. n \in Nat
  BY DEF Body
<1>2. Frames(M) = F \cup {e}
  <2>1. Frames(M) = F \cup {<<t, n + 1>> : t \in {u \in 1..n : OpenAt(lines, u)}}
    BY OneMoreLine
  <2>2. {u \in 1..n : OpenAt(lines, u)} = {s}
    BY OpenIsUnique
  <2> QED
    BY <2>1, <2>2
<1>3. \A p \in F : p[2] \in 1..n /\ FramedMessage(M, p) = FramedMessage(lines, p)
  BY FrameParts
<1>4. e[1] = s /\ e[2] = n + 1 /\ e \notin F
  BY <1>1, <1>3
<1>5. m \in Message /\ FramedMessage(M, e) = m
  <2>1. s + 1 \in 1..(n + 1) /\ n \in 0..n /\ n + 1 - 1 = n
    BY <1>1
  <2>2. SubSeq(M, s + 1, n) = SubSeq(lines, s + 1, n) /\ SubSeq(lines, s + 1, n) \in Body
    BY <2>1, SubSeqOfAppend
  <2>3. M[s] = lines[s] /\ lines[s] \in Line
    BY DEF Body
  <2>4. lines[s].code \in STRING /\ lines[s].sev \in STRING
    BY <2>3 DEF Line
  <2>5. FramedMessage(M, e) = [code |-> M[s].code, sev |-> M[s].sev,
                               body |-> SubSeq(M, s + 1, n + 1 - 1)]
    BY DEF FramedMessage
  <2> HIDE DEF M
  <2> QED
    BY <2>1, <2>2, <2>3, <2>4, <2>5 DEF Message
<1> QED
  BY <1>2, <1>4, <1>5

LEMMA OneMoreFrame ==
  ASSUME NEW lines \in Body, NEW l \in Line, l.kind = "end",
         NEW msgs, Framed(msgs, lines),
         NEW s \in 1..Len(lines), OpenAt(lines, s)
  PROVE  LET m == [code |-> lines[s].code, sev |-> lines[s].sev,
                   body |-> SubSeq(lines, s + 1, Len(lines))]
         IN  m \in Message /\ Framed(Append(msgs, m), Append(lines, l))
<1> DEFINE M == Append(lines, l)
           n == Len(lines)
           F == Frames(lines)
           k == Cardinality(F)
           e == <<s, n + 1>>
           m == [code |-> lines[s].code, sev |-> lines[s].sev,
                 body |-> SubSeq(lines, s + 1, Len(lines))]
<1>1. n \in Nat /\ IsFiniteSet(F) /\ k \in Nat /\ Len(msgs) = k /\ msgs \in Seq(Message)
  BY FramesFinite DEF Framed, Body
<1>2. Frames(M) = F \cup {e} /\ e \notin F /\ m \in Message /\ FramedMessage(M, e) = m
  BY NewFrame
<1>3. \A p \in F : p[2] \in 1..n /\ FramedMessage(M, p) = FramedMessage(lines, p)
  BY FrameParts
<1>4. e[1] = s /\ e[2] = n + 1 /\ e \notin F
  BY <1>2
<1>5. m \in Message /\ FramedMessage(M, e) = m
  BY <1>2
<1>6. IsFiniteSet(Frames(M)) /\ Cardinality(Frames(M)) = k + 1
  <2> HIDE DEF F, e, M
  <2>1. /\ IsFiniteSet(F \cup {e})
        /\ Cardinality(F \cup {e}) = IF e \in F THEN Cardinality(F) ELSE Cardinality(F) + 1
    BY <1>1, FS_AddElement
  <2> QED
    BY <1>2, <1>4, <2>1
<1>7. \A p \in F : Rank(M, p) = Rank(lines, p)
  <2> SUFFICES ASSUME NEW p \in F
               PROVE  {q \in Frames(M) : q[2] <= p[2]} = {q \in F : q[2] <= p[2]}
    BY DEF Rank
  <2>1. ~(e[2] <= p[2])
    BY <1>1, <1>3, <1>4
  <2> QED
    BY <1>2, <2>1
<1>8. Rank(M, e) = k + 1
  <2>1. \A q \in Frames(M) : q[2] <= e[2]
    BY <1>1, <1>2, <1>3, <1>4
  <2>2. {q \in Frames(M) : q[2] <= e[2]} = Frames(M)
    BY <2>1
  <2> QED
    BY <1>6, <2>2 DEF Rank
<1> HIDE DEF M, n, F, k, e, m
<1>9. /\ Append(msgs, m) \in Seq(Message) /\ Len(Append(msgs, m)) = k + 1
      /\ Append(msgs, m)[k + 1] = m
      /\ \A i \in 1..k : Append(msgs, m)[i] = msgs[i]
  BY <1>1, <1>5
<1>10. \A p \in F : Rank(lines, p) \in 1..k /\ msgs[Rank(lines, p)] = FramedMessage(lines, p)
  BY <1>1 DEF Framed, F
<1>11. ASSUME NEW p \in Frames(M)
       PROVE  /\ Rank(M, p) \in 1..(k + 1)
              /\ Append(msgs, m)[Rank(M, p)] = FramedMessage(M, p)
  <2>1. CASE p = e
    BY <1>1, <1>5, <1>8, <1>9, <2>1
  <2>2. CASE p \in F
    <3>1. Rank(M, p) \in 1..k /\ Rank(M, p) = Rank(lines, p)
      BY <1>7, <1>10, <2>2
    <3>2. Append(msgs, m)[Rank(M, p)] = msgs[Rank(lines, p)]
      BY <1>9, <3>1
    <3> QED
      BY <1>1, <1>3, <1>10, <2>2, <3>1, <3>2
  <2> QED
    BY <1>2, <2>1, <2>2
<1>12. ASSUME NEW i \in 1..(k + 1)
       PROVE  \E p \in Frames(M) : Rank(M, p) = i
  <2>1. CASE i = k + 1
    BY <1>2, <1>8, <2>1
  <2>2. CASE i \in 1..k
    <3>1. PICK p \in F : Rank(lines, p) = i
      BY <1>1, <2>2 DEF Framed, F
    <3> QED
      BY <1>2, <1>7, <3>1
  <2>3. i = k + 1 \/ i \in 1..k
    BY <1>1
  <2> QED
    BY <2>1, <2>2, <2>3
<1>13. Framed(Append(msgs, m), M)
  BY <1>6, <1>9, <1>11, <1>12 DEF Framed
<1> QED
  BY <1>5, <1>13 DEF M, m, n
-----------------------------------------------------------------------------
LEMMA MessageSoFar ==
  ASSUME NEW lines \in Body, NEW s \in 1..Len(lines)
  PROVE  [code |-> lines[s].code, sev |-> lines[s].sev,
          body |-> SubSeq(lines, s + 1, Len(lines))] \in Message
<1>1. s + 1 \in 1..(Len(lines) + 1) /\ Len(lines) \in 0..Len(lines) /\ lines[s] \in Line
  BY DEF Body
<1>2. SubSeq(lines, s + 1, Len(lines)) \in Body
  BY <1>1, SubSeqOfAppend
<1>3. lines[s].code \in STRING /\ lines[s].sev \in STRING
  BY <1>1 DEF Line
<1> QED
  BY <1>2, <1>3 DEF Message

LEMMA NothingRead == Follows(FramerInit, <<>>)
<1>1. Frames(<<>>) = {} /\ <<>> \in Body
  BY DEF Frames, Body
<1>2. Framed(<<>>, <<>>)
  <2>1. <<>> \in Seq(Message) /\ Len(<<>>) = 0
    OBVIOUS
  <2> QED
    <3>1. Cardinality(Frames(<<>>)) = 0
      BY <1>1, FS_EmptySet
    <3> QED
      BY <1>1, <2>1, <3>1 DEF Framed
<1>3. FramerInit \in [open: BOOLEAN, cur: Message \cup {NoMessage}, msgs: Seq(Message)]
  <2>1. <<>> \in Seq(Message)
    OBVIOUS
  <2> QED
    BY <2>1 DEF FramerInit
<1>4. FramerInit.open = FALSE /\ FramerInit.msgs = <<>>
  BY DEF FramerInit
<1> QED
  BY <1>2, <1>3, <1>4 DEF Follows

\* A line that the automaton is fed leaves it where the messages of the
\* output as it is then are.
LEMMA FeedFollows ==
  ASSUME NEW lines \in Body, NEW l \in Line, NEW f, Follows(f, lines)
  PROVE  Follows(Feed(f, l), Append(lines, l))
<1> DEFINE M == Append(lines, l)
           n == Len(lines)
           g == Feed(f, l)
<1>1. /\ f \in [open: BOOLEAN, cur: Message \cup {NoMessage}, msgs: Seq(Message)]
      /\ Framed(f.msgs, lines)
      /\ ~f.open => \A s \in 1..n : ~OpenAt(lines, s)
  BY DEF Follows
<1>2. /\ M \in Body /\ n \in Nat /\ Len(M) = n + 1 /\ M[n + 1] = l
      /\ \A i \in 1..n : M[i] = lines[i]
      /\ \A s \in 1..n : OpenAt(M, s) <=> OpenAt(lines, s) /\ l.kind = "text"
      /\ OpenAt(M, n + 1) <=> l.kind = "start"
      /\ Frames(M) = Frames(lines) \cup
           {<<s, n + 1>> : s \in {t \in 1..n : OpenAt(lines, t) /\ l.kind = "end"}}
  BY OneMoreLine
<1>3. l.kind \in {"start", "end", "text"} /\ l.code \in STRING /\ l.sev \in STRING
  BY DEF Line
<1>4. ASSUME l.kind # "end" \/ ~f.open PROVE Framed(f.msgs, M)
  <2>1. Frames(M) = Frames(lines)
    BY <1>1, <1>2, <1>4
  <2> QED
    BY <1>1, <2>1, SameFrames
<1> HIDE DEF M, n
<1>5. CASE l.kind = "start"
  <2> DEFINE c == [code |-> l.code, sev |-> l.sev, body |-> <<>>]
  <2>1. g = [f EXCEPT !.open = TRUE, !.cur = c]
    BY <1>5 DEF Feed
  <2>2. c \in Message
    BY <1>3 DEF Message, Body
  <2>3. c = [code |-> M[n + 1].code, sev |-> M[n + 1].sev, body |-> SubSeq(M, n + 2, n + 1)]
    <3>1. SubSeq(M, n + 2, n + 1) = <<>>
      BY <1>2, SubSeqEmpty
    <3> QED
      BY <1>2, <3>1
  <2> HIDE DEF c
  <2>4. /\ g \in [open: BOOLEAN, cur: Message \cup {NoMessage}, msgs: Seq(Message)]
        /\ g.open /\ g.cur = c /\ g.msgs = f.msgs
    BY <1>1, <2>1, <2>2
  <2>5. OpenAt(M, n + 1) /\ n + 1 \in 1..Len(M) /\ n + 1 + 1 = n + 2
    BY <1>2, <1>5
  <2>6. Framed(g.msgs, M)
    BY <1>4, <1>5, <2>4
  <2> HIDE DEF g
  <2>7. \E s \in 1..Len(M) :
          /\ OpenAt(M, s)
          /\ g.cur = [code |-> M[s].code, sev |-> M[s].sev, body |-> SubSeq(M, s + 1, Len(M))]
    BY <1>2, <2>3, <2>4, <2>5
  <2>8. Follows(g, M)
    BY <2>4, <2>6, <2>7 DEF Follows
  <2> QED
    BY <2>8 DEF g, M
<1>6. CASE l.kind = "end" /\ f.open
  <2>1. PICK s \in 1..n : /\ OpenAt(lines, s)
                          /\ f.cur = [code |-> lines[s].code, sev |-> lines[s].sev,
                                      body |-> SubSeq(lines, s + 1, n)]
    BY <1>6 DEF Follows, n
  <2>2. Framed(Append(f.msgs, f.cur), M)
    BY <1>1, <1>6, <2>1, OneMoreFrame DEF n, M
  <2>3. g = [open |-> FALSE, cur |-> NoMessage, msgs |-> Append(f.msgs, f.cur)]
    BY <1>6 DEF Feed
  <2>4. g \in [open: BOOLEAN, cur: Message \cup {NoMessage}, msgs: Seq(Message)]
    <3>1. Append(f.msgs, f.cur) \in Seq(Message)
      BY <1>1, <2>1, MessageSoFar DEF n
    <3> QED
      BY <2>3, <3>1
  <2>5. \A t \in 1..Len(M) : ~OpenAt(M, t)
    <3>1. \A t \in 1..Len(M) : t \in 1..n \/ t = n + 1
      BY <1>2
    <3> QED
      BY <1>2, <1>6, <3>1
  <2>6. g.open = FALSE /\ g.msgs = Append(f.msgs, f.cur)
    BY <2>3
  <2> HIDE DEF g
  <2>7. Follows(g, M)
    BY <2>2, <2>4, <2>5, <2>6 DEF Follows
  <2> QED
    BY <2>7 DEF g, M
<1>7. CASE l.kind = "text" /\ f.open
  <2>1. PICK s \in 1..n : /\ OpenAt(lines, s)
                          /\ f.cur = [code |-> lines[s].code, sev |-> lines[s].sev,
                                      body |-> SubSeq(lines, s + 1, n)]
    BY <1>7 DEF Follows, n
  <2> DEFINE c == [f.cur EXCEPT !.body = Append(@, l)]
  <2>2. g = [f EXCEPT !.cur = c]
    BY <1>1, <1>7 DEF Feed
  <2>3. /\ c \in Message
        /\ c = [code |-> f.cur.code, sev |-> f.cur.sev, body |-> Append(f.cur.body, l)]
    <3>1. f.cur \in Message
      BY <1>2, <2>1, MessageSoFar DEF n
    <3>2. c = [code |-> f.cur.code, sev |-> f.cur.sev, body |-> Append(f.cur.body, l)]
      BY <3>1 DEF Message
    <3>3. Append(f.cur.body, l) \in Body
      BY <3>1 DEF Message, Body
    <3> QED
      BY <3>1, <3>2, <3>3 DEF Message
  <2>4. SubSeq(M, s + 1, n + 1) = Append(SubSeq(lines, s + 1, n), l)
    <3>1. s + 1 \in 1..(n + 1)
      BY <1>2
    <3> QED
      BY <3>1, SubSeqToTheEnd DEF n, M
  <2> HIDE DEF c
  <2>5. c = [code |-> M[s].code, sev |-> M[s].sev, body |-> SubSeq(M, s + 1, n + 1)]
    <3>1. /\ f.cur.code = M[s].code /\ f.cur.sev = M[s].sev
          /\ f.cur.body = SubSeq(lines, s + 1, n)
      BY <1>2, <2>1
    <3> QED
      BY <2>3, <2>4, <3>1
  <2>6. /\ g \in [open: BOOLEAN, cur: Message \cup {NoMessage}, msgs: Seq(Message)]
        /\ g.open /\ g.cur = c /\ g.msgs = f.msgs
    BY <1>1, <1>7, <2>2, <2>3
  <2> HIDE DEF g
  <2>7. Framed(g.msgs, M)
    BY <1>4, <1>7, <2>6
  <2>8. OpenAt(M, s) /\ s \in 1..Len(M)
    BY <1>2, <1>7, <2>1
  <2>9. \E t \in 1..Len(M) :
          /\ OpenAt(M, t)
          /\ g.cur = [code |-> M[t].code, sev |-> M[t].sev, body |-> SubSeq(M, t + 1, Len(M))]
    BY <1>2, <2>5, <2>6, <2>8
  <2>10. Follows(g, M)
    BY <2>6, <2>7, <2>9 DEF Follows
  <2> QED
    BY <2>10 DEF g, M
<1>8. CASE l.kind # "start" /\ ~f.open
  <2>1. g = f
    BY <1>8 DEF Feed
  <2>2. Framed(f.msgs, M)
    BY <1>4, <1>8
  <2>3. \A t \in 1..Len(M) : ~OpenAt(M, t)
    <3>1. \A t \in 1..Len(M) : t \in 1..n \/ t = n + 1
      BY <1>2
    <3> QED
      BY <1>1, <1>2, <1>8, <3>1
  <2> HIDE DEF g
  <2>4. Follows(g, M)
    BY <1>1, <1>8, <2>1, <2>2, <2>3 DEF Follows
  <2> QED
    BY <2>4 DEF g, M
<1> QED
  BY <1>1, <1>3, <1>5, <1>6, <1>7, <1>8
-----------------------------------------------------------------------------
(***************************************************************************)
(* ParseLines for every output: the loop over its lines is a recursive     *)
(* function, which Recursion gives a value and ParseOneMore unfolds.       *)
(***************************************************************************)
Framers == {f \in [open: BOOLEAN, cur: Message \cup {NoMessage}, msgs: Seq(Message)] :
              f.open => f.cur \in Message}

LEMMA FeedType ==
  ASSUME NEW f \in Framers, NEW l \in Line PROVE Feed(f, l) \in Framers
<1>1. l.code \in STRING /\ l.sev \in STRING /\ l.kind \in {"start", "end", "text"}
  BY DEF Line
<1>2. CASE l.kind = "start"
  <2> DEFINE c == [code |-> l.code, sev |-> l.sev, body |-> <<>>]
  <2>1. c \in Message
    BY <1>1 DEF Message, Body
  <2>2. Feed(f, l) = [f EXCEPT !.open = TRUE, !.cur = c]
    BY <1>2 DEF Feed
  <2> HIDE DEF c
  <2> QED
    BY <2>1, <2>2 DEF Framers
<1>3. CASE l.kind = "end" /\ f.open
  BY <1>3 DEF Feed, Framers
<1>4. CASE l.kind = "text" /\ f.open
  <2> DEFINE c == [f.cur EXCEPT !.body = Append(@, l)]
  <2>1. c \in Message
    <3>1. f.cur \in Message
      BY <1>4 DEF Framers
    <3>2. c = [code |-> f.cur.code, sev |-> f.cur.sev, body |-> Append(f.cur.body, l)]
      BY <3>1 DEF Message
    <3>3. Append(f.cur.body, l) \in Body
      BY <3>1 DEF Message, Body
    <3> QED
      BY <3>1, <3>2, <3>3 DEF Message
  <2>2. Feed(f, l) = [f EXCEPT !.cur = c]
    BY <1>4 DEF Feed, Framers
  <2> HIDE DEF c
  <2> QED
    BY <2>1, <2>2 DEF Framers
<1>5. CASE l.kind # "start" /\ ~f.open
  BY <1>5 DEF Feed
<1> QED
  BY <1>1, <1>2, <1>3, <1>4, <1>5

LEMMA ParseSteps ==
  ASSUME NEW lines \in Body
  PROVE  \E f : /\ f[0] = FramerInit
                /\ \A n \in 1..Len(lines) : f[n] = Feed(f[n - 1], lines[n])
                /\ ParseLines(lines) = f[Len(lines)]
<1> DEFINE N == Len(lines)
           Is(f) == f = [n \in 0..N |-> IF n = 0 THEN FramerInit ELSE Feed(f[n - 1], lines[n])]
           step == [p \in Framers \X (1..N) |-> Feed(p[1], lines[p[2]])]
<1>1. N \in Nat /\ \A n \in 1..N : lines[n] \in Line
  BY DEF Body
<1>2. FramerInit \in Framers
  <2>1. <<>> \in Seq(Message)
    OBVIOUS
  <2> QED
    BY <2>1 DEF FramerInit, Framers
<1>3. step \in Steps(Framers, N)
  BY <1>1, FeedType DEF Steps
<1> HIDE DEF step, N
<1>4. PICK f \in [0..N -> Framers] : IsRun(f, FramerInit, step, N)
  BY <1>1, <1>2, <1>3, Recursion
<1>5. ASSUME NEW n \in 1..N PROVE step[<<f[n - 1], n>>] = Feed(f[n - 1], lines[n])
  <2>1. n - 1 \in 0..N
    BY <1>1
  <2>2. f[n - 1] \in Framers
    BY <2>1
  <2> QED
    BY <2>2 DEF step
<1>6. f = [n \in 0..N |-> IF n = 0 THEN FramerInit ELSE Feed(f[n - 1], lines[n])]
  <2>1. \A n \in 0..N : n # 0 => n \in 1..N
    BY <1>1
  <2> QED
    BY <1>4, <1>5, <2>1 DEF IsRun
<1> DEFINE g == CHOOSE h : Is(h)
<1>7. Is(g)
  <2>1. Is(f)
    BY <1>6
  <2> HIDE DEF Is
  <2> QED
    BY <2>1
<1>8. ParseLines(lines) = g[N]
  BY DEF ParseLines, N
<1>9. g = [n \in 0..N |-> IF n = 0 THEN FramerInit ELSE Feed(g[n - 1], lines[n])]
  BY <1>7
<1> HIDE DEF g, Is
<1>10. g[0] = FramerInit /\ \A n \in 1..N : g[n] = Feed(g[n - 1], lines[n])
  <2>1. 0 \in 0..N /\ \A n \in 1..N : n \in 0..N /\ n # 0
    BY <1>1
  <2> QED
    BY <1>9, <2>1
<1> QED
  BY <1>8, <1>10 DEF N

\* The framer after one more line.
LEMMA ParseOneMore ==
  ASSUME NEW lines \in Body, NEW l \in Line
  PROVE  ParseLines(Append(lines, l)) = Feed(ParseLines(lines), l)
<1> DEFINE M == Append(lines, l)
           N == Len(lines)
<1>1. /\ M \in Body /\ Len(M) = N + 1 /\ N \in Nat /\ M[N + 1] = l
      /\ \A n \in 1..N : M[n] = lines[n]
  BY DEF Body
<1>2. PICK f : /\ f[0] = FramerInit
               /\ \A n \in 1..N : f[n] = Feed(f[n - 1], lines[n])
               /\ ParseLines(lines) = f[N]
  BY ParseSteps
<1> HIDE DEF M
<1>3. PICK g : /\ g[0] = FramerInit
               /\ \A n \in 1..(N + 1) : g[n] = Feed(g[n - 1], M[n])
               /\ ParseLines(M) = g[N + 1]
  BY <1>1, ParseSteps
<1> HIDE DEF N
<1> DEFINE T == {n \in 0..N : f[n] = g[n]}
<1>4. 0 \in T
  BY <1>1, <1>2, <1>3
<1>5. ASSUME NEW n \in 1..N, n - 1 \in T PROVE n \in T
  <2>1. n \in 1..(N + 1) /\ n \in 0..N /\ f[n - 1] = g[n - 1]
    BY <1>1, <1>5
  <2> QED
    BY <1>1, <1>2, <1>3, <2>1
<1> HIDE DEF T
<1>6. \A n \in 0..N : n \in T
  BY <1>1, <1>4, <1>5, UpTo
<1>7. f[N] = g[N]
  BY <1>1, <1>6 DEF T
<1>8. g[N + 1] = Feed(g[N], l)
  <2>1. N + 1 \in 1..(N + 1) /\ N + 1 - 1 = N
    BY <1>1
  <2> QED
    BY <1>1, <1>3, <2>1
<1> QED
  BY <1>2, <1>3, <1>7, <1>8 DEF M

LEMMA ParseNothing == ParseLines(<<>>) = FramerInit
<1>1. <<>> \in Body /\ Len(<<>>) = 0
  BY DEF Body
<1> QED
  BY <1>1, ParseSteps

\* Whatever the output, the automaton has found its messages.
LEMMA ParseFollows ==
  ASSUME NEW lines \in Body PROVE Follows(ParseLines(lines), lines)
<1> DEFINE T == {s \in Body : Follows(ParseLines(s), s)}
<1>1. <<>> \in T
  BY ParseNothing, NothingRead DEF Body
<1>2. ASSUME NEW s \in Seq(Line), NEW l \in Line, s \in T PROVE Append(s, l) \in T
  <2>1. s \in Body /\ Follows(ParseLines(s), s)
    BY <1>2
  <2>2. Follows(Feed(ParseLines(s), l), Append(s, l))
    BY <2>1, FeedFollows
  <2>3. Append(s, l) \in Body
    BY DEF Body
  <2> QED
    BY <2>1, <2>2, <2>3, ParseOneMore
<1> HIDE DEF T
<1>3. lines \in T
  BY <1>1, <1>2, ByLastElement DEF Body
<1> QED
  BY <1>3 DEF T

\* output.go:68-101: whatever the lines are, the loop of ParseToolOutput finds
\* the messages that lie between a START and the END that closes it, in order,
\* with their code, severity and text.
THEOREM MessagesAreFramed ==
  \A lines \in Body : ParseLines(lines).msgs = FramedMessages(lines)
BY ParseFollows, FramedIsMessages DEF Follows
-----------------------------------------------------------------------------
(***************************************************************************)
(* Interpret for every list of messages.                                   *)
(***************************************************************************)
ResultType == [depth: Int, stats: Int, states: Seq(Int), loop: Int, stuttering: BOOLEAN,
               errors: Nat, unparsed: Nat, warnings: Nat]

LEMMA NumberType ==
  ASSUME NEW m \in Message, Numbers(m) # {} PROVE Number(m) \in Int
<1>1. Numbers(m) \in SUBSET Nat /\ m.body \in Seq(Line)
  BY DEF Numbers, Message, Body
<1>2. \E i \in Numbers(m) : \A j \in Numbers(m) : i <= j
  BY <1>1, LeastNumber
<1> DEFINE i == CHOOSE i \in Numbers(m) : \A j \in Numbers(m) : i <= j
<1>3. i \in Numbers(m)
  BY <1>2
<1> HIDE DEF i
<1>4. m.body[i] \in Line
  BY <1>1, <1>3 DEF Numbers
<1>5. m.body[i].num \in Int
  BY <1>4 DEF Line
<1> QED
  BY <1>5 DEF Number, i

LEMMA FirstLine ==
  ASSUME NEW m \in Message, m.body # <<>> PROVE m.body[1].num \in Int
<1>1. m.body \in Seq(Line)
  BY DEF Message, Body
<1>2. m.body[1] \in Line
  BY <1>1
<1> QED
  BY <1>2 DEF Line

\* The messages by what new_result does with them.
Statistics(m) == m.code \in {"progress", "stats", "depth"}

Plain(m) == m.code \notin {"version", "progress", "stats", "depth", "loop"} /\ ~IsStatePrint(m)

LEMMA InterpretCases ==
  ASSUME NEW r, NEW m
  PROVE  LET s == InterpretMessage(r, m)
         IN  /\ m.code = "version" => s = r
             /\ Statistics(m) /\ Numbers(m) = {} => s = r
             /\ Statistics(m) /\ Numbers(m) # {} =>
                  s = [r EXCEPT !.depth = IF m.code = "stats" THEN @ ELSE Number(m),
                                !.stats = IF m.code = "depth" THEN @ ELSE Number(m)]
             /\ IsStatePrint(m) /\ ParsesAsState(m.body) =>
                  s = [r EXCEPT !.states = Append(@, m.body[1].num)]
             /\ IsStatePrint(m) /\ ~ParsesAsState(m.body) =>
                  s = [r EXCEPT !.unparsed = @ + 1]
             /\ m.code = "loop" =>
                  s = [r EXCEPT !.loop = IF OpensWith(m, "back") THEN m.body[1].num - 1 ELSE @,
                                !.stuttering = @ \/ OpensWith(m, "stutter")]
             /\ Plain(m) =>
                  s = [r EXCEPT !.errors = @ + IF m.sev = "error" THEN 1 ELSE 0,
                                !.warnings = @ + IF m.sev = "warning" THEN 1 ELSE 0]
<1> DEFINE A == [r EXCEPT !.depth = IF m.code = "stats" THEN @ ELSE Number(m),
                          !.stats = IF m.code = "depth" THEN @ ELSE Number(m)]
           B == [r EXCEPT !.states = Append(@, m.body[1].num)]
           C == [r EXCEPT !.unparsed = @ + 1]
           D == [r EXCEPT !.loop = IF OpensWith(m, "back") THEN m.body[1].num - 1 ELSE @,
                          !.stuttering = @ \/ OpensWith(m, "stutter")]
           E == [r EXCEPT !.errors = @ + IF m.sev = "error" THEN 1 ELSE 0,
                          !.warnings = @ + IF m.sev = "warning" THEN 1 ELSE 0]
           s == InterpretMessage(r, m)
<1>1. s = CASE m.code = "version" -> r
            [] m.code \in {"progress", "stats", "depth"} -> IF Numbers(m) = {} THEN r ELSE A
            [] IsStatePrint(m) -> IF ParsesAsState(m.body) THEN B ELSE C
            [] m.code = "loop" -> D
            [] OTHER -> E
  BY DEF InterpretMessage
<1>2. IsStatePrint(m) => m.code = "state"
  BY DEF IsStatePrint
<1> HIDE DEF A, B, C, D, E, s
<1>3. m.code = "version" => s = r
  BY <1>1, <1>2
<1>4. Statistics(m) => s = IF Numbers(m) = {} THEN r ELSE A
  BY <1>1, <1>2 DEF Statistics
<1>5. IsStatePrint(m) => s = IF ParsesAsState(m.body) THEN B ELSE C
  BY <1>1, <1>2
<1>6. m.code = "loop" => s = D
  BY <1>1, <1>2
<1>7. Plain(m) => s = E
  BY <1>1, <1>2 DEF Plain
<1> QED
  BY <1>3, <1>4, <1>5, <1>6, <1>7, Zenon DEF A, B, C, D, E, s

LEMMA InterpretMessageType ==
  ASSUME NEW r \in ResultType, NEW m \in Message PROVE InterpretMessage(r, m) \in ResultType
<1> DEFINE s == InterpretMessage(r, m)
<1> HIDE DEF s
<1>1. CASE \/ m.code = "version"
           \/ Statistics(m) /\ Numbers(m) = {}
  <2>1. s = r
    BY <1>1, InterpretCases DEF s
  <2> QED
    BY <2>1 DEF s
<1>2. CASE Statistics(m) /\ Numbers(m) # {}
  <2>1. s = [r EXCEPT !.depth = IF m.code = "stats" THEN @ ELSE Number(m),
                      !.stats = IF m.code = "depth" THEN @ ELSE Number(m)]
    BY <1>2, InterpretCases, Zenon DEF s
  <2>2. Number(m) \in Int
    BY <1>2, NumberType
  <2> DEFINE d == IF m.code = "stats" THEN r.depth ELSE Number(m)
             n == IF m.code = "depth" THEN r.stats ELSE Number(m)
  <2>3. d \in Int /\ n \in Int /\ s = [r EXCEPT !.depth = d, !.stats = n]
    BY <2>1, <2>2 DEF ResultType
  <2> HIDE DEF d, n
  <2>4. s \in ResultType
    BY <2>3 DEF ResultType
  <2> QED
    BY <2>4 DEF s
<1>3. CASE IsStatePrint(m) /\ ParsesAsState(m.body)
  <2>1. m.body[1].num \in Int
    BY <1>3, FirstLine DEF ParsesAsState
  <2>2. s = [r EXCEPT !.states = Append(@, m.body[1].num)]
    BY <1>3, InterpretCases, Zenon DEF s
  <2>3. PICK t \in Seq(Int) : s = [r EXCEPT !.states = t]
    <3>1. Append(r.states, m.body[1].num) \in Seq(Int)
      BY <2>1 DEF ResultType
    <3> QED
      BY <2>2, <3>1
  <2>4. s \in ResultType
    BY <2>3 DEF ResultType
  <2> QED
    BY <2>4 DEF s
<1>4. CASE IsStatePrint(m) /\ ~ParsesAsState(m.body)
  <2>1. s = [r EXCEPT !.unparsed = @ + 1]
    BY <1>4, InterpretCases, Zenon DEF s
  <2>2. s \in ResultType
    BY <2>1 DEF ResultType
  <2> QED
    BY <2>2 DEF s
<1>5. CASE m.code = "loop"
  <2>1. s = [r EXCEPT !.loop = IF OpensWith(m, "back") THEN m.body[1].num - 1 ELSE @,
                      !.stuttering = @ \/ OpensWith(m, "stutter")]
    BY <1>5, InterpretCases, Zenon DEF s
  <2>2. OpensWith(m, "back") => m.body[1].num - 1 \in Int
    BY FirstLine DEF OpensWith
  <2>3. s \in ResultType
    BY <2>1, <2>2 DEF ResultType
  <2> QED
    BY <2>3 DEF s
<1>6. CASE Plain(m)
  <2>1. s = [r EXCEPT !.errors = @ + IF m.sev = "error" THEN 1 ELSE 0,
                      !.warnings = @ + IF m.sev = "warning" THEN 1 ELSE 0]
    BY <1>6, InterpretCases, Zenon DEF s
  <2> DEFINE e == r.errors + IF m.sev = "error" THEN 1 ELSE 0
             w == r.warnings + IF m.sev = "warning" THEN 1 ELSE 0
  <2>2. e \in Nat /\ w \in Nat /\ s = [r EXCEPT !.errors = e, !.warnings = w]
    BY <2>1 DEF ResultType
  <2> HIDE DEF e, w
  <2>3. s \in ResultType
    BY <2>2 DEF ResultType
  <2> QED
    BY <2>3 DEF s
<1> QED
  BY <1>1, <1>2, <1>3, <1>4, <1>5, <1>6 DEF Statistics, Plain

LEMMA EmptyType == EmptyResult \in ResultType
<1>1. <<>> \in Seq(Int)
  OBVIOUS
<1> QED
  BY <1>1 DEF EmptyResult, ResultType

LEMMA InterpretSteps ==
  ASSUME NEW msgs \in Seq(Message)
  PROVE  \E f : /\ f[0] = EmptyResult
                /\ \A n \in 1..Len(msgs) : f[n] = InterpretMessage(f[n - 1], msgs[n])
                /\ Interpret(msgs) = f[Len(msgs)]
<1> DEFINE N == Len(msgs)
           Is(f) == f = [n \in 0..N |-> IF n = 0 THEN EmptyResult
                                        ELSE InterpretMessage(f[n - 1], msgs[n])]
           step == [p \in ResultType \X (1..N) |-> InterpretMessage(p[1], msgs[p[2]])]
<1>1. N \in Nat
  OBVIOUS
<1>2. EmptyResult \in ResultType
  BY EmptyType
<1>3. step \in Steps(ResultType, N)
  <2>1. \A n \in 1..N : msgs[n] \in Message
    OBVIOUS
  <2> QED
    BY <2>1, InterpretMessageType DEF Steps
<1> HIDE DEF step, N
<1>4. PICK f \in [0..N -> ResultType] : IsRun(f, EmptyResult, step, N)
  BY <1>1, <1>2, <1>3, Recursion
<1>5. ASSUME NEW n \in 1..N PROVE step[<<f[n - 1], n>>] = InterpretMessage(f[n - 1], msgs[n])
  <2>1. n - 1 \in 0..N
    BY <1>1
  <2>2. f[n - 1] \in ResultType
    BY <2>1
  <2> QED
    BY <2>2 DEF step
<1>6. f = [n \in 0..N |-> IF n = 0 THEN EmptyResult ELSE InterpretMessage(f[n - 1], msgs[n])]
  <2>1. \A n \in 0..N : n # 0 => n \in 1..N
    BY <1>1
  <2> QED
    BY <1>4, <1>5, <2>1 DEF IsRun
<1> DEFINE g == CHOOSE h : Is(h)
<1>7. Is(g)
  <2>1. Is(f)
    BY <1>6
  <2> HIDE DEF Is
  <2> QED
    BY <2>1
<1>8. Interpret(msgs) = g[N]
  BY DEF Interpret, N
<1>9. g = [n \in 0..N |-> IF n = 0 THEN EmptyResult ELSE InterpretMessage(g[n - 1], msgs[n])]
  BY <1>7
<1> HIDE DEF g, Is
<1>10. g[0] = EmptyResult /\ \A n \in 1..N : g[n] = InterpretMessage(g[n - 1], msgs[n])
  <2>1. 0 \in 0..N /\ \A n \in 1..N : n \in 0..N /\ n # 0
    BY <1>1
  <2> QED
    BY <1>9, <2>1
<1> QED
  BY <1>8, <1>10 DEF N

LEMMA InterpretNothing == Interpret(<<>>) = EmptyResult
<1>1. <<>> \in Seq(Message) /\ Len(<<>>) = 0
  OBVIOUS
<1> QED
  BY <1>1, InterpretSteps

\* The result after one more message.
LEMMA InterpretOneMore ==
  ASSUME NEW msgs \in Seq(Message), NEW m \in Message
  PROVE  Interpret(Append(msgs, m)) = InterpretMessage(Interpret(msgs), m)
<1> DEFINE M == Append(msgs, m)
           N == Len(msgs)
<1>1. /\ M \in Seq(Message) /\ Len(M) = N + 1 /\ N \in Nat /\ M[N + 1] = m
      /\ \A n \in 1..N : M[n] = msgs[n]
  OBVIOUS
<1>2. PICK f : /\ f[0] = EmptyResult
               /\ \A n \in 1..N : f[n] = InterpretMessage(f[n - 1], msgs[n])
               /\ Interpret(msgs) = f[N]
  BY InterpretSteps
<1> HIDE DEF M
<1>3. PICK g : /\ g[0] = EmptyResult
               /\ \A n \in 1..(N + 1) : g[n] = InterpretMessage(g[n - 1], M[n])
               /\ Interpret(M) = g[N + 1]
  BY <1>1, InterpretSteps
<1> HIDE DEF N
<1> DEFINE T == {n \in 0..N : f[n] = g[n]}
<1>4. 0 \in T
  BY <1>1, <1>2, <1>3
<1>5. ASSUME NEW n \in 1..N, n - 1 \in T PROVE n \in T
  <2>1. n \in 1..(N + 1) /\ n \in 0..N /\ f[n - 1] = g[n - 1]
    BY <1>1, <1>5
  <2> QED
    BY <1>1, <1>2, <1>3, <2>1
<1> HIDE DEF T
<1>6. \A n \in 0..N : n \in T
  BY <1>1, <1>4, <1>5, UpTo
<1>7. f[N] = g[N]
  BY <1>1, <1>6 DEF T
<1>8. g[N + 1] = InterpretMessage(g[N], m)
  <2>1. N + 1 \in 1..(N + 1) /\ N + 1 - 1 = N
    BY <1>1
  <2> QED
    BY <1>1, <1>3, <2>1
<1> QED
  BY <1>2, <1>3, <1>7, <1>8 DEF M

LEMMA InterpretType == \A msgs \in Seq(Message) : Interpret(msgs) \in ResultType
<1> SUFFICES ASSUME NEW msgs \in Seq(Message) PROVE Interpret(msgs) \in ResultType
  OBVIOUS
<1> DEFINE T == {s \in Seq(Message) : Interpret(s) \in ResultType}
<1>1. <<>> \in T
  <2>1. <<>> \in Seq(Message)
    OBVIOUS
  <2> QED
    BY <2>1, InterpretNothing, EmptyType
<1>2. ASSUME NEW s \in Seq(Message), NEW m \in Message, s \in T PROVE Append(s, m) \in T
  BY <1>2, InterpretOneMore, InterpretMessageType
<1> HIDE DEF T
<1>3. msgs \in T
  BY <1>1, <1>2, ByLastElement
<1> QED
  BY <1>3 DEF T

LEMMA ParseType == \A lines \in Body : ParseLines(lines) \in Framers
<1> SUFFICES ASSUME NEW lines \in Body PROVE ParseLines(lines) \in Framers
  OBVIOUS
<1>1. Follows(ParseLines(lines), lines)
  BY ParseFollows
<1>2. ParseLines(lines).open => ParseLines(lines).cur \in Message
  BY <1>1, MessageSoFar DEF Follows
<1> QED
  BY <1>1, <1>2 DEF Follows, Framers

\* What a message changes of the trace.
LEMMA InterpretTrace ==
  ASSUME NEW r \in ResultType, NEW m \in Message
  PROVE  LET q == InterpretMessage(r, m)
         IN  /\ ~IsStatePrint(m) => q.states = r.states /\ q.unparsed = r.unparsed
             /\ IsStatePrint(m) /\ ParsesAsState(m.body) =>
                  q.states = Append(r.states, m.body[1].num) /\ q.unparsed = r.unparsed
             /\ IsStatePrint(m) /\ ~ParsesAsState(m.body) =>
                  q.states = r.states /\ q.unparsed = r.unparsed + 1
             /\ m.code = "loop" =>
                  q.loop = IF OpensWith(m, "back") THEN m.body[1].num - 1 ELSE r.loop
             /\ m.code # "loop" => q.loop = r.loop
<1> DEFINE q == InterpretMessage(r, m)
           Same(x, y) == x.states = y.states /\ x.unparsed = y.unparsed /\ x.loop = y.loop
<1> HIDE DEF q
<1>1. CASE \/ m.code = "version"
           \/ Statistics(m) /\ Numbers(m) = {}
  <2>1. q = r
    BY <1>1, InterpretCases DEF q
  <2>2. ~IsStatePrint(m) /\ m.code # "loop"
    BY <1>1 DEF IsStatePrint, Statistics
  <2> QED
    BY <2>1, <2>2 DEF q
<1>2. CASE Statistics(m) /\ Numbers(m) # {}
  <2>1. q = [r EXCEPT !.depth = IF m.code = "stats" THEN @ ELSE Number(m),
                      !.stats = IF m.code = "depth" THEN @ ELSE Number(m)]
    BY <1>2, InterpretCases, Zenon DEF q
  <2>2. ~IsStatePrint(m) /\ m.code # "loop"
    BY <1>2 DEF IsStatePrint, Statistics
  <2>3. Same(q, r)
    BY <2>1 DEF ResultType
  <2> QED
    BY <2>2, <2>3 DEF q
<1>3. CASE IsStatePrint(m) /\ ParsesAsState(m.body)
  <2>1. q = [r EXCEPT !.states = Append(@, m.body[1].num)]
    BY <1>3, InterpretCases, Zenon DEF q
  <2>2. m.code # "loop"
    BY <1>3 DEF IsStatePrint
  <2>3. /\ q.states = Append(r.states, m.body[1].num)
        /\ q.unparsed = r.unparsed /\ q.loop = r.loop
    BY <2>1 DEF ResultType
  <2> QED
    BY <1>3, <2>2, <2>3 DEF q
<1>4. CASE IsStatePrint(m) /\ ~ParsesAsState(m.body)
  <2>1. q = [r EXCEPT !.unparsed = @ + 1]
    BY <1>4, InterpretCases, Zenon DEF q
  <2>2. m.code # "loop"
    BY <1>4 DEF IsStatePrint
  <2>3. q.states = r.states /\ q.unparsed = r.unparsed + 1 /\ q.loop = r.loop
    BY <2>1 DEF ResultType
  <2> QED
    BY <1>4, <2>2, <2>3 DEF q
<1>5. CASE m.code = "loop"
  <2>1. q = [r EXCEPT !.loop = IF OpensWith(m, "back") THEN m.body[1].num - 1 ELSE @,
                      !.stuttering = @ \/ OpensWith(m, "stutter")]
    BY <1>5, InterpretCases, Zenon DEF q
  <2>2. ~IsStatePrint(m)
    BY <1>5 DEF IsStatePrint
  <2>3. /\ q.states = r.states /\ q.unparsed = r.unparsed
        /\ q.loop = IF OpensWith(m, "back") THEN m.body[1].num - 1 ELSE r.loop
    BY <2>1 DEF ResultType
  <2> QED
    BY <1>5, <2>2, <2>3 DEF q
<1>6. CASE Plain(m)
  <2>1. q = [r EXCEPT !.errors = @ + IF m.sev = "error" THEN 1 ELSE 0,
                      !.warnings = @ + IF m.sev = "warning" THEN 1 ELSE 0]
    BY <1>6, InterpretCases, Zenon DEF q
  <2>2. Same(q, r)
    BY <2>1 DEF ResultType
  <2> QED
    BY <1>6, <2>2 DEF q, Plain
<1> QED
  BY <1>1, <1>2, <1>3, <1>4, <1>5, <1>6 DEF Statistics, Plain

LEMMA FeedCases ==
  ASSUME NEW f \in Framers, NEW l \in Line
  PROVE  LET g == Feed(f, l)
         IN  /\ l.kind = "start" =>
                  /\ g.open /\ g.msgs = f.msgs
                  /\ g.cur = [code |-> l.code, sev |-> l.sev, body |-> <<>>]
             /\ l.kind = "end" /\ f.open => ~g.open /\ g.msgs = Append(f.msgs, f.cur)
             /\ l.kind = "text" /\ f.open =>
                  /\ g.open /\ g.msgs = f.msgs
                  /\ g.cur.code = f.cur.code /\ g.cur.sev = f.cur.sev
                  /\ g.cur.body = Append(f.cur.body, l)
             /\ l.kind # "start" /\ ~f.open => g = f
<1> DEFINE g == Feed(f, l)
<1>1. CASE l.kind = "start"
  <2>1. g = [f EXCEPT !.open = TRUE, !.cur = [code |-> l.code, sev |-> l.sev, body |-> <<>>]]
    BY <1>1 DEF Feed
  <2> HIDE DEF g
  <2>2. /\ g.open /\ g.msgs = f.msgs
        /\ g.cur = [code |-> l.code, sev |-> l.sev, body |-> <<>>]
    BY <2>1 DEF Framers
  <2> QED
    BY <1>1, <2>2 DEF g
<1>2. CASE l.kind = "end" /\ f.open
  BY <1>2 DEF Feed
<1>3. CASE l.kind = "text" /\ f.open
  <2>1. g = [f EXCEPT !.cur.body = Append(@, l)]
    BY <1>3 DEF Feed
  <2>2. f.cur \in Message
    BY <1>3 DEF Framers
  <2> HIDE DEF g
  <2>3. /\ g.open /\ g.msgs = f.msgs
        /\ g.cur = [f.cur EXCEPT !.body = Append(@, l)]
    BY <1>3, <2>1 DEF Framers
  <2>4. /\ g.cur.code = f.cur.code /\ g.cur.sev = f.cur.sev
        /\ g.cur.body = Append(f.cur.body, l)
    BY <2>2, <2>3 DEF Message
  <2> QED
    BY <1>3, <2>3, <2>4 DEF g
<1>4. CASE l.kind # "start" /\ ~f.open
  BY <1>4 DEF Feed
<1> QED
  BY <1>1, <1>2, <1>3, <1>4 DEF Line

\* The result after a line that closes a message, or does not.
After(f, r, l) == IF l.kind = "end" /\ f.open THEN InterpretMessage(r, f.cur) ELSE r

LEMMA AfterFeed ==
  ASSUME NEW lines \in Body, NEW l \in Line
  PROVE  LET f == ParseLines(lines)
             g == ParseLines(Append(lines, l))
         IN  g = Feed(f, l) /\ Interpret(g.msgs) = After(f, Interpret(f.msgs), l)
<1> DEFINE f == ParseLines(lines)
           g == ParseLines(Append(lines, l))
<1>1. f \in Framers
  BY ParseType
<1>2. g = Feed(f, l)
  BY ParseOneMore
<1> HIDE DEF f, g
<1>3. f.msgs \in Seq(Message) /\ (f.open => f.cur \in Message)
  BY <1>1 DEF Framers
<1>4. CASE l.kind = "end" /\ f.open
  <2>1. g.msgs = Append(f.msgs, f.cur)
    BY <1>1, <1>2, <1>4, FeedCases
  <2> QED
    BY <1>2, <1>3, <1>4, <2>1, InterpretOneMore DEF After, f, g
<1>5. CASE ~(l.kind = "end" /\ f.open)
  <2>1. g.msgs = f.msgs
    BY <1>1, <1>2, <1>5, FeedCases DEF Line
  <2> QED
    BY <1>2, <1>5, <2>1 DEF After, f, g
<1> QED
  BY <1>4, <1>5

\* A text that joins the open message becomes its first line or leaves that.
LEMMA FirstText ==
  ASSUME NEW m \in Message, NEW l \in Line
  PROVE  LET b == Append(m.body, l)
         IN  b # <<>> /\ b[1] = IF m.body = <<>> THEN l ELSE m.body[1]
<1>1. m.body \in Seq(Line)
  BY DEF Message, Body
<1>2. CASE m.body = <<>>
  BY <1>1, <1>2
<1>3. CASE m.body # <<>>
  <2>1. Len(m.body) \in Nat /\ 1 \in 1..Len(m.body)
    BY <1>1, <1>3
  <2> QED
    BY <1>1, <1>3, <2>1
<1> QED
  BY <1>2, <1>3
=============================================================================
