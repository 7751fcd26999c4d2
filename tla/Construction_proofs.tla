------------------------ MODULE Construction_proofs -------------------------
(***************************************************************************)
(* Values, for all atoms and to any depth: the comparison is a total order *)
(* in which only equal values are equal, sorting depends on nothing else,  *)
(* what the constructors build has one form for each meaning, and what is  *)
(* written as ITF is read back as what it meant.                           *)
(***************************************************************************)
EXTENDS Construction, ToolOutput_proofs

-----------------------------------------------------------------------------
(***************************************************************************)
(* The trees of a kind: levels, and induction over them.                   *)
(***************************************************************************)
LEMMA LevelsAre ==
  ASSUME NEW kinds
  PROVE  Levels(kinds) = [n \in 0..MaxNesting |->
                            IF n = 0 THEN {}
                            ELSE [kind: kinds, num: Int, xs: Seq(Levels(kinds)[n - 1])]]
<1> DEFINE Is(f, k) == f = [n \in 0..k |-> IF n = 0 THEN {}
                                           ELSE [kind: kinds, num: Int, xs: Seq(f[n - 1])]]
           T == {k \in 0..MaxNesting : \E f : Is(f, k)}
<1> USE NestingAssumption
<1>1. 0 \in T
  <2>1. Is([n \in 0..0 |-> {}], 0)
    OBVIOUS
  <2> HIDE DEF Is
  <2>2. \E f : Is(f, 0)
    BY <2>1
  <2> QED
    BY <2>2
<1>2. ASSUME NEW k \in 1..MaxNesting, k - 1 \in T PROVE k \in T
  <2>1. PICK f : Is(f, k - 1)
    BY <1>2
  <2> DEFINE g == [n \in 0..k |-> IF n = 0 THEN {}
                                  ELSE [kind: kinds, num: Int, xs: Seq(f[n - 1])]]
  <2>2. ASSUME NEW n \in 0..(k - 1) PROVE g[n] = f[n]
    BY <2>1
  <2>3. \A n \in 0..k : n = 0 \/ n - 1 \in 0..(k - 1)
    OBVIOUS
  <2>4. g = [n \in 0..k |-> IF n = 0 THEN {} ELSE [kind: kinds, num: Int, xs: Seq(g[n - 1])]]
    <3> HIDE DEF g
    <3>1. ASSUME NEW n \in 0..k, n # 0 PROVE Seq(f[n - 1]) = Seq(g[n - 1])
      BY <2>2, <2>3, <3>1
    <3> USE DEF g
    <3>2. \A n \in 0..k : (IF n = 0 THEN {} ELSE [kind: kinds, num: Int, xs: Seq(f[n - 1])])
                        = (IF n = 0 THEN {} ELSE [kind: kinds, num: Int, xs: Seq(g[n - 1])])
      <4> HIDE DEF g
      <4> QED
        BY <3>1
    <3> QED
      BY <3>2, Zenon
  <2> HIDE DEF g
  <2>5. \E h : Is(h, k)
    BY <2>4
  <2>6. k \in 0..MaxNesting
    OBVIOUS
  <2> QED
    BY <2>5, <2>6
<1> HIDE DEF T
<1>3. MaxNesting \in T
  BY <1>1, <1>2, UpTo
<1>4. \E f : Is(f, MaxNesting)
  BY <1>3 DEF T
<1>5. Levels(kinds) = CHOOSE f : Is(f, MaxNesting)
  BY DEF Levels
<1> HIDE DEF Is
<1>6. Is(Levels(kinds), MaxNesting)
  BY <1>4, <1>5
<1> QED
  BY <1>6 DEF Is

LEMMA LevelZero == ASSUME NEW kinds PROVE Levels(kinds)[0] = {}
BY LevelsAre, NestingAssumption

LEMMA LevelNext ==
  ASSUME NEW kinds, NEW n \in 1..MaxNesting
  PROVE  Levels(kinds)[n] = [kind: kinds, num: Int, xs: Seq(Levels(kinds)[n - 1])]
<1>1. n \in 0..MaxNesting /\ n # 0
  BY NestingAssumption
<1> QED
  BY <1>1, LevelsAre

LEMMA SeqGrows == ASSUME NEW S, NEW T, S \subseteq T PROVE Seq(S) \subseteq Seq(T)
OBVIOUS

LEMMA NodesGrow ==
  ASSUME NEW kinds, NEW S, NEW T, S \subseteq T
  PROVE  [kind: kinds, num: Int, xs: S] \subseteq [kind: kinds, num: Int, xs: T]
OBVIOUS

\* A tree of few levels is one of more levels.
LEMMA LevelsGrow ==
  ASSUME NEW kinds, NEW n \in 1..MaxNesting
  PROVE  Levels(kinds)[n - 1] \subseteq Levels(kinds)[n]
<1> DEFINE L == Levels(kinds)
           T == {k \in 0..MaxNesting : k = 0 \/ L[k - 1] \subseteq L[k]}
<1> USE NestingAssumption
<1>1. 0 \in T
  OBVIOUS
<1>2. ASSUME NEW k \in 1..MaxNesting, k - 1 \in T PROVE k \in T
  <2>1. CASE k = 1
    BY <2>1, LevelZero
  <2>2. CASE k # 1
    <3>1. k - 1 \in 1..MaxNesting
      BY <2>2
    <3>2. L[k - 2] \subseteq L[k - 1]
      BY <1>2, <3>1
    <3>3. L[k] = [kind: kinds, num: Int, xs: Seq(L[k - 1])]
      BY LevelNext
    <3>4. L[k - 1] = [kind: kinds, num: Int, xs: Seq(L[(k - 1) - 1])]
      BY <3>1, LevelNext
    <3> HIDE DEF L
    <3>5. Seq(L[k - 2]) \subseteq Seq(L[k - 1])
      BY <3>2, SeqGrows
    <3>6. (k - 1) - 1 = k - 2
      OBVIOUS
    <3>7. [kind: kinds, num: Int, xs: Seq(L[k - 2])] \subseteq [kind: kinds, num: Int, xs: Seq(L[k - 1])]
      BY <3>5, NodesGrow
    <3>8. L[k - 1] \subseteq L[k]
      BY <3>3, <3>4, <3>6, <3>7, Zenon
    <3>9. k \in 0..MaxNesting
      OBVIOUS
    <3> QED
      BY <3>8, <3>9, Zenon
  <2> QED
    BY <2>1, <2>2
<1> HIDE DEF T
<1>3. \A k \in 0..MaxNesting : k \in T
  BY <1>1, <1>2, UpTo
<1> QED
  BY <1>3 DEF T

LEMMA LevelsAreTrees ==
  ASSUME NEW kinds, NEW n \in 0..MaxNesting
  PROVE  Levels(kinds)[n] \subseteq Trees(kinds)
<1> DEFINE L == Levels(kinds)
           N == MaxNesting
           T == {k \in 0..N : L[N - k] \subseteq L[N]}
<1> USE NestingAssumption
<1>1. 0 \in T
  OBVIOUS
<1>2. ASSUME NEW k \in 1..N, k - 1 \in T PROVE k \in T
  <2>1. (N - k) + 1 \in 1..N /\ ((N - k) + 1) - 1 = N - k /\ N - (k - 1) = (N - k) + 1
    OBVIOUS
  <2>2. L[N - k] \subseteq L[(N - k) + 1]
    BY <2>1, LevelsGrow
  <2> QED
    BY <1>2, <2>1, <2>2
<1>3. \A k \in 0..N : k \in T
  <2> HIDE DEF T
  <2> QED
    BY <1>1, <1>2, UpTo
<1>4. N - n \in 0..N /\ N - (N - n) = n
  OBVIOUS
<1>5. L[n] \subseteq L[N]
  BY <1>3, <1>4
<1> QED
  BY <1>5 DEF Trees

\* A tree, and its parts, with their levels.
LEMMA TreeLevel ==
  ASSUME NEW kinds, NEW n \in 0..MaxNesting, NEW v \in Levels(kinds)[n]
  PROVE  /\ n # 0 /\ n - 1 \in 0..MaxNesting
         /\ v = Value(v.kind, v.num, v.xs) /\ v.kind \in kinds /\ v.num \in Int
         /\ v.xs \in Seq(Levels(kinds)[n - 1]) /\ DOMAIN v.xs = 1..Len(v.xs)
         /\ \A i \in DOMAIN v.xs : v.xs[i] \in Levels(kinds)[n - 1]
<1> USE NestingAssumption
<1>1. n \in 1..MaxNesting
  BY LevelZero
<1>2. v \in [kind: kinds, num: Int, xs: Seq(Levels(kinds)[n - 1])]
  BY <1>1, LevelNext
<1> QED
  BY <1>1, <1>2 DEF Value

LEMMA TreeShape ==
  ASSUME NEW kinds, NEW v \in Trees(kinds)
  PROVE  /\ v = Value(v.kind, v.num, v.xs) /\ v.kind \in kinds /\ v.num \in Int
         /\ v.xs \in Seq(Trees(kinds)) /\ DOMAIN v.xs = 1..Len(v.xs)
         /\ \A i \in DOMAIN v.xs : v.xs[i] \in Trees(kinds)
<1> DEFINE N == MaxNesting
<1>1. N \in 0..MaxNesting /\ v \in Levels(kinds)[N]
  BY NestingAssumption DEF Trees
<1>2. /\ N # 0 /\ N - 1 \in 0..MaxNesting
      /\ v = Value(v.kind, v.num, v.xs) /\ v.kind \in kinds /\ v.num \in Int
      /\ v.xs \in Seq(Levels(kinds)[N - 1]) /\ DOMAIN v.xs = 1..Len(v.xs)
      /\ \A i \in DOMAIN v.xs : v.xs[i] \in Levels(kinds)[N - 1]
  BY <1>1, TreeLevel
<1>3. Levels(kinds)[N - 1] \subseteq Trees(kinds)
  BY <1>2, LevelsAreTrees
<1>4. Seq(Levels(kinds)[N - 1]) \subseteq Seq(Trees(kinds))
  BY <1>3, SeqGrows
<1> QED
  BY <1>2, <1>3, <1>4

\* What holds of a tree when it holds of its parts holds of every tree.
LEMMA TreeInduction ==
  ASSUME NEW kinds, NEW T,
         \A v \in Trees(kinds) : (\A i \in DOMAIN v.xs : v.xs[i] \in T) => v \in T
  PROVE  \A v \in Trees(kinds) : v \in T
<1> USE NestingAssumption
<1> DEFINE U == {k \in 0..MaxNesting : Levels(kinds)[k] \subseteq T}
<1>1. 0 \in U
  BY LevelZero
<1>2. ASSUME NEW k \in 1..MaxNesting, k - 1 \in U PROVE k \in U
  <2>1. k \in 0..MaxNesting
    OBVIOUS
  <2>2. ASSUME NEW v \in Levels(kinds)[k] PROVE v \in T
    <3>1. v \in Trees(kinds)
      BY <2>1, LevelsAreTrees
    <3>2. \A i \in DOMAIN v.xs : v.xs[i] \in Levels(kinds)[k - 1]
      BY <2>1, TreeLevel
    <3> QED
      BY <1>2, <3>1, <3>2
  <2> QED
    BY <2>1, <2>2
<1> HIDE DEF U
<1>3. MaxNesting \in U
  BY <1>1, <1>2, UpTo
<1> QED
  BY <1>3 DEF U, Trees

-----------------------------------------------------------------------------
(***************************************************************************)
(* The comparison is what its recursion says, on every pair of trees.      *)
(***************************************************************************)
LEMMA LeastIs ==
  ASSUME NEW S \in SUBSET Nat, S # {}
  PROVE  Least(S) \in S /\ \A j \in S : Least(S) <= j
BY LeastNumber DEF Least

\* Two functions that agree on the parts which are compared.
Agree(f, g, s, t) ==
  /\ DOMAIN s \subseteq Nat
  /\ \A i \in DOMAIN s \cap DOMAIN t : f[<<s[i], t[i]>>] = g[<<s[i], t[i]>>]

LEMMA SlicesLocal ==
  ASSUME NEW f, NEW g, NEW s, NEW t, Agree(f, g, s, t)
  PROVE  CompareSlices(f, s, t) = CompareSlices(g, s, t)
<1> USE DEF Agree
<1> DEFINE D(h) == {i \in DOMAIN s \cap DOMAIN t : h[<<s[i], t[i]>>] # 0}
<1>1. D(f) = D(g) /\ D(f) \in SUBSET Nat /\ D(f) \subseteq DOMAIN s \cap DOMAIN t
  OBVIOUS
<1>2. \A h : CompareSlices(h, s, t) = IF D(h) = {} THEN Len(s) - Len(t)
                                       ELSE h[<<s[Least(D(h))], t[Least(D(h))]>>]
  BY DEF CompareSlices
<1> HIDE DEF D
<1>3. CASE D(f) = {}
  BY <1>1, <1>2, <1>3
<1>4. CASE D(f) # {}
  <2>1. Least(D(f)) \in DOMAIN s \cap DOMAIN t
    BY <1>1, <1>4, LeastIs
  <2> QED
    BY <1>1, <1>2, <1>4, <2>1
<1> QED
  BY <1>3, <1>4

LEMMA CompareLocal ==
  ASSUME NEW f, NEW g, NEW a, NEW b, Agree(f, g, a.xs, b.xs)
  PROVE  CompareBy(f, a, b) = CompareBy(g, a, b)
<1>1. CompareSlices(f, a.xs, b.xs) = CompareSlices(g, a.xs, b.xs)
  BY SlicesLocal
<1> QED
  BY <1>1 DEF CompareBy

LEMMA ComparisonIs ==
  Comparison = [pair \in Tree \X Tree |-> CompareBy(Comparison, pair[1], pair[2])]
<1> USE NestingAssumption
<1> DEFINE L(k) == Levels(DOMAIN Kind)[k]
           Is(f, k) == f = [pair \in L(k) \X L(k) |-> CompareBy(f, pair[1], pair[2])]
           T == {k \in 0..MaxNesting : \E f : Is(f, k)}
<1>1. 0 \in T
  <2>1. L(0) = {}
    BY LevelZero
  <2> HIDE DEF L
  <2>2. Is([pair \in {} |-> 0], 0)
    BY <2>1
  <2> HIDE DEF Is
  <2>3. \E f : Is(f, 0)
    BY <2>2
  <2> QED
    BY <2>3
<1>2. ASSUME NEW k \in 1..MaxNesting, k - 1 \in T PROVE k \in T
  <2>1. PICK f : Is(f, k - 1)
    BY <1>2
  <2> DEFINE g == [pair \in L(k) \X L(k) |-> CompareBy(f, pair[1], pair[2])]
  <2>2. ASSUME NEW a \in L(k), NEW b \in L(k)
        PROVE  CompareBy(f, a, b) = CompareBy(g, a, b)
    <3>1. k \in 0..MaxNesting /\ L(k - 1) \subseteq L(k)
      BY LevelsGrow
    <3>2. /\ a.xs \in Seq(L(k - 1)) /\ \A i \in DOMAIN a.xs : a.xs[i] \in L(k - 1)
          /\ \A i \in DOMAIN b.xs : b.xs[i] \in L(k - 1)
      BY <3>1, TreeLevel
    <3> HIDE DEF L
    <3>3. ASSUME NEW v \in L(k - 1), NEW w \in L(k - 1) PROVE f[<<v, w>>] = g[<<v, w>>]
      <4>1. f[<<v, w>>] = CompareBy(f, v, w)
        BY <2>1
      <4> QED
        BY <3>1, <4>1
    <3> HIDE DEF g
    <3>4. \A i \in DOMAIN a.xs \cap DOMAIN b.xs : f[<<a.xs[i], b.xs[i]>>] = g[<<a.xs[i], b.xs[i]>>]
      BY <3>2, <3>3
    <3>5. Agree(f, g, a.xs, b.xs)
      BY <3>2, <3>4 DEF Agree
    <3> QED
      BY <3>5, CompareLocal
  <2> HIDE DEF L
  <2>3. g = [pair \in L(k) \X L(k) |-> CompareBy(g, pair[1], pair[2])]
    <3> HIDE DEF g
    <3>1. \A pair \in L(k) \X L(k) : CompareBy(f, pair[1], pair[2]) = CompareBy(g, pair[1], pair[2])
      BY <2>2
    <3> USE DEF g
    <3>2. g = [pair \in L(k) \X L(k) |-> CompareBy(f, pair[1], pair[2])]
      OBVIOUS
    <3> HIDE DEF g
    <3> QED
      BY <3>1, <3>2
  <2> HIDE DEF g
  <2>4. Is(g, k)
    BY <2>3
  <2> HIDE DEF Is
  <2>5. k \in 0..MaxNesting /\ \E h : Is(h, k)
    BY <2>4
  <2> QED
    BY <2>5
<1> HIDE DEF T
<1>3. MaxNesting \in T
  BY <1>1, <1>2, UpTo
<1>4. \E f : Is(f, MaxNesting)
  BY <1>3 DEF T
<1>5. Comparison = CHOOSE f : Is(f, MaxNesting)
  BY DEF Comparison, Tree, Trees
<1> HIDE DEF Is
<1>6. Is(Comparison, MaxNesting)
  BY <1>4, <1>5
<1> QED
  BY <1>6 DEF Is, Tree, Trees

-----------------------------------------------------------------------------
(***************************************************************************)
(* The comparison is a total order, in which equal means identical.        *)
(***************************************************************************)
LEMMA CompareIs ==
  ASSUME NEW a \in Tree, NEW b \in Tree
  PROVE  Compare(a, b) = IF a.kind # b.kind THEN Kind[a.kind] - Kind[b.kind]
                         ELSE IF a.num # b.num THEN a.num - b.num
                         ELSE CompareSlices(Comparison, a.xs, b.xs)
<1>1. <<a, b>> \in Tree \X Tree /\ <<a, b>>[1] = a /\ <<a, b>>[2] = b
  OBVIOUS
<1>2. Comparison[<<a, b>>] = CompareBy(Comparison, a, b)
  BY <1>1, ComparisonIs
<1> QED
  BY <1>2 DEF Compare, CompareBy

LEMMA TreeIs ==
  ASSUME NEW v \in Tree
  PROVE  /\ v = Value(v.kind, v.num, v.xs) /\ v.kind \in DOMAIN Kind /\ v.num \in Int
         /\ v.xs \in Seq(Tree) /\ DOMAIN v.xs = 1..Len(v.xs) /\ Len(v.xs) \in Nat
         /\ \A i \in DOMAIN v.xs : v.xs[i] \in Tree
<1>1. v \in Trees(DOMAIN Kind)
  BY DEF Tree
<1>2. /\ v = Value(v.kind, v.num, v.xs) /\ v.kind \in DOMAIN Kind /\ v.num \in Int
      /\ v.xs \in Seq(Tree) /\ DOMAIN v.xs = 1..Len(v.xs)
      /\ \A i \in DOMAIN v.xs : v.xs[i] \in Tree
  BY <1>1, TreeShape DEF Tree
<1> QED
  BY <1>2

LEMMA KindsDiffer ==
  ASSUME NEW k \in DOMAIN Kind, NEW l \in DOMAIN Kind
  PROVE  Kind[k] \in Int /\ (Kind[k] = Kind[l] <=> k = l)
BY DEF Kind

LEMMA SameTree ==
  ASSUME NEW a \in Tree, NEW b \in Tree, a.kind = b.kind, a.num = b.num, a.xs = b.xs
  PROVE  a = b
<1>1. a = Value(a.kind, a.num, a.xs) /\ b = Value(b.kind, b.num, b.xs)
  BY TreeIs
<1> QED
  BY <1>1 DEF Value

\* Two sequences of trees compare as opposites, and zero only if they are one.
Opposite(a, b) == /\ Compare(a, b) \in Int /\ Compare(b, a) = -Compare(a, b)
                  /\ Compare(a, b) = 0 <=> a = b

LEMMA SlicesOpposite ==
  ASSUME NEW s \in Seq(Tree), NEW t \in Seq(Tree),
         \A i \in DOMAIN s : \A b \in Tree : Opposite(s[i], b)
  PROVE  /\ CompareSlices(Comparison, s, t) \in Int
         /\ CompareSlices(Comparison, t, s) = -CompareSlices(Comparison, s, t)
         /\ CompareSlices(Comparison, s, t) = 0 <=> s = t
<1> DEFINE D == {i \in DOMAIN s \cap DOMAIN t : Compare(s[i], t[i]) # 0}
           E == {i \in DOMAIN t \cap DOMAIN s : Compare(t[i], s[i]) # 0}
           m == Len(s)
           n == Len(t)
<1>1. CompareSlices(Comparison, s, t) = IF D = {} THEN m - n ELSE Compare(s[Least(D)], t[Least(D)])
  BY DEF CompareSlices, Compare
<1>2. CompareSlices(Comparison, t, s) = IF E = {} THEN n - m ELSE Compare(t[Least(E)], s[Least(E)])
  BY DEF CompareSlices, Compare
<1>3. /\ m \in Nat /\ n \in Nat /\ DOMAIN s = 1..m /\ DOMAIN t = 1..n
      /\ \A i \in 1..n : t[i] \in Tree
  OBVIOUS
<1>4. \A i \in DOMAIN s \cap DOMAIN t : Opposite(s[i], t[i])
  BY <1>3
<1>5. E = D /\ D \in SUBSET Nat /\ D \subseteq DOMAIN s \cap DOMAIN t
      /\ \A i \in (DOMAIN s \cap DOMAIN t) \ D : s[i] = t[i]
  BY <1>3, <1>4 DEF Opposite
<1> HIDE DEF D, E
<1>6. CASE D = {}
  <2>1. m = n => s = t
    <3> SUFFICES ASSUME m = n PROVE s = t
      OBVIOUS
    <3>1. \A i \in DOMAIN s : s[i] = t[i]
      BY <1>3, <1>5, <1>6
    <3> QED
      BY <1>3, <3>1
  <2>2. s = t => m = n
    OBVIOUS
  <2> HIDE DEF m, n
  <2> QED
    BY <1>1, <1>2, <1>3, <1>5, <1>6, <2>1, <2>2
<1>7. CASE D # {}
  <2>1. Least(D) \in D
    BY <1>5, <1>7, LeastIs
  <2>2. Opposite(s[Least(D)], t[Least(D)]) /\ Least(D) \in DOMAIN s \cap DOMAIN t
    BY <1>4, <1>5, <2>1
  <2>3. Compare(s[Least(D)], t[Least(D)]) # 0
    BY <2>1 DEF D
  <2> HIDE DEF m, n
  <2> QED
    BY <1>1, <1>2, <1>5, <1>7, <2>2, <2>3 DEF Opposite
<1> QED
  BY <1>6, <1>7

LEMMA CompareOpposite == ASSUME NEW a \in Tree, NEW b \in Tree PROVE Opposite(a, b)
<1> DEFINE T == {v \in Tree : \A w \in Tree : Opposite(v, w)}
<1>1. ASSUME NEW v \in Tree, \A i \in DOMAIN v.xs : v.xs[i] \in T PROVE v \in T
  <2> SUFFICES ASSUME NEW w \in Tree PROVE Opposite(v, w)
    OBVIOUS
  <2> DEFINE s == v.xs
             t == w.xs
  <2>1. s \in Seq(Tree) /\ t \in Seq(Tree) /\ \A i \in DOMAIN s : \A u \in Tree : Opposite(s[i], u)
    BY <1>1, TreeIs
  <2>2. /\ v.kind \in DOMAIN Kind /\ w.kind \in DOMAIN Kind /\ v.num \in Int /\ w.num \in Int
        /\ (v.kind = w.kind /\ v.num = w.num /\ s = t) => v = w
    BY TreeIs, SameTree
  <2>3. /\ CompareSlices(Comparison, s, t) \in Int
        /\ CompareSlices(Comparison, t, s) = -CompareSlices(Comparison, s, t)
        /\ CompareSlices(Comparison, s, t) = 0 <=> s = t
    <3> HIDE DEF s, t, T
    <3> QED
      BY <2>1, SlicesOpposite
  <2>4. /\ Kind[v.kind] \in Int /\ Kind[w.kind] \in Int
        /\ Kind[v.kind] = Kind[w.kind] <=> v.kind = w.kind
    BY <2>2, KindsDiffer
  <2>5. Compare(v, w) = IF v.kind # w.kind THEN Kind[v.kind] - Kind[w.kind]
                        ELSE IF v.num # w.num THEN v.num - w.num
                        ELSE CompareSlices(Comparison, s, t)
    BY CompareIs
  <2>6. Compare(w, v) = IF w.kind # v.kind THEN Kind[w.kind] - Kind[v.kind]
                        ELSE IF w.num # v.num THEN w.num - v.num
                        ELSE CompareSlices(Comparison, t, s)
    BY CompareIs
  <2>7. v = w => v.kind = w.kind /\ v.num = w.num /\ s = t
    OBVIOUS
  <2> DEFINE c == CompareSlices(Comparison, s, t)
             d == CompareSlices(Comparison, t, s)
  <2> HIDE DEF s, t, T
  <2>8. CASE v.kind # w.kind
    BY <2>2, <2>4, <2>5, <2>6, <2>7, <2>8 DEF Opposite
  <2>9. CASE v.kind = w.kind /\ v.num # w.num
    BY <2>2, <2>5, <2>6, <2>7, <2>9 DEF Opposite
  <2>10. CASE v.kind = w.kind /\ v.num = w.num
    <3>1. Compare(v, w) = c /\ Compare(w, v) = d
      BY <2>5, <2>6, <2>10
    <3>2. c = 0 <=> v = w
      BY <2>2, <2>3, <2>7, <2>10
    <3> QED
      BY <2>3, <3>1, <3>2 DEF Opposite
  <2> QED
    BY <2>8, <2>9, <2>10
<1>2. \A v \in Tree : v \in T
  <2> HIDE DEF T
  <2> QED
    BY <1>1, TreeInduction DEF Tree
<1> QED
  BY <1>2

\* s is below t at their first difference, or is a proper prefix.
FirstBelow(s, t, m) == /\ m \in DOMAIN s \cap DOMAIN t /\ Compare(s[m], t[m]) < 0
                       /\ \A i \in 1..(m - 1) : s[i] = t[i]

ShortBelow(s, t) == Len(s) < Len(t) /\ \A i \in 1..Len(s) : s[i] = t[i]

LEMMA SlicesBelow ==
  ASSUME NEW s \in Seq(Tree), NEW t \in Seq(Tree)
  PROVE  CompareSlices(Comparison, s, t) < 0
           <=> ShortBelow(s, t) \/ \E m \in DOMAIN s : FirstBelow(s, t, m)
<1> DEFINE D == {i \in DOMAIN s \cap DOMAIN t : Compare(s[i], t[i]) # 0}
           k == Len(s)
           n == Len(t)
<1>1. CompareSlices(Comparison, s, t) = IF D = {} THEN k - n ELSE Compare(s[Least(D)], t[Least(D)])
  BY DEF CompareSlices, Compare
<1>2. /\ k \in Nat /\ n \in Nat /\ DOMAIN s = 1..k /\ DOMAIN t = 1..n
      /\ \A i \in 1..n : t[i] \in Tree
      /\ \A i \in 1..k : s[i] \in Tree
  OBVIOUS
<1>3. \A i \in DOMAIN s \cap DOMAIN t : Compare(s[i], t[i]) \in Int /\ (i \notin D <=> s[i] = t[i])
  BY <1>2, CompareOpposite DEF Opposite
<1>4. D \in SUBSET Nat /\ D \subseteq DOMAIN s \cap DOMAIN t /\ \A i \in D : Compare(s[i], t[i]) # 0
  BY <1>2
<1> HIDE DEF D
<1>5. CASE D = {}
  <2>1. \A m \in DOMAIN s : ~FirstBelow(s, t, m)
    BY <1>3, <1>5, <1>2, CompareOpposite DEF FirstBelow, Opposite
  <2>2. ShortBelow(s, t) <=> k < n
    BY <1>2, <1>3, <1>5 DEF ShortBelow
  <2> HIDE DEF k, n
  <2> QED
    BY <1>1, <1>2, <1>5, <2>1, <2>2
<1>6. CASE D # {}
  <2> DEFINE l == Least(D)
  <2>1. l \in D /\ \A j \in D : l <= j
    BY <1>4, <1>6, LeastIs
  <2> HIDE DEF l
  <2>2. l \in 1..k /\ l \in 1..n /\ s[l] # t[l]
    BY <1>2, <1>3, <1>4, <2>1
  <2>3. \A i \in 1..(l - 1) : s[i] = t[i]
    <3> SUFFICES ASSUME NEW i \in 1..(l - 1) PROVE s[i] = t[i]
      OBVIOUS
    <3> HIDE DEF k, n
    <3>1. i \in DOMAIN s \cap DOMAIN t /\ ~(l <= i)
      BY <1>2, <2>2
    <3> QED
      BY <1>3, <2>1, <3>1
  <2>4. ~ShortBelow(s, t)
    BY <2>2 DEF ShortBelow
  <2>5. ASSUME NEW m \in DOMAIN s, FirstBelow(s, t, m) PROVE m = l
    <3> HIDE DEF k, n
    <3>1. m \in DOMAIN s \cap DOMAIN t /\ Compare(s[m], t[m]) < 0 /\ \A i \in 1..(m - 1) : s[i] = t[i]
      BY <2>5 DEF FirstBelow
    <3>2. m \in 1..k /\ m \in 1..n
      BY <3>1, <1>2
    <3>3. s[m] # t[m]
      BY <3>1, <3>2, <1>2, CompareOpposite DEF Opposite
    <3>4. m \in D
      BY <1>3, <3>1, <3>3
    <3>5. l <= m
      BY <2>1, <3>4
    <3>6. l \notin 1..(m - 1)
      BY <2>2, <3>1
    <3> QED
      BY <1>2, <2>2, <3>2, <3>5, <3>6
  <2>6. l \in DOMAIN s \cap DOMAIN t
    BY <1>2, <2>2
  <2>7. FirstBelow(s, t, l) <=> Compare(s[l], t[l]) < 0
    BY <2>3, <2>6 DEF FirstBelow
  <2> HIDE DEF k, n
  <2>8. CompareSlices(Comparison, s, t) = Compare(s[l], t[l])
    BY <1>1, <1>6 DEF l
  <2> QED
    BY <2>4, <2>5, <2>6, <2>7, <2>8
<1> QED
  BY <1>5, <1>6

\* What is to be shown of a tree: it stands below whatever is above a tree
\* that is above it.
Through(a) == \A b, c \in Tree : Compare(a, b) < 0 /\ Compare(b, c) < 0 => Compare(a, c) < 0

LEMMA SlicesThrough ==
  ASSUME NEW s \in Seq(Tree), NEW t \in Seq(Tree), NEW u \in Seq(Tree),
         \A i \in DOMAIN s : Through(s[i]),
         CompareSlices(Comparison, s, t) < 0, CompareSlices(Comparison, t, u) < 0
  PROVE  CompareSlices(Comparison, s, u) < 0
<1> DEFINE k == Len(s)
           n == Len(t)
           l == Len(u)
<1>1. /\ k \in Nat /\ n \in Nat /\ l \in Nat
      /\ DOMAIN s = 1..k /\ DOMAIN t = 1..n /\ DOMAIN u = 1..l
      /\ (\A i \in 1..n : t[i] \in Tree) /\ (\A i \in 1..k : s[i] \in Tree)
      /\ (\A i \in 1..l : u[i] \in Tree)
  OBVIOUS
<1>2. ShortBelow(s, t) \/ \E m \in DOMAIN s : FirstBelow(s, t, m)
  BY SlicesBelow
<1>3. ShortBelow(t, u) \/ \E m \in DOMAIN t : FirstBelow(t, u, m)
  BY SlicesBelow
<1> SUFFICES ShortBelow(s, u) \/ \E m \in DOMAIN s : FirstBelow(s, u, m)
  BY SlicesBelow
<1>4. \A r, q : ShortBelow(r, q) <=> Len(r) < Len(q) /\ \A i \in 1..Len(r) : r[i] = q[i]
  BY DEF ShortBelow
<1> HIDE DEF k, n, l
<1>5. ASSUME NEW i \in DOMAIN s, NEW j \in DOMAIN t, FirstBelow(s, t, i), FirstBelow(t, u, j)
      PROVE  \E m \in DOMAIN s : FirstBelow(s, u, m)
  <2>1. /\ i \in 1..k /\ i \in 1..n /\ Compare(s[i], t[i]) < 0 /\ \A h \in 1..(i - 1) : s[h] = t[h]
        /\ j \in 1..n /\ j \in 1..l /\ Compare(t[j], u[j]) < 0 /\ \A h \in 1..(j - 1) : t[h] = u[h]
    BY <1>1, <1>5 DEF FirstBelow
  <2>2. CASE i < j
    <3>1. i \in 1..l /\ i \in 1..(j - 1) /\ \A h \in 1..(i - 1) : h \in 1..(j - 1)
      BY <1>1, <2>1, <2>2
    <3>2. Compare(s[i], u[i]) < 0 /\ \A h \in 1..(i - 1) : s[h] = u[h]
      BY <2>1, <3>1
    <3>3. FirstBelow(s, u, i)
      BY <1>1, <2>1, <3>1, <3>2 DEF FirstBelow
    <3> QED
      BY <3>3
  <2>3. CASE j < i
    <3>1. j \in 1..k /\ j \in 1..(i - 1) /\ \A h \in 1..(j - 1) : h \in 1..(i - 1)
      BY <1>1, <2>1, <2>3
    <3>2. Compare(s[j], u[j]) < 0 /\ \A h \in 1..(j - 1) : s[h] = u[h]
      BY <2>1, <3>1
    <3>3. FirstBelow(s, u, j)
      BY <1>1, <2>1, <3>1, <3>2 DEF FirstBelow
    <3> QED
      BY <1>1, <3>1, <3>3
  <2>4. CASE i = j
    <3>1. s[i] \in Tree /\ t[i] \in Tree /\ u[i] \in Tree /\ Through(s[i])
      BY <1>1, <2>1, <2>4
    <3>2. Compare(s[i], u[i]) < 0
      BY <2>1, <2>4, <3>1 DEF Through
    <3>3. \A h \in 1..(i - 1) : s[h] = u[h]
      BY <2>1, <2>4
    <3>4. FirstBelow(s, u, i)
      BY <1>1, <2>1, <2>4, <3>2, <3>3 DEF FirstBelow
    <3> QED
      BY <3>4
  <2> QED
    BY <1>1, <2>1, <2>2, <2>3, <2>4
<1>6. ASSUME NEW i \in DOMAIN s, FirstBelow(s, t, i), ShortBelow(t, u)
      PROVE  \E m \in DOMAIN s : FirstBelow(s, u, m)
  <2>1. /\ i \in 1..k /\ i \in 1..n /\ Compare(s[i], t[i]) < 0 /\ \A h \in 1..(i - 1) : s[h] = t[h]
        /\ n < l /\ \A h \in 1..n : t[h] = u[h]
    BY <1>1, <1>4, <1>6 DEF FirstBelow, n, l
  <2>2. i \in 1..l /\ \A h \in 1..(i - 1) : h \in 1..n
    BY <1>1, <2>1
  <2>3. Compare(s[i], u[i]) < 0 /\ \A h \in 1..(i - 1) : s[h] = u[h]
    BY <2>1, <2>2
  <2>4. FirstBelow(s, u, i)
    BY <1>1, <2>1, <2>2, <2>3 DEF FirstBelow
  <2> QED
    BY <2>4
<1>7. ASSUME NEW j \in DOMAIN t, ShortBelow(s, t), FirstBelow(t, u, j)
      PROVE  ShortBelow(s, u) \/ \E m \in DOMAIN s : FirstBelow(s, u, m)
  <2>1. /\ k < n /\ \A h \in 1..k : s[h] = t[h]
        /\ j \in 1..n /\ j \in 1..l /\ Compare(t[j], u[j]) < 0 /\ \A h \in 1..(j - 1) : t[h] = u[h]
    BY <1>1, <1>4, <1>7 DEF FirstBelow, k, n
  <2>2. CASE j <= k
    <3>1. j \in 1..k /\ \A h \in 1..(j - 1) : h \in 1..k
      BY <1>1, <2>1, <2>2
    <3>2. Compare(s[j], u[j]) < 0 /\ \A h \in 1..(j - 1) : s[h] = u[h]
      BY <2>1, <3>1
    <3>3. FirstBelow(s, u, j)
      BY <1>1, <2>1, <3>1, <3>2 DEF FirstBelow
    <3> QED
      BY <1>1, <3>1, <3>3
  <2>3. CASE k < j
    <3>1. k < l /\ \A h \in 1..k : h \in 1..(j - 1)
      BY <1>1, <2>1, <2>3
    <3>2. \A h \in 1..k : s[h] = u[h]
      BY <2>1, <3>1
    <3>3. ShortBelow(s, u)
      BY <1>4, <3>1, <3>2 DEF k, l
    <3> QED
      BY <3>3
  <2> QED
    BY <1>1, <2>1, <2>2, <2>3
<1>8. ASSUME ShortBelow(s, t), ShortBelow(t, u) PROVE ShortBelow(s, u)
  <2>1. k < n /\ n < l /\ (\A h \in 1..k : s[h] = t[h]) /\ \A h \in 1..n : t[h] = u[h]
    BY <1>4, <1>8 DEF k, n, l
  <2>2. k < l /\ \A h \in 1..k : s[h] = u[h]
    BY <1>1, <2>1
  <2> QED
    BY <1>4, <2>2 DEF k, l
<1> QED
  BY <1>2, <1>3, <1>5, <1>6, <1>7, <1>8

LEMMA CompareThrough == ASSUME NEW a \in Tree PROVE Through(a)
<1> DEFINE T == {v \in Tree : Through(v)}
<1>1. ASSUME NEW v \in Tree, \A i \in DOMAIN v.xs : v.xs[i] \in T PROVE v \in T
  <2> SUFFICES ASSUME NEW w \in Tree, NEW z \in Tree, Compare(v, w) < 0, Compare(w, z) < 0
               PROVE  Compare(v, z) < 0
    BY DEF Through
  <2> DEFINE s == v.xs
             t == w.xs
             u == z.xs
  <2>1. /\ s \in Seq(Tree) /\ t \in Seq(Tree) /\ u \in Seq(Tree)
        /\ \A i \in DOMAIN s : Through(s[i])
    BY <1>1, TreeIs
  <2>2. /\ v.kind \in DOMAIN Kind /\ w.kind \in DOMAIN Kind /\ z.kind \in DOMAIN Kind
        /\ v.num \in Int /\ w.num \in Int /\ z.num \in Int
    BY TreeIs
  <2>3. /\ Kind[v.kind] \in Int /\ Kind[w.kind] \in Int /\ Kind[z.kind] \in Int
        /\ Kind[v.kind] = Kind[w.kind] <=> v.kind = w.kind
        /\ Kind[w.kind] = Kind[z.kind] <=> w.kind = z.kind
        /\ Kind[v.kind] = Kind[z.kind] <=> v.kind = z.kind
    BY <2>2, KindsDiffer
  <2> DEFINE C(a1, b1) == IF a1.kind # b1.kind THEN Kind[a1.kind] - Kind[b1.kind]
                          ELSE IF a1.num # b1.num THEN a1.num - b1.num
                          ELSE CompareSlices(Comparison, a1.xs, b1.xs)
  <2>4. Compare(v, w) = C(v, w) /\ Compare(w, z) = C(w, z) /\ Compare(v, z) = C(v, z)
    BY CompareIs
  <2>5. CompareSlices(Comparison, s, t) < 0 /\ CompareSlices(Comparison, t, u) < 0
          => CompareSlices(Comparison, s, u) < 0
    <3> HIDE DEF s, t, u
    <3> QED
      BY <2>1, SlicesThrough
  <2>6. CASE v.kind # w.kind \/ w.kind # z.kind
    BY <2>2, <2>3, <2>4, <2>6
  <2>7. CASE v.kind = w.kind /\ w.kind = z.kind /\ (v.num # w.num \/ w.num # z.num)
    BY <2>2, <2>4, <2>7
  <2>8. CASE v.kind = w.kind /\ w.kind = z.kind /\ v.num = w.num /\ w.num = z.num
    BY <2>4, <2>5, <2>8
  <2> QED
    BY <2>6, <2>7, <2>8
<1>2. \A v \in Tree : v \in T
  <2> HIDE DEF T
  <2> QED
    BY <1>1, TreeInduction DEF Tree
<1> QED
  BY <1>2

-----------------------------------------------------------------------------
(***************************************************************************)
(* Ranks in a finite set with a strict total order are its numbers in      *)
(* order.                                                                  *)
(***************************************************************************)
StrictOrder(R, S) ==
  /\ \A i \in S : <<i, i>> \notin R
  /\ \A i, j, k \in S : <<i, j>> \in R /\ <<j, k>> \in R => <<i, k>> \in R
  /\ \A i, j \in S : i = j \/ <<i, j>> \in R \/ <<j, i>> \in R

Before(R, S, i) == {j \in S : <<j, i>> \in R}

LEMMA RankBound ==
  ASSUME NEW S, IsFiniteSet(S), NEW R, StrictOrder(R, S), NEW i \in S
  PROVE  IsFiniteSet(Before(R, S, i)) /\ Cardinality(Before(R, S, i)) \in 0..(Cardinality(S) - 1)
<1>1. IsFiniteSet(S \ {i}) /\ Cardinality(S \ {i}) = Cardinality(S) - 1
  BY FS_RemoveElement
<1>2. Before(R, S, i) \in SUBSET (S \ {i})
  BY DEF Before, StrictOrder
<1>3. IsFiniteSet(Before(R, S, i)) /\ Cardinality(Before(R, S, i)) <= Cardinality(S \ {i})
  BY <1>1, <1>2, FS_Subset
<1>4. Cardinality(Before(R, S, i)) \in Nat /\ Cardinality(S) \in Nat
  BY <1>3, FS_CardinalityType
<1> QED
  BY <1>1, <1>3, <1>4

LEMMA RanksRise ==
  ASSUME NEW S, IsFiniteSet(S), NEW R, StrictOrder(R, S), NEW i \in S, NEW j \in S, <<i, j>> \in R
  PROVE  Cardinality(Before(R, S, i)) < Cardinality(Before(R, S, j))
<1> DEFINE BI == Before(R, S, i)
           BJ == Before(R, S, j)
<1>1. IsFiniteSet(BI) /\ IsFiniteSet(BJ)
  BY RankBound
<1>2. i \in BJ /\ i \notin BI /\ BI \in SUBSET BJ
  BY DEF Before, StrictOrder
<1> HIDE DEF BI, BJ
<1>3. IsFiniteSet(BJ \ {i}) /\ Cardinality(BJ \ {i}) = Cardinality(BJ) - 1
  BY <1>1, <1>2, FS_RemoveElement
<1>4. BI \in SUBSET (BJ \ {i})
  BY <1>2
<1>5. Cardinality(BI) <= Cardinality(BJ \ {i})
  BY <1>3, <1>4, FS_Subset
<1>6. Cardinality(BI) \in Nat /\ Cardinality(BJ) \in Nat
  BY <1>1, FS_CardinalityType
<1>7. Cardinality(BI) < Cardinality(BJ)
  BY <1>3, <1>5, <1>6
<1> QED
  BY <1>7 DEF BI, BJ

LEMMA RanksDiffer ==
  ASSUME NEW S, IsFiniteSet(S), NEW R, StrictOrder(R, S), NEW i \in S, NEW j \in S,
         Cardinality(Before(R, S, i)) = Cardinality(Before(R, S, j))
  PROVE  i = j
<1> SUFFICES ASSUME i # j PROVE FALSE
  OBVIOUS
<1>1. Cardinality(Before(R, S, i)) \in Int
  BY RankBound
<1>2. <<i, j>> \in R \/ <<j, i>> \in R
  BY DEF StrictOrder
<1>3. CASE <<i, j>> \in R
  BY <1>1, <1>3, RanksRise
<1>4. CASE <<j, i>> \in R
  BY <1>1, <1>4, RanksRise
<1> QED
  BY <1>2, <1>3, <1>4

LEMMA RanksTaken ==
  ASSUME NEW S, IsFiniteSet(S), NEW R, StrictOrder(R, S), NEW n \in 0..(Cardinality(S) - 1)
  PROVE  \E i \in S : Cardinality(Before(R, S, i)) = n
<1> DEFINE c == Cardinality(S)
           T == 0..(c - 1)
           f == [i \in S |-> Cardinality(Before(R, S, i))]
<1>1. f \in Injection(S, T)
  <2>1. f \in [S -> T]
    BY RankBound
  <2>2. \A i, j \in S : f[i] = f[j] => i = j
    BY RanksDiffer
  <2> HIDE DEF f, T
  <2> QED
    BY <2>1, <2>2 DEF Injection, IsInjective
<1>2. c \in Nat
  BY FS_CardinalityType
<1> HIDE DEF c
<1>3. IsFiniteSet(T) /\ Cardinality(T) = c
  BY <1>2, FS_Interval
<1> HIDE DEF T, f
<1>4. f \in Surjection(S, T)
  BY <1>1, <1>3, FS_Injection DEF c
<1>5. \E i \in S : f[i] = n
  BY <1>4 DEF Surjection, T, c
<1> QED
  BY <1>5 DEF f

\* As many as there are in an injective enumeration.
LEMMA CountEnumerated ==
  ASSUME NEW n \in Nat, NEW S, NEW f \in [1..n -> S],
         \A i, j \in 1..n : f[i] = f[j] => i = j, \A v \in S : \E i \in 1..n : f[i] = v
  PROVE  IsFiniteSet(S) /\ Cardinality(S) = n
<1>1. f \in Injection(1..n, S)
  BY DEF Injection, IsInjective
<1>2. f \in Surjection(1..n, S)
  BY DEF Surjection
<1>3. ExistsBijection(1..n, S)
  BY <1>1, <1>2 DEF ExistsBijection, Bijection
<1> QED
  BY <1>3, FS_NatBijection, FS_CountingElements

-----------------------------------------------------------------------------
(***************************************************************************)
(* Sorting: the one arrangement in which every key precedes the later      *)
(* ones.                                                                   *)
(***************************************************************************)
Arranges(p, keys) ==
  /\ p \in [DOMAIN keys -> DOMAIN keys]
  /\ \A i \in DOMAIN keys : \E m \in DOMAIN keys : p[m] = i
  /\ \A i, j \in DOMAIN keys : i < j => Precedes(keys, p[i], p[j])

Arrangement(keys) ==
  [m \in DOMAIN keys |-> CHOOSE i \in DOMAIN keys : Place(keys, i) = m - 1]

Precedence(keys) == {q \in (DOMAIN keys) \X (DOMAIN keys) : Precedes(keys, q[1], q[2])}

LEMMA PrecedesIs ==
  ASSUME NEW keys \in Seq(Tree), NEW i \in DOMAIN keys, NEW j \in DOMAIN keys
  PROVE  /\ Precedes(keys, i, j) <=> Compare(keys[i], keys[j]) < 0 \/ (keys[i] = keys[j] /\ i < j)
         /\ Precedes(keys, i, j) <=> <<i, j>> \in Precedence(keys)
<1>1. keys[i] \in Tree /\ keys[j] \in Tree
  OBVIOUS
<1>2. Compare(keys[i], keys[j]) \in Int /\ (Compare(keys[i], keys[j]) = 0 <=> keys[i] = keys[j])
  BY <1>1, CompareOpposite DEF Opposite
<1>3. <<i, j>> \in (DOMAIN keys) \X (DOMAIN keys) /\ <<i, j>>[1] = i /\ <<i, j>>[2] = j
  OBVIOUS
<1>4. Precedes(keys, i, j) <=> <<i, j>> \in Precedence(keys)
  BY <1>3, Zenon DEF Precedence
<1> QED
  BY <1>2, <1>4 DEF Precedes

LEMMA PrecedenceIsStrict ==
  ASSUME NEW keys \in Seq(Tree)
  PROVE  StrictOrder(Precedence(keys), DOMAIN keys)
<1> DEFINE R == Precedence(keys)
           D == DOMAIN keys
           C(i, j) == Compare(keys[i], keys[j])
<1>1. D = 1..Len(keys) /\ Len(keys) \in Nat /\ \A i \in D : keys[i] \in Tree
  OBVIOUS
<1>2. \A i, j \in D : <<i, j>> \in R <=> C(i, j) < 0 \/ (keys[i] = keys[j] /\ i < j)
  BY PrecedesIs
<1>3. \A i, j \in D : C(i, j) \in Int /\ C(j, i) = -C(i, j) /\ (C(i, j) = 0 <=> keys[i] = keys[j])
  BY <1>1, CompareOpposite DEF Opposite
<1>4. \A i, j, k \in D : C(i, j) < 0 /\ C(j, k) < 0 => C(i, k) < 0
  BY <1>1, CompareThrough DEF Through
<1>5. \A i, j, k \in D : (keys[i] = keys[j] => C(i, k) = C(j, k)) /\ (keys[j] = keys[k] => C(i, j) = C(i, k))
  OBVIOUS
<1>6. \A i \in D : i \in Int
  BY <1>1
<1> HIDE DEF R, D, C
<1>7. \A i \in D : <<i, i>> \notin R
  BY <1>2, <1>3, <1>6
<1>8. ASSUME NEW i \in D, NEW j \in D, NEW k \in D, <<i, j>> \in R, <<j, k>> \in R
      PROVE  <<i, k>> \in R
  <2>1. (C(i, j) < 0 \/ (keys[i] = keys[j] /\ i < j)) /\ (C(j, k) < 0 \/ (keys[j] = keys[k] /\ j < k))
    BY <1>2, <1>8
  <2>2. C(i, k) < 0 \/ (keys[i] = keys[k] /\ i < k)
    BY <2>1, <1>4, <1>5, <1>6
  <2> QED
    BY <1>2, <2>2
<1>9. ASSUME NEW i \in D, NEW j \in D, i # j PROVE <<i, j>> \in R \/ <<j, i>> \in R
  <2>1. C(i, j) < 0 \/ C(j, i) < 0 \/ C(i, j) = 0
    BY <1>3
  <2>2. CASE C(i, j) = 0
    <3>1. keys[i] = keys[j] /\ (i < j \/ j < i)
      BY <1>3, <1>6, <1>9, <2>2
    <3> QED
      BY <1>2, <3>1
  <2> QED
    BY <1>2, <2>1, <2>2
<1>10. StrictOrder(R, D)
  BY <1>7, <1>8, <1>9 DEF StrictOrder
<1> QED
  BY <1>10 DEF R, D

LEMMA PlaceIs ==
  ASSUME NEW keys \in Seq(Tree), NEW i \in DOMAIN keys
  PROVE  Place(keys, i) = Cardinality(Before(Precedence(keys), DOMAIN keys, i))
<1>1. {j \in DOMAIN keys : Precedes(keys, j, i)} = Before(Precedence(keys), DOMAIN keys, i)
  BY PrecedesIs DEF Before
<1> QED
  BY <1>1 DEF Place

LEMMA KeysFinite ==
  ASSUME NEW keys \in Seq(Tree)
  PROVE  IsFiniteSet(DOMAIN keys) /\ Cardinality(DOMAIN keys) = Len(keys) /\ Len(keys) \in Nat
         /\ DOMAIN keys = 1..Len(keys)
<1>1. DOMAIN keys = 1..Len(keys) /\ Len(keys) \in Nat
  OBVIOUS
<1>2. IsFiniteSet(1..Len(keys)) /\ Cardinality(1..Len(keys)) = Len(keys)
  BY <1>1, FS_Interval
<1> QED
  BY <1>1, <1>2

LEMMA PlacesAre ==
  ASSUME NEW keys \in Seq(Tree)
  PROVE  /\ \A i, j \in DOMAIN keys : Place(keys, i) = Place(keys, j) => i = j
         /\ \A i, j \in DOMAIN keys : Precedes(keys, i, j) => Place(keys, i) < Place(keys, j)
         /\ \A m \in DOMAIN keys : \E i \in DOMAIN keys : Place(keys, i) = m - 1
         /\ \A i \in DOMAIN keys : Place(keys, i) + 1 \in DOMAIN keys
<1> DEFINE R == Precedence(keys)
           D == DOMAIN keys
           n == Len(keys)
<1>1. IsFiniteSet(D) /\ Cardinality(D) = n /\ n \in Nat /\ D = 1..n /\ StrictOrder(R, D)
  BY KeysFinite, PrecedenceIsStrict
<1>2. \A i \in D : Place(keys, i) = Cardinality(Before(R, D, i))
  BY PlaceIs
<1>3. \A i, j \in D : Precedes(keys, i, j) <=> <<i, j>> \in R
  BY PrecedesIs
<1> HIDE DEF R, D, n
<1>4. ASSUME NEW i \in D, NEW j \in D, Place(keys, i) = Place(keys, j) PROVE i = j
  <2>1. Cardinality(Before(R, D, i)) = Cardinality(Before(R, D, j))
    BY <1>2, <1>4
  <2> QED
    BY <1>1, <2>1, RanksDiffer
<1>5. ASSUME NEW i \in D, NEW j \in D, Precedes(keys, i, j)
      PROVE  Place(keys, i) < Place(keys, j)
  <2>1. <<i, j>> \in R
    BY <1>3, <1>5
  <2>2. Cardinality(Before(R, D, i)) < Cardinality(Before(R, D, j))
    BY <1>1, <2>1, RanksRise
  <2> QED
    BY <1>2, <2>2
<1>6. ASSUME NEW m \in D PROVE \E i \in D : Place(keys, i) = m - 1
  <2>1. m - 1 \in 0..(Cardinality(D) - 1)
    BY <1>1
  <2>2. \E i \in D : Cardinality(Before(R, D, i)) = m - 1
    BY <1>1, <2>1, RanksTaken
  <2> QED
    BY <1>2, <2>2
<1>7. ASSUME NEW i \in D PROVE Place(keys, i) + 1 \in D
  <2>1. Cardinality(Before(R, D, i)) \in 0..(Cardinality(D) - 1)
    BY <1>1, RankBound
  <2> QED
    BY <1>1, <1>2, <2>1
<1> QED
  BY <1>4, <1>5, <1>6, <1>7 DEF D

LEMMA ArrangementIs ==
  ASSUME NEW keys \in Seq(Tree)
  PROVE  /\ Arranges(Arrangement(keys), keys)
         /\ \A m \in DOMAIN keys : Place(keys, Arrangement(keys)[m]) = m - 1
<1> DEFINE p == Arrangement(keys)
           D == DOMAIN keys
<1>1. \A m \in D : p[m] \in D /\ Place(keys, p[m]) = m - 1
  BY PlacesAre DEF Arrangement
<1>2. p \in [D -> D]
  BY <1>1 DEF Arrangement
<1>3. D \subseteq Nat
  BY KeysFinite
<1> HIDE DEF p
<1>4. ASSUME NEW i \in D PROVE \E m \in D : p[m] = i
  <2> DEFINE m == Place(keys, i) + 1
  <2>1. m \in D
    BY PlacesAre
  <2>2. Place(keys, i) \in Int
    BY PlaceIs, KeysFinite, PrecedenceIsStrict, RankBound
  <2>3. Place(keys, i) = m - 1
    BY <2>2
  <2> HIDE DEF m
  <2>4. Place(keys, p[m]) = Place(keys, i) /\ p[m] \in D
    BY <1>1, <2>1, <2>3
  <2>5. p[m] = i
    BY <2>4, PlacesAre
  <2> QED
    BY <2>1, <2>5
<1>5. ASSUME NEW i \in D, NEW j \in D, i < j PROVE Precedes(keys, p[i], p[j])
  <2>1. p[i] \in D /\ p[j] \in D /\ Place(keys, p[i]) = i - 1 /\ Place(keys, p[j]) = j - 1
    BY <1>1
  <2>2. p[i] # p[j] /\ ~(Place(keys, p[j]) < Place(keys, p[i]))
    BY <2>1, <1>3, <1>5
  <2>3. <<p[i], p[j]>> \in Precedence(keys) \/ <<p[j], p[i]>> \in Precedence(keys)
    BY <2>1, <2>2, PrecedenceIsStrict DEF StrictOrder
  <2>4. Precedes(keys, p[i], p[j]) \/ Precedes(keys, p[j], p[i])
    BY <2>1, <2>3, PrecedesIs
  <2> QED
    BY <2>1, <2>2, <2>4, PlacesAre
<1> QED
  BY <1>1, <1>2, <1>4, <1>5 DEF Arranges, p

\* There is only one.
LEMMA OneArrangement ==
  ASSUME NEW keys \in Seq(Tree), NEW p, Arranges(p, keys)
  PROVE  p = Arrangement(keys)
<1> DEFINE D == DOMAIN keys
           R == Precedence(keys)
           q == Arrangement(keys)
<1>1. D = 1..Len(keys) /\ Len(keys) \in Nat /\ StrictOrder(R, D)
  BY KeysFinite, PrecedenceIsStrict
<1>2. /\ p \in [D -> D] /\ \A i \in D : \E m \in D : p[m] = i
      /\ \A i, j \in D : i < j => <<p[i], p[j]>> \in R
  BY PrecedesIs DEF Arranges
<1>3. \A m \in D : q[m] \in D /\ Place(keys, q[m]) = m - 1
  BY ArrangementIs DEF Arranges
<1> HIDE DEF D, R
<1>4. ASSUME NEW m \in D PROVE Place(keys, p[m]) = m - 1
  <2> DEFINE S == Before(R, D, p[m])
             f == [k \in 1..(m - 1) |-> p[k]]
  <2>1. \A k \in 1..(m - 1) : k \in D /\ k < m
    BY <1>1
  <2>2. \A k \in D : p[k] \in S <=> k < m
    <3> SUFFICES ASSUME NEW k \in D PROVE p[k] \in S <=> k < m
      OBVIOUS
    <3>1. p[k] \in D /\ p[m] \in D
      BY <1>2
    <3>1a. k \in Int /\ m \in Int
      BY <1>1
    <3>2. CASE k < m
      BY <1>2, <3>1, <3>2 DEF Before
    <3>3. CASE k = m
      BY <1>1, <3>1, <3>3 DEF Before, StrictOrder
    <3>4. CASE m < k
      <4>1. <<p[m], p[k]>> \in R
        BY <1>2, <3>4
      <4>2. <<p[k], p[m]>> \notin R
        BY <1>1, <3>1, <4>1 DEF StrictOrder
      <4> QED
        BY <3>1a, <3>4, <4>2 DEF Before
    <3> QED
      BY <3>1a, <3>2, <3>3, <3>4
  <2>3. f \in [1..(m - 1) -> S]
    BY <2>1, <2>2
  <2>4. \A i, j \in 1..(m - 1) : f[i] = f[j] => i = j
    <3> SUFFICES ASSUME NEW i \in 1..(m - 1), NEW j \in 1..(m - 1), i # j PROVE p[i] # p[j]
      OBVIOUS
    <3>1a. i \in D /\ j \in D /\ (i < j \/ j < i)
      BY <2>1
    <3>1. i \in D /\ j \in D /\ (i < j \/ j < i) /\ p[i] \in D /\ p[j] \in D
      BY <3>1a, <1>2
    <3>2. <<p[i], p[j]>> \in R \/ <<p[j], p[i]>> \in R
      BY <1>2, <3>1
    <3> QED
      BY <1>1, <3>1, <3>2 DEF StrictOrder
  <2>5. \A v \in S : \E i \in 1..(m - 1) : f[i] = v
    <3> SUFFICES ASSUME NEW v \in S PROVE \E i \in 1..(m - 1) : p[i] = v
      OBVIOUS
    <3>1. v \in D
      BY DEF Before
    <3>2. PICK i \in D : p[i] = v
      BY <1>2, <3>1
    <3>3. i < m
      BY <2>2, <3>2
    <3>4. i \in 1..(m - 1)
      BY <1>1, <3>3
    <3> QED
      BY <3>2, <3>4
  <2>6. m - 1 \in Nat
    BY <1>1
  <2> HIDE DEF S, f
  <2>7. Cardinality(S) = m - 1
    BY <2>3, <2>4, <2>5, <2>6, CountEnumerated
  <2>8. p[m] \in D
    BY <1>2
  <2> QED
    BY <2>7, <2>8, PlaceIs DEF S, D, R
<1>5. ASSUME NEW m \in D PROVE p[m] = q[m]
  <2>1. p[m] \in D /\ q[m] \in D /\ Place(keys, p[m]) = Place(keys, q[m])
    BY <1>2, <1>3, <1>4
  <2> QED
    BY <2>1, PlacesAre DEF D
<1>6. q = [m \in D |-> q[m]]
  BY DEF Arrangement, D
<1> HIDE DEF q
<1>7. p = q
  BY <1>2, <1>5, <1>6
<1> QED
  BY <1>7 DEF q

LEMMA SortedIs ==
  ASSUME NEW s, NEW keys, DOMAIN s = DOMAIN keys
  PROVE  Sorted(s, keys) = [m \in DOMAIN keys |-> s[Arrangement(keys)[m]]]
BY DEF Sorted, Arrangement

Onto(p, D) == p \in [D -> D] /\ \A i \in D : \E m \in D : p[m] = i

LEMMA OntoIsOneToOne ==
  ASSUME NEW keys \in Seq(Tree), NEW p, Onto(p, DOMAIN keys)
  PROVE  \A i, j \in DOMAIN keys : p[i] = p[j] => i = j
<1> DEFINE D == DOMAIN keys
<1>1. IsFiniteSet(D) /\ Cardinality(D) = Cardinality(D)
  BY KeysFinite
<1>2. p \in Surjection(D, D)
  BY DEF Surjection, Onto
<1>3. p \in Injection(D, D)
  <2> HIDE DEF D
  <2> QED
    BY <1>1, <1>2, FS_SurjSameCardinalityImpliesInj
<1> QED
  BY <1>3 DEF Injection, IsInjective

\* For keys that differ, the result does not depend on the order given.
LEMMA SortedForgetsTheOrder ==
  ASSUME NEW keys \in Seq(Tree), NEW s, DOMAIN s = DOMAIN keys,
         NEW order, Onto(order, DOMAIN keys),
         \A i, j \in DOMAIN keys : keys[i] = keys[j] => i = j
  PROVE  Sorted([i \in DOMAIN keys |-> s[order[i]]], [i \in DOMAIN keys |-> keys[order[i]]])
           = Sorted(s, keys)
<1> DEFINE D == DOMAIN keys
           ks == [i \in D |-> keys[order[i]]]
           t == [i \in D |-> s[order[i]]]
           p == Arrangement(ks)
           q == [m \in D |-> order[p[m]]]
<1>0. order \in [D -> D]
  BY DEF Onto
<1>1. ks \in Seq(Tree) /\ DOMAIN ks = D /\ DOMAIN t = D
  <2>1. D = 1..Len(keys) /\ Len(keys) \in Nat /\ \A i \in D : keys[i] \in Tree
    OBVIOUS
  <2> QED
    BY <1>0, <2>1
<1>2. /\ Onto(p, D) /\ p \in [D -> D]
      /\ \A i, j \in D : i < j => Precedes(ks, p[i], p[j])
  BY <1>1, ArrangementIs DEF Arranges, Onto
<1>3. Arranges(q, keys)
  <2> HIDE DEF p, ks
  <2>1. q \in [D -> D]
    BY <1>2, <1>0
  <2>2. ASSUME NEW i \in D PROVE \E m \in D : q[m] = i
    <3>1. PICK j \in D : order[j] = i
      BY DEF Onto
    <3>2. PICK m \in D : p[m] = j
      BY <1>2 DEF Onto
    <3> QED
      BY <3>1, <3>2
  <2>3. ASSUME NEW i \in D, NEW j \in D, i < j PROVE Precedes(keys, q[i], q[j])
    <3>1. PICK a \in D, b \in D, u \in D, w \in D :
            p[i] = a /\ p[j] = b /\ order[a] = u /\ order[b] = w
      BY <1>2, <1>0
    <3>2. q[i] = u /\ q[j] = w
      BY <3>1
    <3>3. Precedes(ks, a, b)
      BY <1>2, <2>3, <3>1
    <3>4. Compare(ks[a], ks[b]) < 0 \/ (ks[a] = ks[b] /\ a < b)
      BY <1>1, <3>3, PrecedesIs
    <3>5. ks[a] = keys[u] /\ ks[b] = keys[w]
      BY <3>1 DEF ks
    <3>6. a # b
      <4>1. i \in Int /\ i # j
        BY <2>3, KeysFinite
      <4>2. \A m, n \in D : p[m] = p[n] => m = n
        BY <1>2, OntoIsOneToOne
      <4> HIDE DEF D
      <4> QED
        BY <3>1, <4>1, <4>2
    <3>7. u # w
      <4>1. \A m, n \in D : order[m] = order[n] => m = n
        BY OntoIsOneToOne
      <4> HIDE DEF D
      <4> QED
        BY <3>1, <3>6, <4>1
    <3>8. Compare(keys[u], keys[w]) < 0
      BY <3>4, <3>5, <3>7
    <3> HIDE DEF q
    <3> QED
      BY <3>2, <3>8, PrecedesIs
  <2> HIDE DEF q
  <2> QED
    BY <2>1, <2>2, <2>3 DEF Arranges
<1>4. q = Arrangement(keys)
  <2> HIDE DEF q
  <2> QED
    BY <1>3, OneArrangement
<1>5. Sorted(t, ks) = [m \in D |-> t[p[m]]]
  <2> HIDE DEF t, ks, D
  <2> QED
    BY <1>1, SortedIs
<1>6. \A m \in D : t[p[m]] = s[q[m]]
  <2> HIDE DEF p
  <2> QED
    BY <1>2
<1>7. Sorted(s, keys) = [m \in D |-> s[Arrangement(keys)[m]]]
  BY SortedIs
<1> HIDE DEF t, ks, p, q
<1>8. Sorted(t, ks) = Sorted(s, keys)
  BY <1>4, <1>5, <1>6, <1>7
<1> QED
  BY <1>8 DEF t, ks

\* Elements with one key keep their order.
LEMMA SortedIsStable ==
  ASSUME NEW keys \in Seq(Tree), NEW i \in DOMAIN keys, NEW j \in DOMAIN keys,
         i < j, keys[i] = keys[j],
         NEW m \in DOMAIN keys, NEW n \in DOMAIN keys,
         Arrangement(keys)[m] = i, Arrangement(keys)[n] = j
  PROVE  m < n
<1>1. m \in Int /\ n \in Int /\ i \in Int /\ j \in Int
  BY KeysFinite
<1>2. CASE n < m
  <2>1. Precedes(keys, j, i)
    BY <1>2, ArrangementIs DEF Arranges
  <2>2. Compare(keys[j], keys[i]) < 0 \/ j < i
    BY <2>1, PrecedesIs
  <2>3. Compare(keys[j], keys[i]) = 0
    BY CompareOpposite DEF Opposite
  <2> QED
    BY <1>1, <2>2, <2>3
<1>3. m # n
  BY <1>1
<1> QED
  BY <1>1, <1>2, <1>3

\* A map of three entries: its function in an order, and what is claimed.
MapEntries(keys, order) == [i \in 1..3 |-> Entry(keys[order[i]], NewInt(order[i]))]

InOrder == <<1, 2, 3>>

LEMMA MapEntriesAre ==
  ASSUME NEW keys \in Seq(Tree), Len(keys) = 3, NEW order, Onto(order, 1..3)
  PROVE  /\ FromMap(MapEntries(keys, order))
              = Value("func", 0, Sorted(MapEntries(keys, order), [i \in 1..3 |-> keys[order[i]]]))
         /\ [i \in 1..3 |-> keys[order[i]]] \in Seq(Tree)
         /\ DOMAIN [i \in 1..3 |-> keys[order[i]]] = 1..3
<1>1. \A i \in 1..3 : order[i] \in 1..3 /\ keys[order[i]] \in Tree
  BY DEF Onto
<1>2. Keys(MapEntries(keys, order)) = [i \in 1..3 |-> keys[order[i]]]
  BY DEF Keys, MapEntries, Entry, Value
<1>3. [i \in 1..3 |-> keys[order[i]]] \in [1..3 -> Tree]
  BY <1>1
<1> DEFINE ks == [i \in 1..3 |-> keys[order[i]]]
<1>4. DOMAIN ks = 1..3
  OBVIOUS
<1> HIDE DEF ks
<1>5. ks \in Seq(Tree)
  BY <1>3 DEF ks
<1>6. FromMap(MapEntries(keys, order)) = Value("func", 0, Sorted(MapEntries(keys, order), ks))
  BY <1>2 DEF FromMap, NewFunc, ks
<1> QED
  BY <1>4, <1>5, <1>6 DEF ks

LEMMA InOrderIs == /\ Onto(InOrder, 1..3) /\ InOrder \in Orders
                   /\ \A i \in 1..3 : InOrder[i] = i
<1>1. InOrder[1] = 1 /\ InOrder[2] = 2 /\ InOrder[3] = 3 /\ InOrder \in [1..3 -> 1..3]
  BY DEF InOrder
<1>2. \A i \in 1..3 : i = 1 \/ i = 2 \/ i = 3
  OBVIOUS
<1>3. \A i \in 1..3 : InOrder[i] = i
  BY <1>1, <1>2
<1> QED
  BY <1>1, <1>3 DEF Onto, Orders

LEMMA DifferentKeysForgetTheOrder ==
  ASSUME NEW keys \in Seq(Tree), Len(keys) = 3, NEW order \in Orders,
         \A i, j \in 1..3 : i < j => keys[i] # keys[j]
  PROVE  FromMap(MapEntries(keys, order)) = FromMap(MapEntries(keys, InOrder))
<1> DEFINE D == 1..3
           s == [i \in D |-> Entry(keys[i], NewInt(i))]
<1>1. DOMAIN keys = D /\ DOMAIN s = D
  OBVIOUS
<1>2. \A i, j \in DOMAIN keys : keys[i] = keys[j] => i = j
  <2> SUFFICES ASSUME NEW i \in D, NEW j \in D, i # j PROVE keys[i] # keys[j]
    BY <1>1
  <2>1. i < j \/ j < i
    OBVIOUS
  <2> QED
    BY <2>1
<1>3. ASSUME NEW o, Onto(o, D)
      PROVE  FromMap(MapEntries(keys, o)) = Value("func", 0, Sorted(s, keys))
  <2>1. \A i \in D : o[i] \in D
    BY <1>3 DEF Onto
  <2>2. MapEntries(keys, o) = [i \in D |-> s[o[i]]]
    BY <2>1 DEF MapEntries
  <2> HIDE DEF s, D
  <2>3. Sorted([i \in D |-> s[o[i]]], [i \in D |-> keys[o[i]]]) = Sorted(s, keys)
    BY <1>1, <1>2, <1>3, SortedForgetsTheOrder
  <2>4. FromMap(MapEntries(keys, o))
          = Value("func", 0, Sorted(MapEntries(keys, o), [i \in D |-> keys[o[i]]]))
    BY <1>3, MapEntriesAre DEF D
  <2> QED
    BY <2>2, <2>3, <2>4
<1>4. Onto(order, D)
  BY DEF Onto, Orders
<1> HIDE DEF s
<1> QED
  BY <1>3, <1>4, InOrderIs

LEMMA EqualKeysShowTheOrder ==
  ASSUME NEW keys \in Seq(Tree), Len(keys) = 3,
         NEW i \in 1..3, NEW j \in 1..3, i < j, keys[i] = keys[j]
  PROVE  \E order \in Orders :
           FromMap(MapEntries(keys, order)) # FromMap(MapEntries(keys, InOrder))
<1> DEFINE D == 1..3
           order == [k \in D |-> IF k = i THEN j ELSE IF k = j THEN i ELSE k]
<1>1. DOMAIN keys = D
  OBVIOUS
<1>2. /\ order \in [D -> D] /\ order[i] = j /\ order[j] = i
      /\ \A k \in D : order[order[k]] = k
  OBVIOUS
<1>3. order \in Orders /\ Onto(order, D)
  <2> HIDE DEF order
  <2>1. \A k \in D : \E m \in D : order[m] = k
    BY <1>2
  <2> QED
    BY <1>2, <2>1 DEF Orders, Onto
<1> DEFINE ks(o) == [k \in D |-> keys[o[k]]]
           es(o) == MapEntries(keys, o)
           p(o) == Arrangement(ks(o))
<1>4. ASSUME NEW o, Onto(o, D)
      PROVE  /\ FromMap(es(o)).xs = [m \in D |-> es(o)[p(o)[m]]]
             /\ ks(o) \in Seq(Tree) /\ DOMAIN ks(o) = D /\ Onto(p(o), D)
             /\ \A m \in D : FromMap(es(o)).xs[m] = Entry(keys[o[p(o)[m]]], NewInt(o[p(o)[m]]))
  <2>1. /\ FromMap(es(o)) = Value("func", 0, Sorted(es(o), ks(o)))
        /\ ks(o) \in Seq(Tree) /\ DOMAIN ks(o) = D /\ DOMAIN es(o) = D
    BY <1>4, MapEntriesAre DEF MapEntries
  <2>2. Arranges(p(o), ks(o))
    BY <2>1, ArrangementIs
  <2>3. Onto(p(o), D)
    BY <2>1, <2>2 DEF Arranges, Onto
  <2>4. Sorted(es(o), ks(o)) = [m \in D |-> es(o)[p(o)[m]]]
    <3> HIDE DEF es, ks, D
    <3> QED
      BY <2>1, SortedIs
  <2>5. \A m \in D : p(o)[m] \in D
    BY <2>3 DEF Onto
  <2>6. \A m \in D : es(o)[p(o)[m]] = Entry(keys[o[p(o)[m]]], NewInt(o[p(o)[m]]))
    <3> HIDE DEF p
    <3> QED
      BY <2>5 DEF MapEntries
  <2>7. FromMap(es(o)).xs = Sorted(es(o), ks(o))
    BY <2>1 DEF Value
  <2> HIDE DEF es, ks, p
  <2> QED
    BY <2>1, <2>3, <2>4, <2>6, <2>7
<1> HIDE DEF es, p, order
<1>5. FromMap(es(order)) # FromMap(es(InOrder))
  <2> SUFFICES ASSUME FromMap(es(order)) = FromMap(es(InOrder)) PROVE FALSE
    OBVIOUS
  <2>1. Onto(p(InOrder), D) /\ Onto(p(order), D) /\ Onto(InOrder, D)
    BY <1>3, <1>4, InOrderIs
  <2>2. PICK m \in D : p(InOrder)[m] = i
    BY <2>1 DEF Onto
  <2>3. PICK n \in D : p(InOrder)[n] = j
    BY <2>1 DEF Onto
  <2>4. ASSUME NEW h \in D PROVE order[p(order)[h]] = p(InOrder)[h]
    <3>1. p(order)[h] \in D /\ p(InOrder)[h] \in D
      BY <2>1 DEF Onto
    <3>2. Entry(keys[order[p(order)[h]]], NewInt(order[p(order)[h]]))
            = Entry(keys[InOrder[p(InOrder)[h]]], NewInt(InOrder[p(InOrder)[h]]))
      <4>1. FromMap(es(order)).xs[h] = Entry(keys[order[p(order)[h]]], NewInt(order[p(order)[h]]))
        BY <1>3, <1>4
      <4>2. FromMap(es(InOrder)).xs[h]
              = Entry(keys[InOrder[p(InOrder)[h]]], NewInt(InOrder[p(InOrder)[h]]))
        BY <2>1, <1>4
      <4> QED
        BY <4>1, <4>2, Zenon
    <3>3. \A k1, k2, v1, v2 : Entry(k1, NewInt(v1)) = Entry(k2, NewInt(v2)) => v1 = v2
      BY DEF Entry, NewInt, Value
    <3>4. order[p(order)[h]] = InOrder[p(InOrder)[h]]
      BY <3>2, <3>3
    <3> QED
      BY <3>1, <3>4, InOrderIs
  <2>5. order[p(order)[m]] = i /\ order[p(order)[n]] = j
    BY <2>2, <2>3, <2>4
  <2>6. p(order)[m] = j /\ p(order)[n] = i
    <3>1. p(order)[m] \in D /\ p(order)[n] \in D
      BY <2>1 DEF Onto
    <3> QED
      BY <1>2, <2>5, <3>1
  <2>7. /\ ks(order)[i] = keys[j] /\ ks(order)[j] = keys[i]
        /\ ks(InOrder)[i] = keys[i] /\ ks(InOrder)[j] = keys[j]
    BY <1>2, InOrderIs
  <2>8. /\ ks(order) \in Seq(Tree) /\ DOMAIN ks(order) = D
        /\ ks(InOrder) \in Seq(Tree) /\ DOMAIN ks(InOrder) = D
    BY <1>3, <1>4, <2>1
  <2> HIDE DEF ks
  <2>9. m < n
    BY <2>2, <2>3, <2>7, <2>8, SortedIsStable DEF p
  <2>10. n < m
    BY <2>6, <2>7, <2>8, SortedIsStable DEF p
  <2> QED
    BY <2>9, <2>10
<1> QED
  BY <1>3, <1>5 DEF es

-----------------------------------------------------------------------------
(***************************************************************************)
(* What the constructors of sets, records and functions return.            *)
(***************************************************************************)
Elements(s) == {s[i] : i \in DOMAIN s}

\* The places in their order.
Enumerates(e, P) ==
  /\ e \in [1..Cardinality(P) -> P]
  /\ \A i \in P : \E m \in 1..Cardinality(P) : e[m] = i
  /\ \A m, n \in 1..Cardinality(P) : m < n => e[m] < e[n]

AllRanks(R, S) ==
  \A n \in 0..(Cardinality(S) - 1) : \E i \in S : Cardinality(Before(R, S, i)) = n

LEMMA AllRanksTaken ==
  ASSUME NEW S, IsFiniteSet(S), NEW R, StrictOrder(R, S)
  PROVE  AllRanks(R, S)
BY RanksTaken DEF AllRanks

Selects(e, P, s) ==
  Enumerates(e, P) /\ Kept(s, P) = [m \in 1..Cardinality(P) |-> s[e[m]]]

LEMMA KeptIs ==
  ASSUME NEW n \in Nat, NEW P \in SUBSET (1..n), NEW s
  PROVE  Cardinality(P) \in Nat /\ \E e : Selects(e, P, s)
<1> DEFINE R == {q \in P \X P : q[1] < q[2]}
           c == Cardinality(P)
           rank(i) == Cardinality({j \in P : j <= i})
           e == [m \in 1..c |-> CHOOSE i \in P : rank(i) = m]
<1>1. IsFiniteSet(P) /\ c \in Nat
  <2>1. IsFiniteSet(1..n)
    BY FS_Interval
  <2> QED
    BY <2>1, FS_Subset, FS_CardinalityType
<1>2. \A i, j \in P : <<i, j>> \in R <=> i < j
  <2> SUFFICES ASSUME NEW i \in P, NEW j \in P PROVE <<i, j>> \in R <=> i < j
    OBVIOUS
  <2>1. <<i, j>> \in P \X P /\ <<i, j>>[1] = i /\ <<i, j>>[2] = j
    OBVIOUS
  <2> QED
    BY <2>1
<1> HIDE DEF R, c
<1>3. StrictOrder(R, P)
  <2>1. \A i \in P : i \in Int
    OBVIOUS
  <2> QED
    BY <1>2, <2>1 DEF StrictOrder
<1>4. ASSUME NEW i \in P PROVE rank(i) = Cardinality(Before(R, P, i)) + 1
  <2> DEFINE S == Before(R, P, i)
  <2>1. {j \in P : j <= i} = S \cup {i} /\ i \notin S
    <3>1. \A j \in P : j \in Int
      OBVIOUS
    <3>2. \A j : j \in S <=> j \in P /\ j < i
      BY <1>2 DEF Before
    <3>3. \A j \in P : j <= i <=> (j < i \/ j = i)
      BY <3>1
    <3>4. ~(i < i)
      BY <3>1
    <3> HIDE DEF S
    <3>5. \A j : j \in {k \in P : k <= i} <=> j \in S \cup {i}
      BY <3>2, <3>3
    <3> QED
      BY <3>2, <3>4, <3>5
  <2>2. IsFiniteSet(S)
    BY <1>1, <1>3, RankBound
  <2> HIDE DEF S
  <2>3. Cardinality(S \cup {i}) = Cardinality(S) + 1
    BY <2>1, <2>2, FS_AddElement
  <2> QED
    BY <2>1, <2>3 DEF S
<1> HIDE DEF rank
<1>5. ASSUME NEW i \in P
      PROVE  rank(i) \in 1..c /\ rank(i) - 1 = Cardinality(Before(R, P, i))
             /\ Cardinality(Before(R, P, i)) \in Int
  <2>1. Cardinality(Before(R, P, i)) \in 0..(c - 1)
    BY <1>1, <1>3, RankBound DEF c
  <2> QED
    BY <1>1, <1>4, <2>1
<1>6. ASSUME NEW m \in 1..c PROVE \E i \in P : rank(i) = m
  <2>1. m - 1 \in 0..(Cardinality(P) - 1)
    BY <1>1 DEF c
  <2> DEFINE k == m - 1
  <2>2. k \in 0..(Cardinality(P) - 1)
    BY <2>1
  <2> HIDE DEF k
  <2>3. PICK i \in P : Cardinality(Before(R, P, i)) = k
    <3>1. AllRanks(R, P)
      BY <1>1, <1>3, AllRanksTaken
    <3> QED
      BY <2>2, <3>1 DEF AllRanks
  <2> QED
    BY <1>1, <1>4, <2>3 DEF k
<1>7. \A m \in 1..c : e[m] \in P /\ rank(e[m]) = m
  BY <1>6
<1>8. e \in [1..c -> P]
  BY <1>7
<1> HIDE DEF e
<1>9. ASSUME NEW i \in P PROVE \E m \in 1..c : e[m] = i
  <2>1. rank(i) \in 1..c /\ e[rank(i)] \in P /\ rank(e[rank(i)]) = rank(i)
    BY <1>5, <1>7
  <2> DEFINE j == e[rank(i)]
  <2>2. Cardinality(Before(R, P, i)) = Cardinality(Before(R, P, j))
    BY <1>5, <2>1
  <2>3. j \in P
    BY <2>1
  <2> HIDE DEF j
  <2>4. j = i
    BY <1>1, <1>3, <2>2, <2>3, RanksDiffer
  <2> QED
    BY <2>1, <2>4 DEF j
<1>10. ASSUME NEW k \in 1..c, NEW m \in 1..c, k < m PROVE e[k] < e[m]
  <2> DEFINE i == e[k]
             j == e[m]
  <2>1. i \in P /\ j \in P /\ rank(i) = k /\ rank(j) = m
    BY <1>7
  <2> HIDE DEF i, j
  <2>3. i # j /\ i \in Int /\ j \in Int
    BY <2>1, <1>10
  <2>4. i < j
    <3>1. ~(<<j, i>> \in R)
      <4> SUFFICES ASSUME <<j, i>> \in R PROVE FALSE
        OBVIOUS
      <4> QED
        BY <1>1, <1>3, <1>5, <1>10, <2>1, RanksRise
    <3>2. ~(j < i)
      BY <1>2, <2>1, <3>1
    <3> QED
      BY <2>3, <3>2
  <2> QED
    BY <2>4 DEF i, j
<1>11. Enumerates(e, P)
  BY <1>8, <1>9, <1>10 DEF Enumerates, c
<1>12. Kept(s, P) = [m \in 1..c |-> s[e[m]]]
  BY DEF Kept, e, c, rank
<1>13. Selects(e, P, s)
  BY <1>11, <1>12 DEF Selects, c
<1> HIDE DEF e
<1> QED
  BY <1>1, <1>13 DEF c

LEMMA SortedElements ==
  ASSUME NEW keys \in Seq(Tree), NEW s, DOMAIN s = DOMAIN keys
  PROVE  /\ s \in Seq(Tree) => Sorted(s, keys) \in Seq(Tree)
         /\ DOMAIN Sorted(s, keys) = DOMAIN keys
         /\ Elements(Sorted(s, keys)) = Elements(s)
         /\ \A m \in DOMAIN keys : /\ Arrangement(keys)[m] \in DOMAIN keys
                                   /\ Sorted(s, keys)[m] = s[Arrangement(keys)[m]]
         /\ \A i, j \in DOMAIN keys :
              i < j => Compare(keys[Arrangement(keys)[i]], keys[Arrangement(keys)[j]]) <= 0
<1> DEFINE D == DOMAIN keys
           p == Arrangement(keys)
           t == Sorted(s, keys)
<1>1. t = [m \in D |-> s[p[m]]]
  BY SortedIs
<1>2. p \in [D -> D] /\ Onto(p, D) /\ \A i, j \in D : i < j => Precedes(keys, p[i], p[j])
  BY ArrangementIs DEF Arranges, Onto
<1>3. D = 1..Len(keys) /\ Len(keys) \in Nat /\ \A i \in D : keys[i] \in Tree
  OBVIOUS
<1> HIDE DEF D, p, t
<1>4. \A m \in D : p[m] \in D /\ t[m] = s[p[m]]
  BY <1>1, <1>2, <1>3
<1>5. DOMAIN t = D
  BY <1>1
<1>6. ASSUME s \in Seq(Tree) PROVE t \in Seq(Tree)
  <2>1. \A i \in D : s[i] \in Tree
    BY <1>6 DEF D
  <2>2. t \in [1..Len(keys) -> Tree]
    BY <1>1, <1>3, <1>4, <2>1
  <2> QED
    BY <1>3, <2>2
<1>7. Elements(t) = Elements(s)
  <2>1. DOMAIN s = D
    BY DEF D
  <2>2. \A i \in D : \E m \in D : p[m] = i
    BY <1>2 DEF Onto
  <2>3. \A v : v \in Elements(t) <=> \E m \in D : v = s[p[m]]
    BY <1>4, <1>5 DEF Elements
  <2>4. \A v : v \in Elements(s) <=> \E m \in D : v = s[m]
    BY <2>1 DEF Elements
  <2>5. \A v : v \in Elements(t) <=> v \in Elements(s)
    BY <2>2, <2>3, <2>4, <1>4
  <2> QED
    BY <2>5
<1>8. ASSUME NEW i \in D, NEW j \in D, i < j PROVE Compare(keys[p[i]], keys[p[j]]) <= 0
  <2>1. PICK a \in D, b \in D : p[i] = a /\ p[j] = b
    BY <1>2
  <2>2. Precedes(keys, a, b)
    BY <1>2, <1>8, <2>1
  <2>3. Compare(keys[a], keys[b]) < 0 \/ keys[a] = keys[b]
    BY <2>2, PrecedesIs DEF D
  <2>4. Opposite(keys[a], keys[b])
    BY <1>3, CompareOpposite
  <2> QED
    BY <2>1, <2>3, <2>4 DEF Opposite
<1> QED
  BY <1>4, <1>5, <1>6, <1>7, <1>8 DEF D, p, t

LEMMA SetIs ==
  ASSUME NEW elems \in Seq(Tree)
  PROVE  /\ NewSet(elems).kind = "set" /\ NewSet(elems).num = 0
         /\ NewSet(elems).xs \in Seq(Tree) /\ Elements(NewSet(elems).xs) = Elements(elems)
         /\ \A i, j \in DOMAIN NewSet(elems).xs :
              i < j => Compare(NewSet(elems).xs[i], NewSet(elems).xs[j]) < 0
<1> DEFINE D == DOMAIN elems
           p == Arrangement(elems)
           s == Sorted(elems, elems)
           P == {i \in DOMAIN s : i = 1 \/ Compare(s[i - 1], s[i]) # 0}
           t == Kept(s, P)
           c == Cardinality(P)
           n == Len(elems)
<1>1. NewSet(elems) = Value("set", 0, t)
  BY DEF NewSet
<1>2. /\ s \in Seq(Tree) /\ DOMAIN s = D /\ Elements(s) = Elements(elems)
      /\ \A m \in D : s[m] = elems[p[m]] /\ p[m] \in D
      /\ \A i, j \in D : i < j => Compare(elems[p[i]], elems[p[j]]) <= 0
  BY SortedElements
<1>3. n \in Nat /\ D = 1..n
  OBVIOUS
<1> HIDE DEF D, p, s, t, c, n
<1>4. \A i, j \in D : i < j => Compare(s[i], s[j]) <= 0
  BY <1>2
<1>5. (\A i \in D : s[i] \in Tree) /\ P \in SUBSET (1..n)
      /\ \A i \in D : i \in P <=> i = 1 \/ Compare(s[i - 1], s[i]) # 0
  BY <1>2, <1>3
<1> HIDE DEF P
<1>6. c \in Nat
  BY <1>3, <1>5, KeptIs DEF c
<1>7. PICK e : Enumerates(e, P) /\ t = [m \in 1..c |-> s[e[m]]]
  <2>1. P \in SUBSET (1..n) /\ n \in Nat
    BY <1>3, <1>5
  <2>2. PICK e : Selects(e, P, s)
    BY <2>1, KeptIs
  <2> QED
    BY <2>2 DEF Selects, c, t
<1>8. /\ e \in [1..c -> P] /\ (\A i \in P : \E m \in 1..c : e[m] = i)
      /\ \A k, m \in 1..c : k < m => e[k] < e[m]
  BY <1>7 DEF Enumerates, c
<1>9. \A m \in 1..c : e[m] \in P /\ e[m] \in D /\ t[m] = s[e[m]]
  BY <1>3, <1>5, <1>7, <1>8
<1>10. t \in Seq(Tree) /\ DOMAIN t = 1..c
  <2>1. t \in [1..c -> Tree]
    BY <1>5, <1>7, <1>9
  <2> QED
    BY <1>6, <2>1
<1>11. ASSUME NEW i \in P, NEW j \in P, i < j PROVE Compare(s[i], s[j]) < 0
  <2>1. i \in D /\ j \in D /\ j - 1 \in D /\ i <= j - 1 /\ j - 1 < j /\ j # 1
    BY <1>3, <1>5, <1>11
  <2>2. Compare(s[j - 1], s[j]) # 0 /\ Compare(s[j - 1], s[j]) <= 0
    BY <1>4, <1>5, <2>1
  <2>3. s[i] \in Tree /\ s[j] \in Tree /\ s[j - 1] \in Tree
    BY <1>5, <2>1
  <2>4. Opposite(s[j - 1], s[j]) /\ Opposite(s[i], s[j - 1])
    BY <2>3, CompareOpposite
  <2>5. Compare(s[j - 1], s[j]) < 0
    BY <2>2, <2>4 DEF Opposite
  <2>6. CASE i = j - 1
    BY <2>5, <2>6
  <2>7. CASE i < j - 1
    <3>1. Compare(s[i], s[j - 1]) <= 0
      BY <1>4, <2>1, <2>7
    <3>2. Compare(s[i], s[j - 1]) < 0 \/ s[i] = s[j - 1]
      BY <2>4, <3>1 DEF Opposite
    <3> QED
      BY <2>3, <2>5, <3>2, CompareThrough DEF Through
  <2> QED
    BY <1>3, <2>1, <2>6, <2>7
<1>12. ASSUME NEW i \in 1..c, NEW j \in 1..c, i < j PROVE Compare(t[i], t[j]) < 0
  BY <1>8, <1>9, <1>11, <1>12
<1>13. ASSUME NEW i \in D PROVE \E k \in P : s[k] = s[i]
  <2> DEFINE S == {k \in D : s[k] = s[i]}
  <2>1. S \in SUBSET Nat /\ i \in S
    BY <1>3
  <2> HIDE DEF S
  <2>2. PICK k \in S : \A l \in S : k <= l
    BY <2>1, LeastNumber
  <2>3. k \in D /\ s[k] = s[i]
    BY <2>2 DEF S
  <2>4. CASE k = 1
    BY <1>5, <2>3, <2>4
  <2>5. CASE k # 1
    <3>1. k - 1 \in D /\ ~(k <= k - 1)
      BY <1>3, <2>3, <2>5
    <3>2. s[k - 1] # s[k]
      BY <2>2, <2>3, <3>1 DEF S
    <3>3. Opposite(s[k - 1], s[k])
      BY <1>5, <2>3, <3>1, CompareOpposite
    <3>4. Compare(s[k - 1], s[k]) # 0
      BY <3>2, <3>3 DEF Opposite
    <3> QED
      BY <1>5, <2>3, <3>4
  <2> QED
    BY <2>4, <2>5
<1>14. Elements(t) = Elements(s)
  <2>1. \A v : v \in Elements(t) <=> \E m \in 1..c : v = t[m]
    BY <1>10 DEF Elements
  <2>2. \A v : v \in Elements(s) <=> \E i \in D : v = s[i]
    BY <1>2 DEF Elements
  <2>3. \A v : v \in Elements(t) => v \in Elements(s)
    BY <1>9, <2>1, <2>2
  <2>4. ASSUME NEW i \in D PROVE \E m \in 1..c : s[i] = t[m]
    <3>1. PICK k \in P : s[k] = s[i]
      BY <1>13
    <3>2. PICK m \in 1..c : e[m] = k
      BY <1>8
    <3> QED
      BY <1>9, <3>1, <3>2
  <2> QED
    BY <2>1, <2>2, <2>3, <2>4
<1>15. NewSet(elems).xs = t /\ NewSet(elems).kind = "set" /\ NewSet(elems).num = 0
  BY <1>1 DEF Value
<1> QED
  BY <1>2, <1>10, <1>12, <1>14, <1>15
-----------------------------------------------------------------------------
(***************************************************************************)
(* The maps that the run builds.                                           *)
(***************************************************************************)
Shaped == x \in Tree /\ y \in Tree

LEMMA AtomsAreTrees == \A a \in Atoms : a \in Tree
BY ConstructionAssumption DEF IsValue

LEMMA InitShaped == Init => Shaped
BY AtomsAreTrees DEF Init, Shaped

LEMMA NextShaped == Shaped /\ [Next]_vars => Shaped'
<1> SUFFICES ASSUME Shaped, [Next]_vars PROVE Shaped'
  OBVIOUS
<1>1. CASE GrowX
  BY <1>1 DEF GrowX, Shaped
<1>2. CASE GrowY
  BY <1>2 DEF GrowY, Shaped
<1>3. CASE UNCHANGED vars
  BY <1>3 DEF vars, Shaped
<1> QED
  BY <1>1, <1>2, <1>3 DEF Next

\* The order in which Go iterates a map shows exactly if two keys are equal.
LEMMA OrderShowsEqualKeys ==
  ASSUME NEW keys \in Seq(Tree), Len(keys) = 3
  PROVE  (\A i, j \in 1..3 : i < j => keys[i] # keys[j]) <=>
           (\A order \in Orders : FromMap(MapEntries(keys, order)) = FromMap(MapEntries(keys, InOrder)))
<1>1. CASE \A i, j \in 1..3 : i < j => keys[i] # keys[j]
  BY <1>1, DifferentKeysForgetTheOrder
<1>2. CASE ~(\A i, j \in 1..3 : i < j => keys[i] # keys[j])
  <2>1. PICK i \in 1..3, j \in 1..3 : i < j /\ keys[i] = keys[j]
    BY <1>2
  <2>2. \E order \in Orders : FromMap(MapEntries(keys, order)) # FromMap(MapEntries(keys, InOrder))
    BY <2>1, EqualKeysShowTheOrder
  <2> QED
    BY <1>2, <2>2
<1> QED
  BY <1>1, <1>2

LEMMA ShapedMeansInvisible == Shaped => MapOrderIsInvisible
<1> SUFFICES ASSUME Shaped, NEW p \in Partners
             PROVE  LET keys == <<x, y, p>>
                        Recorded(order) == FromMap([i \in 1..3 |-> Entry(keys[order[i]], NewInt(order[i]))])
                        inOrder == Recorded(<<1, 2, 3>>)
                    IN  (\A i, j \in 1..3 : i < j => keys[i] # keys[j]) <=>
                          (\A order \in Orders : Recorded(order) = inOrder)
  BY DEF MapOrderIsInvisible
<1> DEFINE keys == <<x, y, p>>
<1>1. p \in Tree
  BY ConstructionAssumption, AtomsAreTrees
<1>2. keys \in Seq(Tree) /\ Len(keys) = 3
  BY <1>1 DEF Shaped
<1> HIDE DEF keys
<1>3. (\A i, j \in 1..3 : i < j => keys[i] # keys[j]) <=>
        (\A order \in Orders : FromMap(MapEntries(keys, order)) = FromMap(MapEntries(keys, InOrder)))
  BY <1>2, OrderShowsEqualKeys
<1> QED
  BY <1>3, Zenon DEF MapEntries, InOrder, keys

\* Package value's FromGo: however Go iterates a map, the function recorded
\* for it is the same, unless two of its keys are equal values.
THEOREM MapOrderInvisible == Spec => []MapOrderIsInvisible
<1>1. Spec => []Shaped
  BY InitShaped, NextShaped, PTL DEF Spec
<1> QED
  BY <1>1, ShapedMeansInvisible, PTL
-----------------------------------------------------------------------------
(***************************************************************************)
(* What the constructors build is well made, in every part.                *)
(***************************************************************************)
\* Two functions that agree on the parts of a tree.
AgreeOn(f, g, v) == \A i \in DOMAIN v.xs : f[v.xs[i]] = g[v.xs[i]]

PartsBy(f, v) == {v} \cup UNION {f[v.xs[i]] : i \in DOMAIN v.xs}

LEMMA PartsLocal ==
  ASSUME NEW f, NEW g, NEW v, AgreeOn(f, g, v)
  PROVE  PartsBy(f, v) = PartsBy(g, v)
BY DEF AgreeOn, PartsBy

LEMMA ContentsAre == Contents = [v \in Tree |-> PartsBy(Contents, v)]
<1> USE NestingAssumption
<1> DEFINE L(k) == Levels(DOMAIN Kind)[k]
           Is(f, k) == f = [v \in L(k) |-> PartsBy(f, v)]
           T == {k \in 0..MaxNesting : \E f : Is(f, k)}
<1>1. 0 \in T
  <2>1. L(0) = {}
    BY LevelZero
  <2> HIDE DEF L
  <2>2. Is([v \in {} |-> 0], 0)
    BY <2>1
  <2> HIDE DEF Is
  <2>3. \E f : Is(f, 0)
    BY <2>2
  <2> QED
    BY <2>3
<1>2. ASSUME NEW k \in 1..MaxNesting, k - 1 \in T PROVE k \in T
  <2>1. PICK f : Is(f, k - 1)
    BY <1>2
  <2> DEFINE g == [v \in L(k) |-> PartsBy(f, v)]
  <2>2. ASSUME NEW a \in L(k) PROVE PartsBy(f, a) = PartsBy(g, a)
    <3>1. k \in 0..MaxNesting /\ L(k - 1) \subseteq L(k)
      BY LevelsGrow
    <3>2. \A i \in DOMAIN a.xs : a.xs[i] \in L(k - 1)
      BY <3>1, TreeLevel
    <3> HIDE DEF L
    <3>3. ASSUME NEW v \in L(k - 1) PROVE f[v] = g[v]
      <4>1. f[v] = PartsBy(f, v)
        BY <2>1
      <4> QED
        BY <3>1, <4>1
    <3> HIDE DEF g
    <3>4. AgreeOn(f, g, a)
      BY <3>2, <3>3 DEF AgreeOn
    <3> QED
      BY <3>4, PartsLocal
  <2> HIDE DEF L
  <2>3. g = [v \in L(k) |-> PartsBy(g, v)]
    <3>1. g = [v \in L(k) |-> PartsBy(f, v)]
      OBVIOUS
    <3> HIDE DEF g
    <3> QED
      BY <2>2, <3>1
  <2> HIDE DEF g
  <2>4. Is(g, k)
    BY <2>3
  <2> HIDE DEF Is
  <2>5. k \in 0..MaxNesting /\ \E h : Is(h, k)
    BY <2>4
  <2> QED
    BY <2>5
<1> HIDE DEF T
<1>3. MaxNesting \in T
  BY <1>1, <1>2, UpTo
<1>4. \E f : Is(f, MaxNesting)
  BY <1>3 DEF T
<1>5. Contents = CHOOSE f : Is(f, MaxNesting)
  BY DEF Contents, PartsBy, Tree, Trees
<1> HIDE DEF Is
<1>6. Is(Contents, MaxNesting)
  BY <1>4, <1>5
<1> QED
  BY <1>6 DEF Is, Tree, Trees

LEMMA PartsAre ==
  ASSUME NEW v \in Tree
  PROVE  Parts(v) = {v} \cup UNION {Parts(v.xs[i]) : i \in DOMAIN v.xs}
<1>1. Contents[v] = PartsBy(Contents, v)
  BY ContentsAre
<1> QED
  BY <1>1 DEF PartsBy, Parts

AllWellMade(v) == \A part \in Parts(v) : WellMade(part)

LEMMA AllWellMadeIs ==
  ASSUME NEW v \in Tree
  PROVE  AllWellMade(v) <=> WellMade(v) /\ \A i \in DOMAIN v.xs : AllWellMade(v.xs[i])
<1>1. \A part : part \in Parts(v) <=> part = v \/ \E i \in DOMAIN v.xs : part \in Parts(v.xs[i])
  BY PartsAre
<1> QED
  BY <1>1 DEF AllWellMade

LEMMA Leaf ==
  ASSUME NEW kind \in DOMAIN Kind, NEW num \in Int, Tree # {}
  PROVE  Value(kind, num, <<>>) \in Tree
<1> DEFINE N == MaxNesting
<1>1. N \in Nat /\ N # 0
  BY NestingAssumption, LevelZero DEF Tree, Trees
<1>2. Tree = [kind: DOMAIN Kind, num: Int, xs: Seq(Levels(DOMAIN Kind)[N - 1])]
  <2>1. N \in 1..MaxNesting
    BY <1>1
  <2> HIDE DEF N
  <2>2. Levels(DOMAIN Kind)[N] = [kind: DOMAIN Kind, num: Int, xs: Seq(Levels(DOMAIN Kind)[N - 1])]
    BY <2>1, LevelNext
  <2> QED
    BY <2>2 DEF Tree, Trees, N
<1> QED
  BY <1>2 DEF Value

LEMMA AtomIsValue ==
  ASSUME NEW kind \in {"int", "string", "model"}, NEW num \in Int, Tree # {}
  PROVE  IsValue(Value(kind, num, <<>>))
<1> DEFINE v == Value(kind, num, <<>>)
<1>1. v \in Tree
  BY Leaf DEF Kind
<1>2. v.kind = kind /\ v.xs = <<>> /\ DOMAIN v.xs = {}
  BY DEF Value
<1>3. WellMade(v)
  BY <1>2 DEF WellMade
<1> HIDE DEF v
<1>4. AllWellMade(v)
  BY <1>1, <1>2, <1>3, AllWellMadeIs
<1> QED
  BY <1>1, <1>2, <1>4 DEF IsValue, AllWellMade, v

LEMMA ValueIs ==
  ASSUME NEW v
  PROVE  IsValue(v) <=> v \in Tree /\ v.kind # "entry" /\ AllWellMade(v)
BY DEF IsValue, AllWellMade
LEMMA MadeIsValue ==
  ASSUME NEW v \in Tree, v.kind # "entry", WellMade(v),
         \A i \in DOMAIN v.xs : IsValue(v.xs[i])
  PROVE  IsValue(v)
<1>1. \A i \in DOMAIN v.xs : AllWellMade(v.xs[i])
  BY ValueIs
<1>2. AllWellMade(v)
  BY <1>1, AllWellMadeIs
<1> QED
  BY <1>2, ValueIs

LEMMA TupleIsValue ==
  ASSUME NEW elems \in Seq(Tree), \A i \in DOMAIN elems : IsValue(elems[i]),
         NewTuple(elems) \in Tree
  PROVE  IsValue(NewTuple(elems))
<1> DEFINE v == NewTuple(elems)
<1>1. v.kind = "tuple" /\ v.num = 0 /\ v.xs = elems
  BY DEF NewTuple, Value
<1> HIDE DEF v
<1>2. WellMade(v)
  BY <1>1 DEF WellMade, NoEntries, IsValue
<1>3. v \in Tree
  BY DEF v
<1>4. IsValue(v)
  BY <1>1, <1>2, <1>3, MadeIsValue
<1> QED
  BY <1>4 DEF v

LEMMA SetIsValue ==
  ASSUME NEW elems \in Seq(Tree), \A i \in DOMAIN elems : IsValue(elems[i]),
         NewSet(elems) \in Tree
  PROVE  IsValue(NewSet(elems))
<1> DEFINE v == NewSet(elems)
<1>1. /\ v.kind = "set" /\ v.num = 0 /\ Elements(v.xs) = Elements(elems)
      /\ \A i, j \in DOMAIN v.xs : i < j => Compare(v.xs[i], v.xs[j]) < 0
  BY SetIs
<1> HIDE DEF v
<1>2. ASSUME NEW i \in DOMAIN v.xs PROVE IsValue(v.xs[i])
  <2>1. v.xs[i] \in Elements(elems)
    BY <1>1 DEF Elements
  <2> QED
    BY <2>1 DEF Elements
<1>3. WellMade(v)
  BY <1>1, <1>2 DEF WellMade, NoEntries, IsValue
<1>4. v \in Tree
  BY DEF v
<1>5. IsValue(v)
  BY <1>1, <1>2, <1>3, <1>4, MadeIsValue
<1> QED
  BY <1>5 DEF v

\* Fields or maplets of values.
Maplets(es) ==
  /\ DOMAIN es = 1..Len(es) /\ Len(es) \in Nat
  /\ \A i \in DOMAIN es : /\ es[i] = Entry(es[i].xs[1], es[i].xs[2])
                          /\ IsValue(es[i].xs[1]) /\ IsValue(es[i].xs[2])

LEMMA MapletsAreSorted ==
  ASSUME NEW es, Maplets(es)
  PROVE  /\ DOMAIN Sorted(es, Keys(es)) = DOMAIN es
         /\ Elements(Sorted(es, Keys(es))) = Elements(es)
         /\ Ascending(Keys(Sorted(es, Keys(es))))
<1> DEFINE keys == Keys(es)
           t == Sorted(es, keys)
           p == Arrangement(keys)
<1>1. keys = [i \in DOMAIN es |-> es[i].xs[1]]
  BY DEF Keys
<1>2. \A i \in DOMAIN es : keys[i] = es[i].xs[1] /\ keys[i] \in Tree
  BY <1>1 DEF Maplets, IsValue
<1>3. keys \in Seq(Tree) /\ DOMAIN keys = DOMAIN es
  BY <1>1, <1>2 DEF Maplets
<1> HIDE DEF keys, p, t
<1>4. /\ DOMAIN t = DOMAIN keys /\ Elements(t) = Elements(es)
      /\ \A m \in DOMAIN keys : p[m] \in DOMAIN keys /\ t[m] = es[p[m]]
      /\ \A i, j \in DOMAIN keys : i < j => Compare(keys[p[i]], keys[p[j]]) <= 0
  BY <1>3, SortedElements DEF p, t
<1>5. \A m \in DOMAIN t : Keys(t)[m] = keys[p[m]]
  BY <1>2, <1>3, <1>4 DEF Keys
<1>6. DOMAIN Keys(t) = DOMAIN t
  BY DEF Keys
<1>7. Ascending(Keys(t))
  BY <1>4, <1>5, <1>6 DEF Ascending
<1> QED
  BY <1>3, <1>4, <1>7 DEF t, keys

LEMMA MapIsValue ==
  ASSUME NEW kind \in {"record", "func"}, NEW es, Maplets(es),
         kind = "record" => \A i \in DOMAIN es : es[i].xs[1].kind = "string",
         Value(kind, 0, Sorted(es, Keys(es))) \in Tree
  PROVE  IsValue(Value(kind, 0, Sorted(es, Keys(es))))
<1> DEFINE t == Sorted(es, Keys(es))
           v == Value(kind, 0, t)
<1>1. DOMAIN t = DOMAIN es /\ Elements(t) = Elements(es) /\ Ascending(Keys(t))
  BY MapletsAreSorted
<1>2. v.kind = kind /\ v.num = 0 /\ v.xs = t
  BY DEF Value
<1>3. v \in Tree
  OBVIOUS
<1> HIDE DEF t, v
<1>4. \A i \in DOMAIN t : t[i] \in Tree
  BY <1>2, <1>3, TreeIs
<1>5. ASSUME NEW i \in DOMAIN t
      PROVE  AllWellMade(t[i]) /\ t[i].kind = "entry" /\ (kind = "record" => t[i].xs[1].kind = "string")
  <2>1. t[i] \in Elements(es)
    BY <1>1 DEF Elements
  <2>2. PICK j \in DOMAIN es : t[i] = es[j]
    BY <2>1 DEF Elements
  <2> DEFINE k == es[j].xs[1]
             w == es[j].xs[2]
  <2>3. es[j] = Entry(k, w) /\ IsValue(k) /\ IsValue(w)
    BY DEF Maplets
  <2>4. kind = "record" => k.kind = "string"
    OBVIOUS
  <2> HIDE DEF k, w
  <2>5. t[i].kind = "entry" /\ t[i].num = 0 /\ t[i].xs = <<k, w>>
    BY <2>2, <2>3 DEF Entry, Value
  <2>6. \A m \in DOMAIN t[i].xs : IsValue(t[i].xs[m])
    BY <2>3, <2>5
  <2>7. WellMade(t[i])
    <3>1. NoEntries(t[i].xs)
      BY <2>6 DEF NoEntries, IsValue
    <3> QED
      BY <2>5, <3>1 DEF WellMade
  <2>8. AllWellMade(t[i])
    BY <1>4, <2>6, <2>7, AllWellMadeIs, ValueIs
  <2> QED
    BY <2>4, <2>5, <2>8
<1>6. WellMade(v)
  BY <1>1, <1>2, <1>5 DEF WellMade
<1>7. AllWellMade(v)
  BY <1>2, <1>3, <1>5, <1>6, AllWellMadeIs
<1>8. IsValue(v)
  BY <1>2, <1>3, <1>7, ValueIs
<1> QED
  BY <1>8 DEF v, t
LEMMA EntryIs ==
  ASSUME NEW k, NEW v
  PROVE  /\ Entry(k, v).kind = "entry" /\ Entry(k, v).num = 0 /\ Entry(k, v).xs = <<k, v>>
         /\ Entry(k, v).xs[1] = k /\ Entry(k, v).xs[2] = v
BY DEF Entry, Value

LEMMA ThreeMaplets ==
  ASSUME NEW a, NEW b, NEW c, NEW d, NEW e, NEW f,
         IsValue(a), IsValue(b), IsValue(c), IsValue(d), IsValue(e), IsValue(f)
  PROVE  /\ Maplets(<<Entry(a, b)>>) /\ Maplets(<<Entry(a, b), Entry(c, d)>>)
         /\ Maplets(<<Entry(a, b), Entry(c, d), Entry(e, f)>>)
<1>1. ASSUME NEW es, DOMAIN es = 1..Len(es), Len(es) \in Nat,
             \A i \in DOMAIN es : es[i] \in {Entry(a, b), Entry(c, d), Entry(e, f)}
      PROVE  Maplets(es)
  <2>1. ASSUME NEW i \in DOMAIN es
        PROVE  /\ es[i] = Entry(es[i].xs[1], es[i].xs[2])
               /\ IsValue(es[i].xs[1]) /\ IsValue(es[i].xs[2])
    <3>1. CASE es[i] = Entry(a, b)
      BY <3>1, EntryIs
    <3>2. CASE es[i] = Entry(c, d)
      BY <3>2, EntryIs
    <3>3. CASE es[i] = Entry(e, f)
      BY <3>3, EntryIs
    <3> QED
      BY <1>1, <3>1, <3>2, <3>3
  <2> QED
    BY <1>1, <2>1 DEF Maplets
<1> DEFINE r == Entry(a, b)
           s == Entry(c, d)
           t == Entry(e, f)
<1>2. ASSUME NEW es \in {<<r>>, <<r, s>>, <<r, s, t>>}
      PROVE  DOMAIN es = 1..Len(es) /\ Len(es) \in Nat /\ \A i \in DOMAIN es : es[i] \in {r, s, t}
  <2> HIDE DEF r, s, t
  <2> QED
    OBVIOUS
<1> QED
  BY <1>1, <1>2

\* A record of strings, a function.
LEMMA FieldsAreValue ==
  ASSUME NEW es, Maplets(es), \A i \in DOMAIN es : es[i].xs[1] \in {A, B},
         FromStruct(es) \in Tree
  PROVE  IsValue(FromStruct(es))
<1>1. A.kind = "string" /\ B.kind = "string"
  BY DEF A, B, NewString, Value
<1>2. \A i \in DOMAIN es : es[i].xs[1].kind = "string"
  BY <1>1
<1>3. FromStruct(es) = Value("record", 0, Sorted(es, Keys(es)))
  BY DEF FromStruct, NewRecord
<1> QED
  BY <1>2, <1>3, MapIsValue

LEMMA MapletsAreValue ==
  ASSUME NEW es, Maplets(es), FromMap(es) \in Tree
  PROVE  IsValue(FromMap(es))
<1>1. FromMap(es) = Value("func", 0, Sorted(es, Keys(es)))
  BY DEF FromMap, NewFunc
<1>2. Value("func", 0, Sorted(es, Keys(es))) \in Tree
  BY <1>1
<1>3. IsValue(Value("func", 0, Sorted(es, Keys(es))))
  BY <1>2, MapIsValue
<1> QED
  BY <1>1, <1>3

LEMMA OneOrTwo ==
  ASSUME NEW S, NEW a \in S, NEW b \in S PROVE <<a>> \in Seq(S) /\ <<a, b>> \in Seq(S)
OBVIOUS

LEMMA AroundIsValue ==
  ASSUME NEW v, NEW p, IsValue(v), IsValue(p), NEW w \in Around(v, p) \cap Tree
  PROVE  IsValue(w)
<1>1. v \in Tree /\ p \in Tree /\ w \in Tree
  BY DEF IsValue
<1>2. IsValue(A) /\ IsValue(B) /\ IsValue(NewInt(1))
  BY <1>1, AtomIsValue DEF A, B, NewInt, NewString
<1>2a. <<v>> \in Seq(Tree) /\ <<v, p>> \in Seq(Tree)
  BY <1>1, OneOrTwo, Zenon
<1>3. CASE w \in {NewSet(<<v>>), NewSet(<<v, p>>)}
  <2>1. PICK elems \in {<<v>>, <<v, p>>} : w = NewSet(elems)
    BY <1>3
  <2>2. elems \in Seq(Tree)
    BY <1>2a
  <2>3. \A i \in DOMAIN elems : IsValue(elems[i])
    OBVIOUS
  <2> QED
    BY <1>1, <2>1, <2>2, <2>3, SetIsValue
<1>4. CASE w \in {NewTuple(<<v>>), NewTuple(<<v, p>>)}
  <2>1. PICK elems \in {<<v>>, <<v, p>>} : w = NewTuple(elems)
    BY <1>4
  <2>2. elems \in Seq(Tree)
    BY <1>2a
  <2>3. \A i \in DOMAIN elems : IsValue(elems[i])
    OBVIOUS
  <2> QED
    BY <1>1, <2>1, <2>2, <2>3, TupleIsValue
<1>5. CASE w \in {FromStruct(<<Entry(A, v)>>), FromStruct(<<Entry(B, v), Entry(A, p)>>),
                  FromStruct(<<Entry(A, v), Entry(A, p)>>)}
  <2>1. PICK es \in {<<Entry(A, v)>>, <<Entry(B, v), Entry(A, p)>>, <<Entry(A, v), Entry(A, p)>>} :
          w = FromStruct(es)
    BY <1>5
  <2>2. Maplets(es)
    BY <1>2, ThreeMaplets
  <2>3. \A i \in DOMAIN es : es[i].xs[1] \in {A, B}
    <3> DEFINE r == Entry(A, v)
               s == Entry(B, v)
               t == Entry(A, p)
    <3>1. r.xs[1] = A /\ s.xs[1] = B /\ t.xs[1] = A
      BY EntryIs
    <3>2. es \in {<<r>>, <<s, t>>, <<r, t>>}
      OBVIOUS
    <3> HIDE DEF r, s, t
    <3> QED
      BY <3>1, <3>2
  <2> QED
    BY <1>1, <2>1, <2>2, <2>3, FieldsAreValue
<1>6. CASE w \in {FromMap(<<Entry(v, p)>>), FromMap(<<Entry(p, v)>>), FromMap(<<Entry(NewInt(1), v)>>),
                  FromMap(<<Entry(p, v), Entry(v, p)>>),
                  FromMap(<<Entry(v, p), Entry(p, p), Entry(A, v)>>)}
  <2>1. PICK es \in {<<Entry(v, p)>>, <<Entry(p, v)>>, <<Entry(NewInt(1), v)>>,
                     <<Entry(p, v), Entry(v, p)>>, <<Entry(v, p), Entry(p, p), Entry(A, v)>>} :
          w = FromMap(es)
    BY <1>6
  <2>2. Maplets(es)
    BY <1>2, ThreeMaplets
  <2> QED
    BY <1>1, <2>1, <2>2, MapletsAreValue
<1> QED
  BY <1>3, <1>4, <1>5, <1>6 DEF Around

-----------------------------------------------------------------------------
IInv == IsValue(x) /\ IsValue(y)

LEMMA InitInv == Init => IInv
BY ConstructionAssumption DEF Init, IInv

LEMMA NextInv == IInv /\ [Next]_vars => IInv'
<1> SUFFICES ASSUME IInv, [Next]_vars PROVE IInv'
  OBVIOUS
<1>1. \A p \in Partners : IsValue(p)
  BY ConstructionAssumption
<1>2. CASE GrowX
  <2>1. PICK p \in Partners : x' \in Around(x, p) \cap Tree
    BY <1>2 DEF GrowX
  <2>2. IsValue(x')
    BY <1>1, <2>1, AroundIsValue DEF IInv
  <2> QED
    BY <1>2, <2>2 DEF GrowX, IInv
<1>3. CASE GrowY
  <2>1. PICK p \in Partners : y' \in Around(y, p) \cap Tree
    BY <1>3 DEF GrowY
  <2>2. IsValue(y')
    BY <1>1, <2>1, AroundIsValue DEF IInv
  <2> QED
    BY <1>3, <2>2 DEF GrowY, IInv
<1>4. CASE UNCHANGED vars
  BY <1>4 DEF vars, IInv
<1> QED
  BY <1>2, <1>3, <1>4 DEF Next

LEMMA SpecInv == Spec => []IInv
BY InitInv, NextInv, PTL DEF Spec
-----------------------------------------------------------------------------
(***************************************************************************)
(* What a value stands for, kind by kind.                                  *)
(***************************************************************************)
LEMMA DenotedLocal ==
  ASSUME NEW f, NEW g, NEW v, AgreeOn(f, g, v)
  PROVE  DenotedBy(f, v) = DenotedBy(g, v)
<1> DEFINE ms(h) == [i \in DOMAIN v.xs |-> h[v.xs[i]]]
<1>1. ms(f) = ms(g)
  BY DEF AgreeOn
<1> DEFINE By(m) ==
      CASE v.kind \in {"bool", "int", "string", "model"} -> Denoted(v.kind, v.num, {})
        [] v.kind = "interval" ->
             Denoted("set", 0, {Denoted("int", n, {}) : n \in v.xs[1].num .. v.xs[2].num})
        [] v.kind = "set" -> Denoted("set", 0, {m[i] : i \in DOMAIN m})
        [] v.kind = "tuple" ->
             Denoted("function", 0, {Maplet(Denoted("int", i, {}), m[i]) : i \in DOMAIN m})
        [] v.kind = "entry" -> Maplet(m[1], m[2])
        [] v.kind \in {"record", "func"} -> Denoted("function", 0, {m[i] : i \in Counting(m)})
<1>2. \A h : DenotedBy(h, v) = By(ms(h))
  BY DEF DenotedBy
<1> HIDE DEF ms, By
<1> QED
  BY <1>1, <1>2

LEMMA DenotationIs == Denotation = [v \in Tree |-> DenotedBy(Denotation, v)]
<1> USE NestingAssumption
<1> DEFINE L(k) == Levels(DOMAIN Kind)[k]
           Is(f, k) == f = [v \in L(k) |-> DenotedBy(f, v)]
           T == {k \in 0..MaxNesting : \E f : Is(f, k)}
<1>1. 0 \in T
  <2>1. L(0) = {}
    BY LevelZero
  <2> HIDE DEF L
  <2>2. Is([v \in {} |-> 0], 0)
    BY <2>1
  <2> HIDE DEF Is
  <2>3. \E f : Is(f, 0)
    BY <2>2
  <2> QED
    BY <2>3
<1>2. ASSUME NEW k \in 1..MaxNesting, k - 1 \in T PROVE k \in T
  <2>1. PICK f : Is(f, k - 1)
    BY <1>2
  <2> DEFINE g == [v \in L(k) |-> DenotedBy(f, v)]
  <2>2. ASSUME NEW a \in L(k) PROVE DenotedBy(f, a) = DenotedBy(g, a)
    <3>1. k \in 0..MaxNesting /\ L(k - 1) \subseteq L(k)
      BY LevelsGrow
    <3>2. \A i \in DOMAIN a.xs : a.xs[i] \in L(k - 1)
      BY <3>1, TreeLevel
    <3> HIDE DEF L
    <3>3. ASSUME NEW v \in L(k - 1) PROVE f[v] = g[v]
      <4>1. f[v] = DenotedBy(f, v)
        BY <2>1
      <4> QED
        BY <3>1, <4>1
    <3> HIDE DEF g
    <3>4. AgreeOn(f, g, a)
      BY <3>2, <3>3 DEF AgreeOn
    <3> QED
      BY <3>4, DenotedLocal
  <2> HIDE DEF L
  <2>3. g = [v \in L(k) |-> DenotedBy(g, v)]
    <3>1. g = [v \in L(k) |-> DenotedBy(f, v)]
      OBVIOUS
    <3> HIDE DEF g
    <3> QED
      BY <2>2, <3>1
  <2> HIDE DEF g
  <2>4. Is(g, k)
    BY <2>3
  <2> HIDE DEF Is
  <2>5. k \in 0..MaxNesting /\ \E h : Is(h, k)
    BY <2>4
  <2> QED
    BY <2>5
<1> HIDE DEF T
<1>3. MaxNesting \in T
  BY <1>1, <1>2, UpTo
<1>4. \E f : Is(f, MaxNesting)
  BY <1>3 DEF T
<1>5. Denotation = CHOOSE f : Is(f, MaxNesting)
  BY DEF Denotation, Tree, Trees
<1> HIDE DEF Is
<1>6. Is(Denotation, MaxNesting)
  BY <1>4, <1>5
<1> QED
  BY <1>6 DEF Is, Tree, Trees

Meanings(v) == [i \in DOMAIN v.xs |-> Meaning(v.xs[i])]

LEMMA MeaningIs ==
  ASSUME NEW v \in Tree
  PROVE  /\ v.kind \in {"bool", "int", "string", "model"} => Meaning(v) = Denoted(v.kind, v.num, {})
         /\ v.kind = "interval" =>
              Meaning(v) = Denoted("set", 0, {Denoted("int", n, {}) : n \in v.xs[1].num .. v.xs[2].num})
         /\ v.kind = "set" => Meaning(v) = Denoted("set", 0, {Meaning(v.xs[i]) : i \in DOMAIN v.xs})
         /\ v.kind = "tuple" =>
              Meaning(v) = Denoted("function", 0, {Maplet(Denoted("int", i, {}), Meaning(v.xs[i])) :
                                                   i \in DOMAIN v.xs})
         /\ v.kind = "entry" => Meaning(v) = Maplet(Meanings(v)[1], Meanings(v)[2])
         /\ v.kind \in {"record", "func"} =>
              Meaning(v) = Denoted("function", 0, {Meanings(v)[i] : i \in Counting(Meanings(v))})
<1>1. Meaning(v) = DenotedBy(Denotation, v)
  BY DenotationIs DEF Meaning
<1>2. [i \in DOMAIN v.xs |-> Denotation[v.xs[i]]] = Meanings(v)
  BY DEF Meanings, Meaning
<1>3. DOMAIN Meanings(v) = DOMAIN v.xs /\ \A i \in DOMAIN v.xs : Meanings(v)[i] = Meaning(v.xs[i])
  BY DEF Meanings
<1> DEFINE ms == Meanings(v)
<1>4. Meaning(v) =
        CASE v.kind \in {"bool", "int", "string", "model"} -> Denoted(v.kind, v.num, {})
          [] v.kind = "interval" ->
               Denoted("set", 0, {Denoted("int", n, {}) : n \in v.xs[1].num .. v.xs[2].num})
          [] v.kind = "set" -> Denoted("set", 0, {ms[i] : i \in DOMAIN ms})
          [] v.kind = "tuple" ->
               Denoted("function", 0, {Maplet(Denoted("int", i, {}), ms[i]) : i \in DOMAIN ms})
          [] v.kind = "entry" -> Maplet(ms[1], ms[2])
          [] v.kind \in {"record", "func"} ->
               Denoted("function", 0, {ms[i] : i \in Counting(ms)})
  BY <1>1, <1>2, Zenon DEF DenotedBy
<1>5. {ms[i] : i \in DOMAIN ms} = {Meaning(v.xs[i]) : i \in DOMAIN v.xs}
  BY <1>3
<1>6. {Maplet(Denoted("int", i, {}), ms[i]) : i \in DOMAIN ms}
        = {Maplet(Denoted("int", i, {}), Meaning(v.xs[i])) : i \in DOMAIN v.xs}
  BY <1>3
<1> HIDE DEF ms
<1> DEFINE elements == {ms[i] : i \in DOMAIN ms}
           ints == {Denoted("int", n, {}) : n \in v.xs[1].num .. v.xs[2].num}
           maplets == {Maplet(Denoted("int", i, {}), ms[i]) : i \in DOMAIN ms}
           counting == {ms[i] : i \in Counting(ms)}
<1>7. Meaning(v) =
        CASE v.kind \in {"bool", "int", "string", "model"} -> Denoted(v.kind, v.num, {})
          [] v.kind = "interval" -> Denoted("set", 0, ints)
          [] v.kind = "set" -> Denoted("set", 0, elements)
          [] v.kind = "tuple" -> Denoted("function", 0, maplets)
          [] v.kind = "entry" -> Maplet(ms[1], ms[2])
          [] v.kind \in {"record", "func"} -> Denoted("function", 0, counting)
  BY <1>4
<1> HIDE DEF elements, ints, maplets, counting
<1>8. /\ v.kind \in {"bool", "int", "string", "model"} => Meaning(v) = Denoted(v.kind, v.num, {})
      /\ v.kind = "interval" => Meaning(v) = Denoted("set", 0, ints)
      /\ v.kind = "set" => Meaning(v) = Denoted("set", 0, elements)
      /\ v.kind = "tuple" => Meaning(v) = Denoted("function", 0, maplets)
      /\ v.kind = "entry" => Meaning(v) = Maplet(ms[1], ms[2])
      /\ v.kind \in {"record", "func"} => Meaning(v) = Denoted("function", 0, counting)
  BY <1>7
<1> QED
  BY <1>5, <1>6, <1>8, Zenon DEF elements, ints, maplets, counting, ms

LEMMA DenotedIs ==
  ASSUME NEW t, NEW n, NEW e, NEW u, NEW m, NEW d, Denoted(t, n, e) = Denoted(u, m, d)
  PROVE  t = u /\ n = m /\ e = d
<1>1. /\ Denoted(t, n, e).tag = t /\ Denoted(t, n, e).num = n /\ Denoted(t, n, e).els = e
      /\ Denoted(u, m, d).tag = u /\ Denoted(u, m, d).num = m /\ Denoted(u, m, d).els = d
  BY DEF Denoted
<1> QED
  BY <1>1, Zenon

LEMMA MapletIs ==
  ASSUME NEW a, NEW b, NEW c, NEW d
  PROVE  /\ Maplet(a, b) = Maplet(c, d) => a = c /\ b = d
         /\ From(Maplet(a, b)) = From(Maplet(c, d)) <=> a = c
<1> DEFINE f == Denoted("from", 0, {a})
           t == Denoted("to", 0, {b})
           g == Denoted("from", 0, {c})
           u == Denoted("to", 0, {d})
<1>1. /\ f.tag = "from" /\ t.tag = "to" /\ g.tag = "from" /\ u.tag = "to"
      /\ f.els = {a} /\ t.els = {b} /\ g.els = {c} /\ u.els = {d}
  BY DEF Denoted
<1>2. /\ Maplet(a, b) = Denoted("maplet", 0, {f, t}) /\ Maplet(a, b).els = {f, t}
      /\ Maplet(c, d) = Denoted("maplet", 0, {g, u}) /\ Maplet(c, d).els = {g, u}
  BY DEF Maplet, Denoted
<1>3. a = c => f = g
  OBVIOUS
<1> HIDE DEF f, t, g, u
<1>4. From(Maplet(a, b)) = {f} /\ From(Maplet(c, d)) = {g}
  <2>1. {e \in {f, t} : e.tag = "from"} = {f}
    BY <1>1
  <2>2. {e \in {g, u} : e.tag = "from"} = {g}
    BY <1>1
  <2> QED
    BY <1>2, <2>1, <2>2 DEF From
<1>5. f = g => a = c
  BY <1>1
<1>6. ASSUME Maplet(a, b) = Maplet(c, d) PROVE a = c /\ b = d
  <2>1. {f, t} = {g, u}
    BY <1>2, <1>6
  <2>2. f = g /\ t = u
    BY <1>1, <2>1
  <2> QED
    BY <1>1, <2>2
<1> QED
  BY <1>3, <1>4, <1>5, <1>6
-----------------------------------------------------------------------------
(***************************************************************************)
(* A set of trees has one arrangement in strictly ascending order.         *)
(***************************************************************************)
Strictly(s) == \A i, j \in DOMAIN s : i < j => Compare(s[i], s[j]) < 0

Below(S) == {pair \in S \X S : Compare(pair[1], pair[2]) < 0}

LEMMA BelowIs == ASSUME NEW S, NEW a \in S, NEW b \in S
                 PROVE  <<a, b>> \in Below(S) <=> Compare(a, b) < 0
<1>1. <<a, b>> \in S \X S /\ <<a, b>>[1] = a /\ <<a, b>>[2] = b
  OBVIOUS
<1> QED
  BY <1>1, Zenon DEF Below

LEMMA BelowIsStrict == ASSUME NEW S \in SUBSET Tree PROVE StrictOrder(Below(S), S)
<1>1. ASSUME NEW a \in S PROVE <<a, a>> \notin Below(S)
  <2>1. Compare(a, a) = 0
    BY CompareOpposite DEF Opposite
  <2> QED
    BY <2>1, BelowIs
<1>2. ASSUME NEW a \in S, NEW b \in S, NEW c \in S, <<a, b>> \in Below(S), <<b, c>> \in Below(S)
      PROVE  <<a, c>> \in Below(S)
  BY <1>2, BelowIs, CompareThrough DEF Through
<1>3. ASSUME NEW a \in S, NEW b \in S PROVE a = b \/ <<a, b>> \in Below(S) \/ <<b, a>> \in Below(S)
  BY BelowIs, CompareOpposite DEF Opposite
<1> QED
  BY <1>1, <1>2, <1>3 DEF StrictOrder

LEMMA StrictlyDiffer ==
  ASSUME NEW s \in Seq(Tree), Strictly(s), NEW i \in DOMAIN s, NEW j \in DOMAIN s, s[i] = s[j]
  PROVE  i = j
<1>1. i \in Int /\ j \in Int /\ s[i] \in Tree
  OBVIOUS
<1>2. Compare(s[i], s[i]) = 0
  BY <1>1, CompareOpposite DEF Opposite
<1>3. ~(i < j) /\ ~(j < i)
  BY <1>2 DEF Strictly
<1> QED
  BY <1>1, <1>3

LEMMA StrictlyRanked ==
  ASSUME NEW s \in Seq(Tree), Strictly(s)
  PROVE  /\ IsFiniteSet(Elements(s)) /\ Cardinality(Elements(s)) = Len(s)
         /\ \A m \in DOMAIN s :
              Cardinality(Before(Below(Elements(s)), Elements(s), s[m])) = m - 1
<1> DEFINE S == Elements(s)
           n == Len(s)
<1>1. n \in Nat /\ DOMAIN s = 1..n /\ s = [i \in 1..n |-> s[i]]
  OBVIOUS
<1>2. (\A i \in 1..n : s[i] \in S /\ s[i] \in Tree) /\ \A v \in S : \E i \in 1..n : s[i] = v
  BY <1>1 DEF Elements
<1>3. \A i, j \in 1..n : s[i] = s[j] => i = j
  BY <1>1, StrictlyDiffer
<1> HIDE DEF S, n
<1>4. IsFiniteSet(S) /\ Cardinality(S) = n
  <2>1. s \in [1..n -> S]
    BY <1>1, <1>2
  <2> QED
    BY <1>1, <1>2, <1>3, <2>1, CountEnumerated
<1>5. ASSUME NEW m \in 1..n PROVE Cardinality(Before(Below(S), S, s[m])) = m - 1
  <2> DEFINE P == Before(Below(S), S, s[m])
             f == [i \in 1..(m - 1) |-> s[i]]
  <2>1. m - 1 \in Nat /\ (\A i \in 1..(m - 1) : i \in 1..n /\ i < m)
    BY <1>1
  <2>2. \A i \in 1..n : s[i] \in P <=> i < m
    <3> SUFFICES ASSUME NEW i \in 1..n PROVE s[i] \in P <=> i < m
      OBVIOUS
    <3>1. s[i] \in P <=> Compare(s[i], s[m]) < 0
      BY <1>2, BelowIs DEF Before
    <3>2. i < m => Compare(s[i], s[m]) < 0
      BY <1>1 DEF Strictly
    <3>3. m < i => Compare(s[m], s[i]) < 0
      BY <1>1 DEF Strictly
    <3>4. Opposite(s[i], s[m])
      BY <1>2, CompareOpposite
    <3>5. i = m => Compare(s[i], s[m]) = 0
      BY <3>4 DEF Opposite
    <3>6. i \in Int /\ m \in Int
      BY <1>1
    <3> HIDE DEF P
    <3> QED
      BY <3>1, <3>2, <3>3, <3>4, <3>5, <3>6 DEF Opposite
  <2>3. P \subseteq S
    BY DEF Before
  <2> HIDE DEF P
  <2>4. f \in [1..(m - 1) -> P]
    BY <2>1, <2>2
  <2>5. \A i, j \in 1..(m - 1) : f[i] = f[j] => i = j
    BY <1>3, <2>1
  <2>6. ASSUME NEW v \in P PROVE \E i \in 1..(m - 1) : f[i] = v
    <3>1. PICK i \in 1..n : s[i] = v
      BY <1>2, <2>3
    <3>2. i \in 1..(m - 1)
      BY <1>1, <2>2, <3>1
    <3> QED
      BY <3>1, <3>2
  <2> HIDE DEF f
  <2>7. Cardinality(P) = m - 1
    BY <2>1, <2>4, <2>5, <2>6, CountEnumerated
  <2> QED
    BY <2>7 DEF P
<1> QED
  BY <1>1, <1>4, <1>5 DEF S, n

LEMMA OneAscent ==
  ASSUME NEW s \in Seq(Tree), NEW t \in Seq(Tree), Strictly(s), Strictly(t),
         Elements(s) = Elements(t)
  PROVE  s = t
<1> DEFINE S == Elements(s)
           R == Below(S)
<1>1. /\ IsFiniteSet(S) /\ Len(s) = Len(t) /\ StrictOrder(R, S)
      /\ \A m \in DOMAIN s : Cardinality(Before(R, S, s[m])) = m - 1
      /\ \A m \in DOMAIN t : Cardinality(Before(R, S, t[m])) = m - 1
  <2>1. S \in SUBSET Tree
    BY DEF Elements
  <2>2. StrictOrder(R, S)
    BY <2>1, BelowIsStrict
  <2> QED
    BY <2>2, StrictlyRanked
<1>2. DOMAIN s = 1..Len(s) /\ DOMAIN t = DOMAIN s
  BY <1>1
<1>3. \A m \in DOMAIN s : s[m] \in S /\ t[m] \in S
  BY <1>2 DEF Elements
<1> HIDE DEF S, R
<1>4. ASSUME NEW m \in DOMAIN s PROVE s[m] = t[m]
  <2> DEFINE a == s[m]
             b == t[m]
  <2>1. a \in S /\ b \in S /\ Cardinality(Before(R, S, a)) = Cardinality(Before(R, S, b))
    BY <1>1, <1>2, <1>3
  <2> HIDE DEF a, b
  <2>2. a = b
    BY <1>1, <2>1, RanksDiffer
  <2> QED
    BY <2>2 DEF a, b
<1> QED
  BY <1>1, <1>2, <1>4
-----------------------------------------------------------------------------
(***************************************************************************)
(* Values without loose parts have one form for what they stand for.       *)
(***************************************************************************)
AllFirm(v) == \A part \in Parts(v) : ~Loose(part)

LEMMA AllFirmIs ==
  ASSUME NEW v \in Tree
  PROVE  AllFirm(v) <=> ~Loose(v) /\ \A i \in DOMAIN v.xs : AllFirm(v.xs[i])
<1>1. \A part : part \in Parts(v) <=> part = v \/ \E i \in DOMAIN v.xs : part \in Parts(v.xs[i])
  BY PartsAre
<1> QED
  BY <1>1 DEF AllFirm

FirmValue(v) == IsValue(v) /\ AllFirm(v)

LEMMA FirmIs ==
  ASSUME NEW v, FirmValue(v)
  PROVE  /\ v \in Tree /\ v.kind # "entry" /\ v.kind # "interval" /\ WellMade(v) /\ ~Loose(v)
         /\ v.kind \in {"bool", "int", "string", "model", "set", "tuple", "record", "func"}
         /\ \A i \in DOMAIN v.xs : /\ v.xs[i] \in Tree /\ WellMade(v.xs[i])
                                   /\ AllWellMade(v.xs[i]) /\ AllFirm(v.xs[i])
         /\ \A i \in DOMAIN v.xs : v.xs[i].kind # "entry" => FirmValue(v.xs[i])
<1>1. v \in Tree /\ v.kind # "entry" /\ AllWellMade(v) /\ AllFirm(v)
  BY ValueIs DEF FirmValue
<1>2. WellMade(v) /\ ~Loose(v) /\ \A i \in DOMAIN v.xs : AllWellMade(v.xs[i]) /\ AllFirm(v.xs[i])
  BY <1>1, AllWellMadeIs, AllFirmIs
<1>3. v.kind # "interval" /\ v.kind \in DOMAIN Kind /\ \A i \in DOMAIN v.xs : v.xs[i] \in Tree
  BY <1>1, <1>2, TreeIs DEF Loose
<1>4. v.kind \in {"bool", "int", "string", "model", "set", "tuple", "record", "func"}
  BY <1>1, <1>3 DEF Kind
<1>5. \A i \in DOMAIN v.xs : WellMade(v.xs[i])
  BY <1>2, <1>3, AllWellMadeIs
<1>6. \A i \in DOMAIN v.xs : v.xs[i].kind # "entry" => FirmValue(v.xs[i])
  BY <1>2, <1>3, ValueIs DEF FirmValue
<1> QED
  BY <1>1, <1>2, <1>3, <1>4, <1>5, <1>6

LEMMA FirmElements ==
  ASSUME NEW v, FirmValue(v), v.kind \in {"set", "tuple"}
  PROVE  /\ v.num = 0 /\ (\A i \in DOMAIN v.xs : FirmValue(v.xs[i]))
         /\ v.kind = "set" => Strictly(v.xs)
<1>1. v.num = 0 /\ NoEntries(v.xs) /\ (v.kind = "set" => Strictly(v.xs))
  BY FirmIs DEF WellMade, Strictly
<1> QED
  BY <1>1, FirmIs DEF NoEntries

Key(v, i)  == v.xs[i].xs[1]
Val(v, i)  == v.xs[i].xs[2]

LEMMA FirmEntries ==
  ASSUME NEW v, FirmValue(v), v.kind \in {"record", "func"}
  PROVE  /\ v.num = 0 /\ Keys(v.xs) \in Seq(Tree) /\ DOMAIN Keys(v.xs) = DOMAIN v.xs
         /\ Strictly(Keys(v.xs)) /\ ~HasTwice(v)
         /\ \A i \in DOMAIN v.xs :
              /\ v.xs[i] = Entry(Key(v, i), Val(v, i)) /\ v.xs[i].kind = "entry"
              /\ 1 \in DOMAIN v.xs[i].xs /\ 2 \in DOMAIN v.xs[i].xs
              /\ FirmValue(Key(v, i)) /\ FirmValue(Val(v, i)) /\ Keys(v.xs)[i] = Key(v, i)
         /\ v.kind = "record" => /\ v.xs # <<>>
                                 /\ \A i \in DOMAIN v.xs : Key(v, i).kind = "string"
         /\ v.kind = "func" => /\ \E i \in DOMAIN v.xs : Key(v, i) # NewInt(i)
                               /\ \E i \in DOMAIN v.xs : Key(v, i).kind # "string"
<1> DEFINE keys == Keys(v.xs)
<1>1. /\ v \in Tree /\ WellMade(v) /\ ~Loose(v)
      /\ \A i \in DOMAIN v.xs : /\ v.xs[i] \in Tree /\ WellMade(v.xs[i])
                                /\ AllWellMade(v.xs[i]) /\ AllFirm(v.xs[i])
  BY FirmIs
<1>2. /\ \A i \in DOMAIN v.xs : v.xs[i].kind = "entry"
      /\ Ascending(keys) /\ v.num = 0
      /\ v.kind = "record" => \A i \in DOMAIN v.xs : Key(v, i).kind = "string"
  BY <1>1 DEF WellMade, Key
<1>3. /\ ~HasTwice(v)
      /\ v.kind = "record" => v.xs # <<>>
      /\ v.kind = "func" => /\ \E i \in DOMAIN v.xs : Key(v, i) # NewInt(i)
                            /\ \E i \in DOMAIN v.xs : Key(v, i).kind # "string"
  BY <1>1 DEF Loose, Key
<1>4. ASSUME NEW i \in DOMAIN v.xs
      PROVE  /\ v.xs[i] = Entry(Key(v, i), Val(v, i))
             /\ 1 \in DOMAIN v.xs[i].xs /\ 2 \in DOMAIN v.xs[i].xs
             /\ FirmValue(Key(v, i)) /\ FirmValue(Val(v, i)) /\ keys[i] = Key(v, i)
  <2> DEFINE e == v.xs[i]
  <2>1. e \in Tree /\ WellMade(e) /\ AllWellMade(e) /\ AllFirm(e) /\ e.kind = "entry"
    BY <1>1, <1>2
  <2>2. keys[i] = Key(v, i)
    BY DEF Keys, Key
  <2> HIDE DEF e
  <2>3. NoEntries(e.xs) /\ Len(e.xs) = 2 /\ e.num = 0
    BY <2>1 DEF WellMade
  <2>4. /\ e = Value(e.kind, e.num, e.xs) /\ e.xs \in Seq(Tree) /\ DOMAIN e.xs = 1..2
        /\ \A m \in DOMAIN e.xs : e.xs[m] \in Tree
    BY <2>1, <2>3, TreeIs
  <2>5. e.xs = <<e.xs[1], e.xs[2]>>
    BY <2>3, <2>4
  <2>6. \A m \in DOMAIN e.xs : AllWellMade(e.xs[m]) /\ AllFirm(e.xs[m]) /\ e.xs[m].kind # "entry"
    BY <2>1, <2>3, AllWellMadeIs, AllFirmIs DEF NoEntries
  <2>7. \A m \in DOMAIN e.xs : FirmValue(e.xs[m])
    BY <2>4, <2>6, ValueIs DEF FirmValue
  <2>8. 1 \in DOMAIN e.xs /\ 2 \in DOMAIN e.xs
    BY <2>4
  <2>9. e = Entry(e.xs[1], e.xs[2])
    BY <2>1, <2>3, <2>4, <2>5 DEF Entry
  <2> QED
    BY <2>2, <2>7, <2>8, <2>9 DEF e, Key, Val
<1>5. keys = [i \in DOMAIN v.xs |-> v.xs[i].xs[1]] /\ DOMAIN v.xs = 1..Len(v.xs) /\ Len(v.xs) \in Nat
  BY <1>1, TreeIs DEF Keys
<1> HIDE DEF keys
<1>6. \A i \in DOMAIN v.xs : keys[i] \in Tree
  BY <1>4, FirmIs
<1>7. keys \in Seq(Tree) /\ DOMAIN keys = DOMAIN v.xs
  BY <1>5, <1>6
<1>8. Strictly(keys)
  <2> SUFFICES ASSUME NEW i \in DOMAIN keys, NEW j \in DOMAIN keys, i < j
               PROVE  Compare(keys[i], keys[j]) < 0
    BY DEF Strictly
  <2>1. Compare(keys[i], keys[j]) <= 0
    BY <1>2 DEF Ascending
  <2>2. i # j
    BY <1>5, <1>7
  <2>3. keys[i] # keys[j]
    <3>1. keys[i] = v.xs[i].xs[1] /\ keys[j] = v.xs[j].xs[1] /\ i \in DOMAIN v.xs /\ j \in DOMAIN v.xs
      BY <1>5, <1>7
    <3> QED
      BY <1>3, <2>2, <3>1 DEF HasTwice
  <2> QED
    BY <1>6, <1>7, <2>1, <2>3, CompareOpposite DEF Opposite
<1> QED
  BY <1>2, <1>3, <1>4, <1>7, <1>8 DEF keys
\* Trees of fewer levels, in which a meaning has one form.
OneForm(S) == \A v, w \in S : FirmValue(v) /\ FirmValue(w) /\ Meaning(v) = Meaning(w) => v = w

Within(v, S) == \A i \in DOMAIN v.xs :
                  v.xs[i] \in S /\ \A j \in DOMAIN v.xs[i].xs : v.xs[i].xs[j] \in S

LEMMA SetMeansOne ==
  ASSUME NEW S, OneForm(S), NEW v, NEW w, Within(v, S), Within(w, S), FirmValue(v), FirmValue(w),
         v.kind = "set", w.kind = "set", Meaning(v) = Meaning(w)
  PROVE  v = w
<1>1. v \in Tree /\ w \in Tree
  BY FirmIs
<1>2. {Meaning(v.xs[i]) : i \in DOMAIN v.xs} = {Meaning(w.xs[i]) : i \in DOMAIN w.xs}
  <2> DEFINE M(u) == {Meaning(u.xs[i]) : i \in DOMAIN u.xs}
  <2>1. Denoted("set", 0, M(v)) = Denoted("set", 0, M(w))
    BY <1>1, MeaningIs
  <2> HIDE DEF M
  <2>2. M(v) = M(w)
    BY <2>1, DenotedIs
  <2> QED
    BY <2>2 DEF M
<1>3. /\ v.num = 0 /\ (\A i \in DOMAIN v.xs : FirmValue(v.xs[i])) /\ Strictly(v.xs)
      /\ w.num = 0 /\ (\A i \in DOMAIN w.xs : FirmValue(w.xs[i])) /\ Strictly(w.xs)
  BY FirmElements
<1>4. \A i \in DOMAIN v.xs, j \in DOMAIN w.xs :
        Meaning(v.xs[i]) = Meaning(w.xs[j]) => v.xs[i] = w.xs[j]
  BY <1>3 DEF OneForm, Within
<1>5. Elements(v.xs) = Elements(w.xs)
  <2>1. ASSUME NEW i \in DOMAIN v.xs PROVE \E j \in DOMAIN w.xs : v.xs[i] = w.xs[j]
    <3>1. Meaning(v.xs[i]) \in {Meaning(w.xs[j]) : j \in DOMAIN w.xs}
      BY <1>2
    <3> QED
      BY <1>4, <3>1
  <2>2. ASSUME NEW j \in DOMAIN w.xs PROVE \E i \in DOMAIN v.xs : v.xs[i] = w.xs[j]
    <3>1. Meaning(w.xs[j]) \in {Meaning(v.xs[i]) : i \in DOMAIN v.xs}
      BY <1>2
    <3> QED
      BY <1>4, <3>1
  <2>3. \A e : e \in Elements(v.xs) <=> e \in Elements(w.xs)
    BY <2>1, <2>2 DEF Elements
  <2> QED
    BY <2>3
<1>6. v.xs \in Seq(Tree) /\ w.xs \in Seq(Tree)
  BY <1>1, TreeIs
<1>7. v.xs = w.xs
  BY <1>3, <1>5, <1>6, OneAscent
<1> QED
  BY <1>1, <1>3, <1>7, SameTree

LEMMA TupleMeansOne ==
  ASSUME NEW S, OneForm(S), NEW v, NEW w, Within(v, S), Within(w, S), FirmValue(v), FirmValue(w),
         v.kind = "tuple", w.kind = "tuple", Meaning(v) = Meaning(w)
  PROVE  v = w
<1> DEFINE M(u) == {Maplet(Denoted("int", i, {}), Meaning(u.xs[i])) : i \in DOMAIN u.xs}
<1>1. v \in Tree /\ w \in Tree
  BY FirmIs
<1>2. M(v) = M(w)
  <2>1. Denoted("function", 0, M(v)) = Denoted("function", 0, M(w))
    BY <1>1, MeaningIs
  <2> HIDE DEF M
  <2> QED
    BY <2>1, DenotedIs
<1>3. /\ v.num = 0 /\ (\A i \in DOMAIN v.xs : FirmValue(v.xs[i]))
      /\ w.num = 0 /\ (\A i \in DOMAIN w.xs : FirmValue(w.xs[i]))
  BY FirmElements
<1>4. \A i \in DOMAIN v.xs, j \in DOMAIN w.xs :
        Meaning(v.xs[i]) = Meaning(w.xs[j]) => v.xs[i] = w.xs[j]
  BY <1>3 DEF OneForm, Within
<1>5. ASSUME NEW a, NEW b, M(a) = M(b), NEW i \in DOMAIN a.xs
      PROVE  i \in DOMAIN b.xs /\ Meaning(a.xs[i]) = Meaning(b.xs[i])
  <2>1. Maplet(Denoted("int", i, {}), Meaning(a.xs[i])) \in M(b)
    BY <1>5
  <2>2. PICK j \in DOMAIN b.xs :
          Maplet(Denoted("int", i, {}), Meaning(a.xs[i])) = Maplet(Denoted("int", j, {}), Meaning(b.xs[j]))
    BY <2>1
  <2>3. Denoted("int", i, {}) = Denoted("int", j, {}) /\ Meaning(a.xs[i]) = Meaning(b.xs[j])
    BY <2>2, MapletIs
  <2>4. i = j
    BY <2>3, DenotedIs
  <2> QED
    BY <2>3, <2>4
<1>6. /\ v.xs \in Seq(Tree) /\ w.xs \in Seq(Tree)
      /\ DOMAIN v.xs = 1..Len(v.xs) /\ Len(v.xs) \in Nat
      /\ DOMAIN w.xs = 1..Len(w.xs) /\ Len(w.xs) \in Nat
  BY <1>1, TreeIs
<1>7. DOMAIN v.xs = DOMAIN w.xs /\ \A i \in DOMAIN v.xs : Meaning(v.xs[i]) = Meaning(w.xs[i])
  <2>1. \A i \in DOMAIN v.xs : i \in DOMAIN w.xs /\ Meaning(v.xs[i]) = Meaning(w.xs[i])
    BY <1>2, <1>5
  <2>2. \A i \in DOMAIN w.xs : i \in DOMAIN v.xs
    BY <1>2, <1>5
  <2> QED
    BY <2>1, <2>2
<1>8. \A i \in DOMAIN v.xs : v.xs[i] = w.xs[i]
  BY <1>4, <1>7
<1>9. Len(v.xs) = Len(w.xs)
  BY <1>6, <1>7
<1>10. v.xs = w.xs
  BY <1>6, <1>8, <1>9
<1> QED
  BY <1>1, <1>3, <1>10, SameTree

\* No entry is overridden: what a record or function stands for.
LEMMA MapMeans ==
  ASSUME NEW S, OneForm(S), NEW v, Within(v, S), FirmValue(v), v.kind \in {"record", "func"}
  PROVE  /\ Meaning(v) = Denoted("function", 0, {Maplet(Meaning(Key(v, i)), Meaning(Val(v, i))) :
                                                 i \in DOMAIN v.xs})
         /\ \A i \in DOMAIN v.xs : Key(v, i) \in S /\ Val(v, i) \in S
<1> DEFINE ms == Meanings(v)
           D == DOMAIN v.xs
<1>1. v \in Tree /\ \A i \in D : v.xs[i] \in Tree
  BY FirmIs
<1>2. /\ ~HasTwice(v)
      /\ \A i \in D : /\ v.xs[i].kind = "entry" /\ v.xs[i] = Entry(Key(v, i), Val(v, i))
                      /\ 1 \in DOMAIN v.xs[i].xs /\ 2 \in DOMAIN v.xs[i].xs
                      /\ FirmValue(Key(v, i)) /\ FirmValue(Val(v, i))
  BY FirmEntries
<1>3. \A i \in D : Key(v, i) \in S /\ Val(v, i) \in S
  BY <1>2 DEF Within, Key, Val
<1>4. ASSUME NEW i \in D PROVE ms[i] = Maplet(Meaning(Key(v, i)), Meaning(Val(v, i)))
  <2> DEFINE e == v.xs[i]
  <2>1. e \in Tree /\ e.kind = "entry" /\ 1 \in DOMAIN e.xs /\ 2 \in DOMAIN e.xs
    BY <1>1, <1>2
  <2>2. ms[i] = Meaning(e)
    BY DEF Meanings
  <2> HIDE DEF e
  <2>3. Meaning(e) = Maplet(Meanings(e)[1], Meanings(e)[2])
    BY <2>1, MeaningIs
  <2>4. Meanings(e)[1] = Meaning(e.xs[1]) /\ Meanings(e)[2] = Meaning(e.xs[2])
    BY <2>1 DEF Meanings
  <2> QED
    BY <2>2, <2>3, <2>4 DEF e, Key, Val
<1>5. DOMAIN ms = D /\ D \subseteq Nat /\ D = 1..Len(v.xs)
  BY <1>1, TreeIs DEF Meanings
<1>6. Meaning(v) = Denoted("function", 0, {ms[i] : i \in Counting(ms)})
  BY <1>1, MeaningIs
<1> HIDE DEF ms, D
<1>7. ASSUME NEW i \in D, NEW j \in D, From(ms[i]) = From(ms[j]) PROVE i = j
  <2>1. Meaning(Key(v, i)) = Meaning(Key(v, j))
    BY <1>4, <1>7, MapletIs
  <2>2. Key(v, i) = Key(v, j)
    BY <1>2, <1>3, <2>1 DEF OneForm
  <2> QED
    BY <1>2, <2>2 DEF HasTwice, Key, D
<1>8. Counting(ms) = D
  <2>1. \A i \in D : \A j \in 1..(i - 1) : j \in D /\ j # i
    BY <1>5
  <2> QED
    BY <1>5, <1>7, <2>1 DEF Counting
<1>9. {ms[i] : i \in D} = {Maplet(Meaning(Key(v, i)), Meaning(Val(v, i))) : i \in D}
  BY <1>4
<1> QED
  BY <1>3, <1>6, <1>8, <1>9 DEF D
LEMMA MapMeansOne ==
  ASSUME NEW S, OneForm(S), NEW v, NEW w, Within(v, S), Within(w, S), FirmValue(v), FirmValue(w),
         v.kind \in {"record", "func"}, w.kind \in {"record", "func"}, Meaning(v) = Meaning(w)
  PROVE  v = w
<1> DEFINE M(u) == {Maplet(Meaning(Key(u, i)), Meaning(Val(u, i))) : i \in DOMAIN u.xs}
           Map(u) == /\ FirmValue(u) /\ u.kind \in {"record", "func"} /\ u \in Tree
                     /\ \A i \in DOMAIN u.xs : /\ Key(u, i) \in S /\ Val(u, i) \in S
                                               /\ FirmValue(Key(u, i)) /\ FirmValue(Val(u, i))
<1>1. Map(v) /\ Map(w)
  BY MapMeans, FirmEntries, FirmIs
<1>2. M(v) = M(w)
  <2>1. Denoted("function", 0, M(v)) = Denoted("function", 0, M(w))
    BY MapMeans
  <2> HIDE DEF M
  <2> QED
    BY <2>1, DenotedIs
<1>3. ASSUME NEW a, NEW b, Map(a), Map(b), M(a) = M(b), NEW i \in DOMAIN a.xs
      PROVE  \E j \in DOMAIN b.xs : Key(a, i) = Key(b, j) /\ Val(a, i) = Val(b, j)
  <2>1. Maplet(Meaning(Key(a, i)), Meaning(Val(a, i))) \in M(b)
    BY <1>3
  <2>2. PICK j \in DOMAIN b.xs :
          Maplet(Meaning(Key(a, i)), Meaning(Val(a, i))) = Maplet(Meaning(Key(b, j)), Meaning(Val(b, j)))
    BY <2>1
  <2>3. Meaning(Key(a, i)) = Meaning(Key(b, j)) /\ Meaning(Val(a, i)) = Meaning(Val(b, j))
    BY <2>2, MapletIs
  <2> QED
    BY <1>3, <2>3 DEF OneForm
<1> HIDE DEF M
<1>4. Keys(v.xs) = Keys(w.xs)
  <2>1. /\ Keys(v.xs) \in Seq(Tree) /\ Strictly(Keys(v.xs)) /\ DOMAIN Keys(v.xs) = DOMAIN v.xs
        /\ Keys(w.xs) \in Seq(Tree) /\ Strictly(Keys(w.xs)) /\ DOMAIN Keys(w.xs) = DOMAIN w.xs
        /\ (\A i \in DOMAIN v.xs : Keys(v.xs)[i] = Key(v, i))
        /\ (\A i \in DOMAIN w.xs : Keys(w.xs)[i] = Key(w, i))
    BY FirmEntries
  <2>2. \A i \in DOMAIN v.xs : \E j \in DOMAIN w.xs : Key(v, i) = Key(w, j)
    BY <1>1, <1>2, <1>3
  <2>3. \A i \in DOMAIN w.xs : \E j \in DOMAIN v.xs : Key(w, i) = Key(v, j)
    BY <1>1, <1>2, <1>3
  <2>4. \A e : e \in Elements(Keys(v.xs)) <=> \E i \in DOMAIN v.xs : e = Key(v, i)
    BY <2>1 DEF Elements
  <2>5. \A e : e \in Elements(Keys(w.xs)) <=> \E i \in DOMAIN w.xs : e = Key(w, i)
    BY <2>1 DEF Elements
  <2>6. \A e : e \in Elements(Keys(v.xs)) <=> e \in Elements(Keys(w.xs))
    BY <2>2, <2>3, <2>4, <2>5
  <2>7. Elements(Keys(v.xs)) = Elements(Keys(w.xs))
    BY <2>6
  <2> QED
    BY <2>1, <2>7, OneAscent
<1>5. /\ v.xs \in Seq(Tree) /\ w.xs \in Seq(Tree)
      /\ DOMAIN v.xs = 1..Len(v.xs) /\ Len(v.xs) \in Nat
      /\ DOMAIN w.xs = 1..Len(w.xs) /\ Len(w.xs) \in Nat
  BY <1>1, TreeIs
<1>6. DOMAIN v.xs = DOMAIN w.xs /\ \A i \in DOMAIN v.xs : Key(v, i) = Key(w, i)
  BY <1>4, FirmEntries
<1>7. ASSUME NEW i \in DOMAIN v.xs PROVE v.xs[i] = w.xs[i]
  <2>1. PICK j \in DOMAIN w.xs : Key(v, i) = Key(w, j) /\ Val(v, i) = Val(w, j)
    BY <1>1, <1>2, <1>3
  <2>2. Key(w, i) = Key(w, j) /\ i \in DOMAIN w.xs
    BY <1>6, <2>1
  <2>3. i = j
    BY <2>2, FirmEntries DEF HasTwice, Key
  <2>4. v.xs[i] = Entry(Key(v, i), Val(v, i)) /\ w.xs[i] = Entry(Key(w, i), Val(w, i))
    BY <2>2, FirmEntries
  <2> QED
    BY <1>6, <2>1, <2>3, <2>4
<1>8. v.xs = w.xs
  <2>1. Len(v.xs) = Len(w.xs)
    BY <1>5, <1>6
  <2> QED
    BY <1>5, <1>7, <2>1
<1>9. v.num = 0 /\ w.num = 0
  BY FirmEntries
<1>10. v.kind = w.kind
  <2>1. ASSUME NEW a, NEW b, a.xs = b.xs, FirmValue(a), FirmValue(b), a.kind = "record", b.kind = "func"
        PROVE  FALSE
    <3>1. \A i \in DOMAIN a.xs : Key(a, i).kind = "string"
      BY <2>1, FirmEntries
    <3>2. \E i \in DOMAIN b.xs : Key(b, i).kind # "string"
      BY <2>1, FirmEntries
    <3> QED
      BY <2>1, <3>1, <3>2 DEF Key
  <2> QED
    BY <1>8, <2>1
<1> QED
  BY <1>1, <1>8, <1>9, <1>10, SameTree

\* FirmValue values that stand for a number are that number.
LEMMA MeansANumber ==
  ASSUME NEW v, FirmValue(v), NEW n, Meaning(v) = Denoted("int", n, {})
  PROVE  v = NewInt(n) /\ n \in Int
<1>1. v \in Tree /\ WellMade(v)
      /\ v.kind \in {"bool", "int", "string", "model", "set", "tuple", "record", "func"}
  BY FirmIs
<1>2. v.kind \in {"set", "tuple", "record", "func"} => Meaning(v).tag \in {"set", "function"}
  BY <1>1, MeaningIs DEF Denoted
<1>3. Meaning(v).tag = "int"
  BY DEF Denoted
<1>4. v.kind \in {"bool", "int", "string", "model"}
  BY <1>1, <1>2, <1>3
<1>5. Denoted(v.kind, v.num, {}) = Denoted("int", n, {})
  BY <1>1, <1>4, MeaningIs
<1>6. v.kind = "int" /\ v.num = n
  BY <1>5, DenotedIs
<1>7. v.xs = <<>>
  BY <1>1, <1>4 DEF WellMade
<1>8. v = Value(v.kind, v.num, v.xs) /\ v.num \in Int
  BY <1>1, TreeIs
<1> QED
  BY <1>6, <1>7, <1>8 DEF NewInt

LEMMA CompareInts ==
  ASSUME NEW i \in Int, NEW j \in Int, Tree # {}
  PROVE  NewInt(i) \in Tree /\ NewInt(j) \in Tree /\ Compare(NewInt(i), NewInt(j)) = i - j
<1>1. NewInt(i) \in Tree /\ NewInt(j) \in Tree
  BY Leaf DEF NewInt, Kind
<1>2. NewInt(i).kind = "int" /\ NewInt(j).kind = "int" /\ NewInt(i).num = i /\ NewInt(j).num = j
  BY DEF NewInt, Value
<1>3. i = j => Compare(NewInt(i), NewInt(j)) = 0
  BY <1>1, CompareOpposite DEF Opposite
<1>4. i # j => Compare(NewInt(i), NewInt(j)) = i - j
  BY <1>1, <1>2, CompareIs
<1> QED
  BY <1>1, <1>3, <1>4

LEMMA HasFirst == ASSUME NEW S, NEW s \in Seq(S), s # <<>> PROVE 1 \in DOMAIN s
OBVIOUS

LEMMA TupleIsNoMap ==
  ASSUME NEW S, OneForm(S), NEW v, NEW w, Within(w, S), FirmValue(v), FirmValue(w),
         v.kind = "tuple", w.kind \in {"record", "func"}, Meaning(v) = Meaning(w)
  PROVE  FALSE
<1> DEFINE M == {Maplet(Denoted("int", i, {}), Meaning(v.xs[i])) : i \in DOMAIN v.xs}
           N == {Maplet(Meaning(Key(w, i)), Meaning(Val(w, i))) : i \in DOMAIN w.xs}
           n == Len(v.xs)
           keys == Keys(w.xs)
           ints == [i \in 1..n |-> NewInt(i)]
<1>1. v \in Tree /\ w \in Tree /\ Tree # {}
  BY FirmIs
<1>2. M = N
  <2>1. Denoted("function", 0, M) = Denoted("function", 0, N)
    BY <1>1, MeaningIs, MapMeans
  <2> HIDE DEF M, N
  <2> QED
    BY <2>1, DenotedIs
<1>3. n \in Nat /\ DOMAIN v.xs = 1..n
  BY <1>1, TreeIs
<1>4. /\ keys \in Seq(Tree) /\ Strictly(keys) /\ DOMAIN keys = DOMAIN w.xs
      /\ \A i \in DOMAIN w.xs : keys[i] = Key(w, i) /\ FirmValue(Key(w, i))
  BY FirmEntries
<1> HIDE DEF n, keys
<1>5. ASSUME NEW j \in DOMAIN w.xs PROVE \E i \in 1..n : Key(w, j) = NewInt(i)
  <2>1. Maplet(Meaning(Key(w, j)), Meaning(Val(w, j))) \in M
    BY <1>2
  <2>2. PICK i \in 1..n : Maplet(Meaning(Key(w, j)), Meaning(Val(w, j)))
                            = Maplet(Denoted("int", i, {}), Meaning(v.xs[i]))
    BY <1>3, <2>1
  <2>3. Meaning(Key(w, j)) = Denoted("int", i, {})
    BY <2>2, MapletIs
  <2> QED
    BY <1>4, <2>3, MeansANumber
<1>6. ASSUME NEW i \in 1..n PROVE \E j \in DOMAIN w.xs : Key(w, j) = NewInt(i)
  <2>1. Maplet(Denoted("int", i, {}), Meaning(v.xs[i])) \in N
    BY <1>2, <1>3
  <2>2. PICK j \in DOMAIN w.xs : Maplet(Meaning(Key(w, j)), Meaning(Val(w, j)))
                                   = Maplet(Denoted("int", i, {}), Meaning(v.xs[i]))
    BY <2>1
  <2>3. Meaning(Key(w, j)) = Denoted("int", i, {})
    BY <2>2, MapletIs
  <2> QED
    BY <1>4, <2>3, MeansANumber
<1> HIDE DEF M, N
<1>7. \A i \in 1..n : NewInt(i) \in Tree
  BY <1>1, <1>3, CompareInts
<1>8. ints \in Seq(Tree) /\ DOMAIN ints = 1..n
  BY <1>3, <1>7
<1>9. Strictly(ints)
  <2> SUFFICES ASSUME NEW i \in 1..n, NEW j \in 1..n, i < j
               PROVE  Compare(NewInt(i), NewInt(j)) < 0
    BY DEF Strictly
  <2>1. i \in Int /\ j \in Int
    OBVIOUS
  <2> QED
    BY <1>1, <2>1, CompareInts
<1>10. Elements(ints) = Elements(keys)
  <2>1. \A e : e \in Elements(ints) <=> \E i \in 1..n : e = NewInt(i)
    BY DEF Elements
  <2>2. \A e : e \in Elements(keys) <=> \E j \in DOMAIN w.xs : e = Key(w, j)
    BY <1>4 DEF Elements
  <2>3. \A e : e \in Elements(ints) <=> e \in Elements(keys)
    BY <1>5, <1>6, <2>1, <2>2
  <2> QED
    BY <2>3
<1>11. ints = keys
  <2> HIDE DEF ints
  <2> QED
    BY <1>4, <1>8, <1>9, <1>10, OneAscent
<1>12. \A i \in DOMAIN w.xs : Key(w, i) = NewInt(i)
  BY <1>4, <1>11
<1>13. \A i : NewInt(i).kind # "string"
  BY DEF NewInt, Value
<1>14. w.kind = "record" => FALSE
  <2> SUFFICES ASSUME w.kind = "record" PROVE FALSE
    OBVIOUS
  <2>1. w.xs # <<>> /\ \A i \in DOMAIN w.xs : Key(w, i).kind = "string"
    BY FirmEntries
  <2>2. w.xs \in Seq(Tree)
    BY <1>1, TreeIs
  <2>3. 1 \in DOMAIN w.xs
    BY <2>1, <2>2, HasFirst
  <2> QED
    BY <1>12, <1>13, <2>1, <2>3
<1> QED
  BY <1>12, <1>14, FirmEntries

LEMMA OneFormNext ==
  ASSUME NEW S, OneForm(S), NEW v, NEW w, Within(v, S), Within(w, S), FirmValue(v), FirmValue(w),
         Meaning(v) = Meaning(w)
  PROVE  v = w
<1> DEFINE atoms == {"bool", "int", "string", "model"}
<1>1. /\ v \in Tree /\ v.kind \in atoms \cup {"set", "tuple", "record", "func"} /\ WellMade(v)
      /\ w \in Tree /\ w.kind \in atoms \cup {"set", "tuple", "record", "func"} /\ WellMade(w)
  BY FirmIs
<1>2. ASSUME NEW u \in Tree, u.kind \in atoms \cup {"set", "tuple", "record", "func"}
      PROVE  /\ u.kind \in atoms => Meaning(u) = Denoted(u.kind, u.num, {}) /\ Meaning(u).tag = u.kind
             /\ u.kind = "set" => Meaning(u).tag = "set"
             /\ u.kind \in {"tuple", "record", "func"} => Meaning(u).tag = "function"
  BY MeaningIs DEF Denoted
<1>3. CASE v.kind \in atoms
  <2>1. w.kind = v.kind
    BY <1>1, <1>2, <1>3
  <2>2. v.num = w.num
    BY <1>1, <1>2, <1>3, <2>1, DenotedIs
  <2>3. v.xs = <<>> /\ w.xs = <<>>
    BY <1>1, <1>3, <2>1 DEF WellMade
  <2> QED
    BY <1>1, <2>1, <2>2, <2>3, SameTree
<1>4. CASE v.kind = "set"
  <2>1. w.kind = "set"
    BY <1>1, <1>2, <1>4
  <2> QED
    BY <1>4, <2>1, SetMeansOne
<1>5. CASE v.kind \in {"tuple", "record", "func"}
  <2>1. w.kind \in {"tuple", "record", "func"}
    BY <1>1, <1>2, <1>5
  <2>2. CASE v.kind = "tuple" /\ w.kind = "tuple"
    BY <2>2, TupleMeansOne
  <2>3. CASE v.kind = "tuple" /\ w.kind # "tuple"
    BY <2>1, <2>3, TupleIsNoMap
  <2>4. CASE v.kind # "tuple" /\ w.kind = "tuple"
    BY <1>5, <2>4, TupleIsNoMap
  <2>5. CASE v.kind # "tuple" /\ w.kind # "tuple"
    BY <1>5, <2>1, <2>5, MapMeansOne
  <2> QED
    BY <2>2, <2>3, <2>4, <2>5
<1> QED
  BY <1>1, <1>3, <1>4, <1>5
LEMMA EveryOneForm == OneForm(Tree)
<1> USE NestingAssumption
<1> DEFINE L(k) == Levels(DOMAIN Kind)[k]
           U == {k \in 0..MaxNesting : OneForm(L(k))}
<1>1. 0 \in U
  <2>1. L(0) = {}
    BY LevelZero
  <2> HIDE DEF L
  <2>2. OneForm(L(0))
    BY <2>1 DEF OneForm
  <2> QED
    BY <2>2
<1>2. ASSUME NEW k \in 1..MaxNesting, k - 1 \in U PROVE k \in U
  <2>1. k \in 0..MaxNesting /\ L(k - 1) \subseteq L(k) /\ k - 1 \in 0..MaxNesting
    BY LevelsGrow
  <2>2. ASSUME NEW u \in L(k) PROVE Within(u, L(k - 1))
    <3>1. \A i \in DOMAIN u.xs : u.xs[i] \in L(k - 1)
      BY <2>1, TreeLevel
    <3>2. ASSUME NEW i \in DOMAIN u.xs, NEW j \in DOMAIN u.xs[i].xs
          PROVE  u.xs[i].xs[j] \in L(k - 1)
      <4> DEFINE e == u.xs[i]
      <4>1. e \in L(k - 1)
        BY <3>1
      <4> HIDE DEF e
      <4>2. k - 1 # 0 /\ \A m \in DOMAIN e.xs : e.xs[m] \in L((k - 1) - 1)
        BY <2>1, <4>1, TreeLevel
      <4>3. k - 1 \in 1..MaxNesting
        BY <2>1, <4>2
      <4>4. L((k - 1) - 1) \subseteq L(k - 1)
        BY <4>3, LevelsGrow
      <4> QED
        BY <4>2, <4>4 DEF e
    <3> HIDE DEF L
    <3> QED
      BY <3>1, <3>2 DEF Within
  <2> HIDE DEF L
  <2>3. OneForm(L(k))
    <3> SUFFICES ASSUME NEW v \in L(k), NEW w \in L(k), FirmValue(v), FirmValue(w), Meaning(v) = Meaning(w)
                 PROVE  v = w
      BY DEF OneForm
    <3>1. OneForm(L(k - 1)) /\ Within(v, L(k - 1)) /\ Within(w, L(k - 1))
      BY <1>2, <2>2
    <3> QED
      BY <3>1, OneFormNext
  <2> QED
    BY <2>1, <2>3
<1> HIDE DEF U
<1>3. MaxNesting \in U
  BY <1>1, <1>2, UpTo
<1> QED
  BY <1>3 DEF U, Tree, Trees

LEMMA InvMeansEqual == IInv => EqualMeansTheSame
<1> SUFFICES ASSUME IInv, \A part \in Parts(x) \cup Parts(y) : ~Loose(part)
             PROVE  Compare(x, y) = 0 <=> Meaning(x) = Meaning(y)
  BY DEF EqualMeansTheSame
<1>1. FirmValue(x) /\ FirmValue(y)
  BY DEF IInv, FirmValue, AllFirm
<1>2. x \in Tree /\ y \in Tree
  BY <1>1, FirmIs
<1>3. Compare(x, y) = 0 <=> x = y
  BY <1>2, CompareOpposite DEF Opposite
<1>4. Meaning(x) = Meaning(y) => x = y
  BY <1>1, <1>2, EveryOneForm DEF OneForm
<1> QED
  BY <1>3, <1>4

\* rust/src/value.rs:26, sets in canonical form: whatever the constructors
\* were given and in whatever order, two values without loose parts are Equal
\* exactly if they stand for the same TLA+ value.
THEOREM EqualMeansSame == Spec => []EqualMeansTheSame
BY SpecInv, InvMeansEqual, PTL

\* value.rs:15-34, the comparison that all sorting uses: it is a total order
\* on values, in which no two that differ are equal.
THEOREM ComparisonIsTotalOrder ==
  /\ \A a, b \in Tree : Compare(a, b) = -Compare(b, a) /\ (Compare(a, b) = 0 <=> a = b)
  /\ \A a, b, c \in Tree : Compare(a, b) < 0 /\ Compare(b, c) < 0 => Compare(a, c) < 0
<1>1. \A a, b \in Tree : Compare(a, b) = -Compare(b, a) /\ (Compare(a, b) = 0 <=> a = b)
  <2> SUFFICES ASSUME NEW a \in Tree, NEW b \in Tree
               PROVE  Compare(a, b) = -Compare(b, a) /\ (Compare(a, b) = 0 <=> a = b)
    OBVIOUS
  <2>1. Opposite(a, b)
    BY CompareOpposite
  <2> QED
    BY <2>1 DEF Opposite
<1>2. \A a, b, c \in Tree : Compare(a, b) < 0 /\ Compare(b, c) < 0 => Compare(a, c) < 0
  BY CompareThrough DEF Through
<1> QED
  BY <1>1, <1>2

\* Package value's constructors: every value that is built has, in all its
\* parts, sets without duplicates and entries sorted by their keys.
THEOREM ValuesAreWellMade == Spec => [](IsValue(x) /\ IsValue(y))
BY SpecInv, PTL DEF IInv
-----------------------------------------------------------------------------
(***************************************************************************)
(* to_itf and from_itf are what their recursions say.                      *)
(***************************************************************************)
\* The kinds of the nodes of a document.
Documents == {"bool", "number", "#bigint", "string", "#set", "#tup", "pair", "object", "#map"}

LEMMA EncodedLocal ==
  ASSUME NEW f, NEW g, NEW v, AgreeOn(f, g, v)
  PROVE  ITFBy(f, v) = ITFBy(g, v)
<1> DEFINE xs(h) == [i \in DOMAIN v.xs |-> h[v.xs[i]]]
<1>1. xs(f) = xs(g)
  BY DEF AgreeOn
<1> DEFINE By(m) ==
      IF \E i \in DOMAIN m : m[i] = Failed THEN Failed
      ELSE CASE v.kind = "bool"  -> Json("bool", v.num, <<>>)
             [] v.kind = "int"   -> IntToITF(v.num)
             [] v.kind \in {"string", "model"} -> Json("string", v.num, <<>>)
             [] v.kind = "set"   -> Json("#set", 0, m)
             [] v.kind = "tuple" -> Json("#tup", 0, m)
             [] v.kind = "entry" -> Json("pair", 0, m)
             [] v.kind = "record" -> Object(m)
             [] v.kind = "func"  -> Json("#map", 0, m)
             [] v.kind = "interval" ->
                  IF v.xs[2].num - v.xs[1].num > MaxExpansion THEN Failed
                  ELSE Json("#set", 0, Expand(v.xs[1].num, v.xs[2].num))
<1>2. \A h : ITFBy(h, v) = By(xs(h))
  BY DEF ITFBy
<1> HIDE DEF xs, By
<1> QED
  BY <1>1, <1>2

LEMMA EncodingIs == Encoding = [v \in Tree |-> ITFBy(Encoding, v)]
<1> USE NestingAssumption
<1> DEFINE L(k) == Levels(DOMAIN Kind)[k]
           Is(f, k) == f = [v \in L(k) |-> ITFBy(f, v)]
           T == {k \in 0..MaxNesting : \E f : Is(f, k)}
<1>1. 0 \in T
  <2>1. L(0) = {}
    BY LevelZero
  <2> HIDE DEF L
  <2>2. Is([v \in {} |-> 0], 0)
    BY <2>1
  <2> HIDE DEF Is
  <2>3. \E f : Is(f, 0)
    BY <2>2
  <2> QED
    BY <2>3
<1>2. ASSUME NEW k \in 1..MaxNesting, k - 1 \in T PROVE k \in T
  <2>1. PICK f : Is(f, k - 1)
    BY <1>2
  <2> DEFINE g == [v \in L(k) |-> ITFBy(f, v)]
  <2>2. ASSUME NEW a \in L(k) PROVE ITFBy(f, a) = ITFBy(g, a)
    <3>1. k \in 0..MaxNesting /\ L(k - 1) \subseteq L(k)
      BY LevelsGrow
    <3>2. \A i \in DOMAIN a.xs : a.xs[i] \in L(k - 1)
      BY <3>1, TreeLevel
    <3> HIDE DEF L
    <3>3. ASSUME NEW v \in L(k - 1) PROVE f[v] = g[v]
      <4>1. f[v] = ITFBy(f, v)
        BY <2>1
      <4> QED
        BY <3>1, <4>1
    <3> HIDE DEF g
    <3>4. AgreeOn(f, g, a)
      BY <3>2, <3>3 DEF AgreeOn
    <3> QED
      BY <3>4, EncodedLocal
  <2> HIDE DEF L
  <2>3. g = [v \in L(k) |-> ITFBy(g, v)]
    <3>1. g = [v \in L(k) |-> ITFBy(f, v)]
      OBVIOUS
    <3> HIDE DEF g
    <3> QED
      BY <2>2, <3>1
  <2> HIDE DEF g
  <2>4. Is(g, k)
    BY <2>3
  <2> HIDE DEF Is
  <2>5. k \in 0..MaxNesting /\ \E h : Is(h, k)
    BY <2>4
  <2> QED
    BY <2>5
<1> HIDE DEF T
<1>3. MaxNesting \in T
  BY <1>1, <1>2, UpTo
<1>4. \E f : Is(f, MaxNesting)
  BY <1>3 DEF T
<1>5. Encoding = CHOOSE f : Is(f, MaxNesting)
  BY DEF Encoding, Tree, Trees
<1> HIDE DEF Is
<1>6. Is(Encoding, MaxNesting)
  BY <1>4, <1>5
<1> QED
  BY <1>6 DEF Is, Tree, Trees

LEMMA DecodedLocal ==
  ASSUME NEW f, NEW g, NEW t, AgreeOn(f, g, t)
  PROVE  ValueBy(f, t) = ValueBy(g, t)
<1> DEFINE vs(h) == [i \in DOMAIN t.xs |-> h[t.xs[i]]]
<1>1. vs(f) = vs(g)
  BY DEF AgreeOn
<1> DEFINE By(m) ==
      CASE t.kind = "bool"   -> NewBool(t.num = 1)
        [] t.kind \in {"number", "#bigint"} -> NewInt(t.num)
        [] t.kind = "string" -> NewString(t.num)
        [] t.kind = "#set"   -> NewSet(m)
        [] t.kind = "#tup"   -> NewTuple(m)
        [] t.kind = "pair"   -> Entry(m[1], m[2])
        [] t.kind = "object" -> NewRecord(m)
        [] t.kind = "#map"   -> NewFunc(m)
<1>2. \A h : ValueBy(h, t) = By(vs(h))
  BY DEF ValueBy
<1> HIDE DEF vs, By
<1> QED
  BY <1>1, <1>2

LEMMA DecodingIs == Decoding = [v \in Document |-> ValueBy(Decoding, v)]
<1> USE NestingAssumption
<1> DEFINE L(k) == Levels(Documents)[k]
           Is(f, k) == f = [v \in L(k) |-> ValueBy(f, v)]
           T == {k \in 0..MaxNesting : \E f : Is(f, k)}
<1>1. 0 \in T
  <2>1. L(0) = {}
    BY LevelZero
  <2> HIDE DEF L
  <2>2. Is([v \in {} |-> 0], 0)
    BY <2>1
  <2> HIDE DEF Is
  <2>3. \E f : Is(f, 0)
    BY <2>2
  <2> QED
    BY <2>3
<1>2. ASSUME NEW k \in 1..MaxNesting, k - 1 \in T PROVE k \in T
  <2>1. PICK f : Is(f, k - 1)
    BY <1>2
  <2> DEFINE g == [v \in L(k) |-> ValueBy(f, v)]
  <2>2. ASSUME NEW a \in L(k) PROVE ValueBy(f, a) = ValueBy(g, a)
    <3>1. k \in 0..MaxNesting /\ L(k - 1) \subseteq L(k)
      BY LevelsGrow
    <3>2. \A i \in DOMAIN a.xs : a.xs[i] \in L(k - 1)
      BY <3>1, TreeLevel
    <3> HIDE DEF L
    <3>3. ASSUME NEW v \in L(k - 1) PROVE f[v] = g[v]
      <4>1. f[v] = ValueBy(f, v)
        BY <2>1
      <4> QED
        BY <3>1, <4>1
    <3> HIDE DEF g
    <3>4. AgreeOn(f, g, a)
      BY <3>2, <3>3 DEF AgreeOn
    <3> QED
      BY <3>4, DecodedLocal
  <2> HIDE DEF L
  <2>3. g = [v \in L(k) |-> ValueBy(g, v)]
    <3>1. g = [v \in L(k) |-> ValueBy(f, v)]
      OBVIOUS
    <3> HIDE DEF g
    <3> QED
      BY <2>2, <3>1
  <2> HIDE DEF g
  <2>4. Is(g, k)
    BY <2>3
  <2> HIDE DEF Is
  <2>5. k \in 0..MaxNesting /\ \E h : Is(h, k)
    BY <2>4
  <2> QED
    BY <2>5
<1> HIDE DEF T
<1>3. MaxNesting \in T
  BY <1>1, <1>2, UpTo
<1>4. \E f : Is(f, MaxNesting)
  BY <1>3 DEF T
<1>5. Decoding = CHOOSE f : Is(f, MaxNesting)
  BY DEF Decoding, Document, Trees, Documents
<1> HIDE DEF Is
<1>6. Is(Decoding, MaxNesting)
  BY <1>4, <1>5
<1> QED
  BY <1>6 DEF Is, Document, Trees, Documents

\* The parts of a value in ITF, and those of a document read back.
Encoded(v) == [i \in DOMAIN v.xs |-> ToITF(v.xs[i])]

Decoded(t) == [i \in DOMAIN t.xs |-> FromITF(t.xs[i])]

LEMMA ToITFIs ==
  ASSUME NEW v \in Tree
  PROVE  /\ (\E i \in DOMAIN v.xs : ToITF(v.xs[i]) = Failed) => ToITF(v) = Failed
         /\ (\A i \in DOMAIN v.xs : ToITF(v.xs[i]) # Failed) =>
              /\ v.kind = "bool" => ToITF(v) = Json("bool", v.num, <<>>)
              /\ v.kind = "int" => ToITF(v) = IntToITF(v.num)
              /\ v.kind \in {"string", "model"} => ToITF(v) = Json("string", v.num, <<>>)
              /\ v.kind = "set" => ToITF(v) = Json("#set", 0, Encoded(v))
              /\ v.kind = "tuple" => ToITF(v) = Json("#tup", 0, Encoded(v))
              /\ v.kind = "entry" => ToITF(v) = Json("pair", 0, Encoded(v))
              /\ v.kind = "record" => ToITF(v) = Object(Encoded(v))
              /\ v.kind = "func" => ToITF(v) = Json("#map", 0, Encoded(v))
              /\ v.kind = "interval" /\ v.xs[2].num - v.xs[1].num > MaxExpansion => ToITF(v) = Failed
              /\ v.kind = "interval" /\ ~(v.xs[2].num - v.xs[1].num > MaxExpansion) =>
                   ToITF(v) = Json("#set", 0, Expand(v.xs[1].num, v.xs[2].num))
<1> DEFINE xs == Encoded(v)
           tooLong == v.xs[2].num - v.xs[1].num > MaxExpansion
           ints == Expand(v.xs[1].num, v.xs[2].num)
<1>1. ToITF(v) = ITFBy(Encoding, v)
  BY EncodingIs DEF ToITF
<1>2. [i \in DOMAIN v.xs |-> Encoding[v.xs[i]]] = xs
  BY DEF Encoded, ToITF
<1>3. DOMAIN xs = DOMAIN v.xs /\ \A i \in DOMAIN v.xs : xs[i] = ToITF(v.xs[i])
  BY DEF Encoded
<1>4. ToITF(v) =
        IF \E i \in DOMAIN xs : xs[i] = Failed THEN Failed
        ELSE CASE v.kind = "bool"  -> Json("bool", v.num, <<>>)
               [] v.kind = "int"   -> IntToITF(v.num)
               [] v.kind \in {"string", "model"} -> Json("string", v.num, <<>>)
               [] v.kind = "set"   -> Json("#set", 0, xs)
               [] v.kind = "tuple" -> Json("#tup", 0, xs)
               [] v.kind = "entry" -> Json("pair", 0, xs)
               [] v.kind = "record" -> Object(xs)
               [] v.kind = "func"  -> Json("#map", 0, xs)
               [] v.kind = "interval" -> IF tooLong THEN Failed ELSE Json("#set", 0, ints)
  BY <1>1, <1>2, Zenon DEF ITFBy
<1> HIDE DEF xs, tooLong, ints
<1>5. /\ (\E i \in DOMAIN v.xs : ToITF(v.xs[i]) = Failed) => ToITF(v) = Failed
      /\ (\A i \in DOMAIN v.xs : ToITF(v.xs[i]) # Failed) =>
           /\ v.kind = "bool" => ToITF(v) = Json("bool", v.num, <<>>)
           /\ v.kind = "int" => ToITF(v) = IntToITF(v.num)
           /\ v.kind \in {"string", "model"} => ToITF(v) = Json("string", v.num, <<>>)
           /\ v.kind = "set" => ToITF(v) = Json("#set", 0, xs)
           /\ v.kind = "tuple" => ToITF(v) = Json("#tup", 0, xs)
           /\ v.kind = "entry" => ToITF(v) = Json("pair", 0, xs)
           /\ v.kind = "record" => ToITF(v) = Object(xs)
           /\ v.kind = "func" => ToITF(v) = Json("#map", 0, xs)
           /\ v.kind = "interval" /\ tooLong => ToITF(v) = Failed
           /\ v.kind = "interval" /\ ~tooLong => ToITF(v) = Json("#set", 0, ints)
  BY <1>3, <1>4
<1> QED
  BY <1>5, Zenon DEF xs, tooLong, ints

LEMMA FromITFIs ==
  ASSUME NEW t \in Document
  PROVE  /\ t.kind = "bool" => FromITF(t) = NewBool(t.num = 1)
         /\ t.kind \in {"number", "#bigint"} => FromITF(t) = NewInt(t.num)
         /\ t.kind = "string" => FromITF(t) = NewString(t.num)
         /\ t.kind = "#set" => FromITF(t) = NewSet(Decoded(t))
         /\ t.kind = "#tup" => FromITF(t) = NewTuple(Decoded(t))
         /\ t.kind = "pair" => FromITF(t) = Entry(Decoded(t)[1], Decoded(t)[2])
         /\ t.kind = "object" => FromITF(t) = NewRecord(Decoded(t))
         /\ t.kind = "#map" => FromITF(t) = NewFunc(Decoded(t))
<1> DEFINE vs == Decoded(t)
           bool == NewBool(t.num = 1)
<1>1. FromITF(t) = ValueBy(Decoding, t)
  BY DecodingIs DEF FromITF
<1>2. [i \in DOMAIN t.xs |-> Decoding[t.xs[i]]] = vs
  BY DEF Decoded, FromITF
<1>3. FromITF(t) =
        CASE t.kind = "bool"   -> bool
          [] t.kind \in {"number", "#bigint"} -> NewInt(t.num)
          [] t.kind = "string" -> NewString(t.num)
          [] t.kind = "#set"   -> NewSet(vs)
          [] t.kind = "#tup"   -> NewTuple(vs)
          [] t.kind = "pair"   -> Entry(vs[1], vs[2])
          [] t.kind = "object" -> NewRecord(vs)
          [] t.kind = "#map"   -> NewFunc(vs)
  BY <1>1, <1>2, Zenon DEF ValueBy
<1> HIDE DEF vs, bool
<1>4. /\ t.kind = "bool" => FromITF(t) = bool
      /\ t.kind \in {"number", "#bigint"} => FromITF(t) = NewInt(t.num)
      /\ t.kind = "string" => FromITF(t) = NewString(t.num)
      /\ t.kind = "#set" => FromITF(t) = NewSet(vs)
      /\ t.kind = "#tup" => FromITF(t) = NewTuple(vs)
      /\ t.kind = "pair" => FromITF(t) = Entry(vs[1], vs[2])
      /\ t.kind = "object" => FromITF(t) = NewRecord(vs)
      /\ t.kind = "#map" => FromITF(t) = NewFunc(vs)
  BY <1>3
<1> QED
  BY <1>4, Zenon DEF vs, bool

-----------------------------------------------------------------------------
(***************************************************************************)
(* A value can be encoded exactly if none of its intervals is too long.    *)
(***************************************************************************)
NoLong(v) == \A part \in Parts(v) : ~TooLong(part)

LEMMA NoLongIs ==
  ASSUME NEW v \in Tree
  PROVE  NoLong(v) <=> ~TooLong(v) /\ \A i \in DOMAIN v.xs : NoLong(v.xs[i])
<1>1. \A part : part \in Parts(v) <=> part = v \/ \E i \in DOMAIN v.xs : part \in Parts(v.xs[i])
  BY PartsAre
<1> QED
  BY <1>1 DEF NoLong

LEMMA JsonIs ==
  ASSUME NEW kind, NEW num, NEW xs
  PROVE  /\ Json(kind, num, xs).kind = kind /\ Json(kind, num, xs).num = num
         /\ Json(kind, num, xs).xs = xs
         /\ Json(kind, num, xs) = Failed => kind = "error"
<1>1. Failed.kind = "error"
  BY DEF Failed, Value
<1>2. Json(kind, num, xs).kind = kind /\ Json(kind, num, xs).num = num /\ Json(kind, num, xs).xs = xs
  BY DEF Json
<1> QED
  BY <1>1, <1>2

LEMMA IntEncodes ==
  ASSUME NEW n
  PROVE  /\ IntToITF(n).kind \in {"number", "#bigint"} /\ IntToITF(n).num = n
         /\ IntToITF(n).xs = <<>> /\ IntToITF(n) # Failed
<1>1. IntToITF(n) = Json("number", n, <<>>) \/ IntToITF(n) = Json("#bigint", n, <<>>)
  BY DEF IntToITF
<1> QED
  BY <1>1, JsonIs

LEMMA IntervalIs ==
  ASSUME NEW v \in Tree, v.kind = "interval", WellMade(v)
  PROVE  /\ DOMAIN v.xs = 1..2
         /\ \A i \in 1..2 : v.xs[i] \in Tree /\ v.xs[i].kind = "int" /\ v.xs[i].num \in Int
<1>1. Len(v.xs) = 2 /\ \A i \in 1..2 : v.xs[i].kind = "int"
  BY DEF WellMade
<1>2. DOMAIN v.xs = 1..2
  BY <1>1, TreeIs
<1>3. \A i \in 1..2 : v.xs[i] \in Tree
  BY <1>2, TreeIs
<1> QED
  BY <1>1, <1>2, <1>3, TreeIs

LEMMA Encodes == \A v \in Tree : AllWellMade(v) => (ToITF(v) # Failed <=> NoLong(v))
<1> DEFINE T == {v \in Tree : AllWellMade(v) => (ToITF(v) # Failed <=> NoLong(v))}
<1>1. ASSUME NEW v \in Tree, \A i \in DOMAIN v.xs : v.xs[i] \in T PROVE v \in T
  <2> SUFFICES ASSUME AllWellMade(v) PROVE ToITF(v) # Failed <=> NoLong(v)
    OBVIOUS
  <2>1. \A i \in DOMAIN v.xs : ToITF(v.xs[i]) # Failed <=> NoLong(v.xs[i])
    BY <1>1, AllWellMadeIs
  <2>2. WellMade(v) /\ v.kind \in DOMAIN Kind
    BY AllWellMadeIs, TreeIs
  <2>3. CASE \E i \in DOMAIN v.xs : ToITF(v.xs[i]) = Failed
    BY <2>1, <2>3, ToITFIs, NoLongIs
  <2>4. CASE \A i \in DOMAIN v.xs : ToITF(v.xs[i]) # Failed
    <3>1. NoLong(v) <=> ~TooLong(v)
      BY <2>1, <2>4, NoLongIs
    <3>2. CASE v.kind = "interval"
      BY <2>4, <3>1, <3>2, ToITFIs, JsonIs DEF TooLong
    <3>3. CASE v.kind # "interval"
      <4>1. ~TooLong(v)
        BY <3>3 DEF TooLong
      <4>2. v.kind \in {"bool", "string", "model", "set", "tuple", "entry", "func"} => ToITF(v) # Failed
        BY <2>4, ToITFIs, JsonIs
      <4>3. v.kind = "int" => ToITF(v) # Failed
        BY <2>4, ToITFIs, IntEncodes
      <4>4. v.kind = "record" => ToITF(v) # Failed
        <5> DEFINE fs == Encoded(v)
        <5>1. v.kind = "record" => ToITF(v) = Object(fs)
          BY <2>4, ToITFIs
        <5> HIDE DEF fs
        <5>2. Object(fs) # Failed
          BY JsonIs DEF Object
        <5> QED
          BY <5>1, <5>2
      <4>5. v.kind \in {"bool", "string", "model", "set", "tuple", "entry", "func", "int", "record"}
        BY <2>2, <3>3 DEF Kind
      <4> QED
        BY <3>1, <4>1, <4>2, <4>3, <4>4, <4>5
    <3> QED
      BY <3>2, <3>3
  <2> QED
    BY <2>3, <2>4
<1>2. \A v \in Tree : v \in T
  <2> HIDE DEF T
  <2> QED
    BY <1>1, TreeInduction DEF Tree
<1> QED
  BY <1>2

-----------------------------------------------------------------------------
(***************************************************************************)
(* What comes back for a value of each kind.                               *)
(***************************************************************************)
Back(v) == FromITF(ToITF(v))

LEMMA NodeIn ==
  ASSUME NEW kinds, NEW n \in 1..MaxNesting, NEW kind \in kinds, NEW num \in Int,
         NEW xs \in Seq(Levels(kinds)[n - 1])
  PROVE  Value(kind, num, xs) \in Levels(kinds)[n] /\ Json(kind, num, xs) \in Levels(kinds)[n]
<1>1. Levels(kinds)[n] = [kind: kinds, num: Int, xs: Seq(Levels(kinds)[n - 1])]
  BY LevelNext
<1>2. [kind |-> kind, num |-> num, xs |-> xs] \in [kind: kinds, num: Int, xs: Seq(Levels(kinds)[n - 1])]
  OBVIOUS
<1> QED
  BY <1>1, <1>2 DEF Value, Json

LEMMA LeafIn ==
  ASSUME NEW kinds, NEW n \in 1..MaxNesting, NEW kind \in kinds, NEW num \in Int
  PROVE  Value(kind, num, <<>>) \in Levels(kinds)[n] /\ Json(kind, num, <<>>) \in Levels(kinds)[n]
<1>1. <<>> \in Seq(Levels(kinds)[n - 1])
  OBVIOUS
<1> QED
  BY <1>1, NodeIn

LEMMA InDocument ==
  ASSUME NEW n \in 0..MaxNesting, NEW t \in Levels(Documents)[n]
  PROVE  t \in Document /\ t # Failed
<1>1. t \in Document
  BY LevelsAreTrees DEF Document, Documents
<1>2. t.kind \in Documents
  BY <1>1, TreeShape DEF Document, Documents
<1>3. Failed.kind \notin Documents
  BY DEF Failed, Value, Documents
<1> QED
  BY <1>1, <1>2, <1>3

LEMMA IntReturns ==
  ASSUME NEW i \in Int, NEW n \in 1..MaxNesting
  PROVE  /\ IntToITF(i) \in Levels(Documents)[n] /\ FromITF(IntToITF(i)) = NewInt(i)
         /\ NewInt(i) \in Levels(DOMAIN Kind)[n]
<1>1. IntToITF(i) = Json("number", i, <<>>) \/ IntToITF(i) = Json("#bigint", i, <<>>)
  BY DEF IntToITF
<1>2. IntToITF(i) \in Levels(Documents)[n]
  BY <1>1, LeafIn DEF Documents
<1>3. n \in 0..MaxNesting
  OBVIOUS
<1>4. IntToITF(i) \in Document
  BY <1>2, <1>3, InDocument
<1>5. FromITF(IntToITF(i)) = NewInt(i)
  BY <1>4, IntEncodes, FromITFIs
<1>6. NewInt(i) \in Levels(DOMAIN Kind)[n]
  BY LeafIn DEF NewInt, Kind
<1> QED
  BY <1>2, <1>5, <1>6

\* A leaf that is no model value comes back as it was.
LEMMA AtomReturns ==
  ASSUME NEW n \in 1..MaxNesting, NEW v \in Levels(DOMAIN Kind)[n], WellMade(v),
         v.kind \in {"bool", "int", "string"}
  PROVE  /\ ToITF(v) \in Levels(Documents)[n] /\ Back(v) = v
         /\ v.kind = "string" => ToITF(v) = Json("string", v.num, <<>>)
<1>1. n \in 0..MaxNesting
  OBVIOUS
<1>2. v \in Tree
  BY <1>1, LevelsAreTrees DEF Tree
<1>3. v = Value(v.kind, v.num, v.xs) /\ v.num \in Int
  BY <1>2, TreeIs
<1>4. v.xs = <<>> /\ (v.kind = "bool" => v.num \in {0, 1})
  BY DEF WellMade
<1>5. \A i \in DOMAIN v.xs : ToITF(v.xs[i]) # Failed
  BY <1>4
<1>6. CASE v.kind = "bool"
  <2>1. ToITF(v) = Json("bool", v.num, <<>>)
    BY <1>2, <1>5, <1>6, ToITFIs
  <2>2. ToITF(v) \in Levels(Documents)[n]
    BY <1>3, <2>1, LeafIn DEF Documents
  <2>3. ToITF(v) \in Document
    BY <1>1, <2>2, InDocument
  <2>4. Back(v) = NewBool(v.num = 1)
    BY <2>1, <2>3, FromITFIs, JsonIs DEF Back
  <2>5. Back(v) = Value("bool", v.num, <<>>)
    BY <1>4, <1>6, <2>4 DEF NewBool
  <2> QED
    BY <1>3, <1>4, <1>6, <2>2, <2>5
<1>7. CASE v.kind = "int"
  <2>1. ToITF(v) = IntToITF(v.num)
    BY <1>2, <1>5, <1>7, ToITFIs
  <2> QED
    BY <1>3, <1>4, <1>7, <2>1, IntReturns DEF Back, NewInt
<1>8. CASE v.kind = "string"
  <2>1. ToITF(v) = Json("string", v.num, <<>>)
    BY <1>2, <1>5, <1>8, ToITFIs
  <2>2. ToITF(v) \in Levels(Documents)[n]
    BY <1>3, <2>1, LeafIn DEF Documents
  <2>3. ToITF(v) \in Document
    BY <1>1, <2>2, InDocument
  <2>4. Back(v) = NewString(v.num)
    BY <2>1, <2>3, FromITFIs, JsonIs DEF Back
  <2> QED
    BY <1>3, <1>4, <1>8, <2>1, <2>2, <2>4 DEF NewString
<1> QED
  BY <1>6, <1>7, <1>8

\* Nothing in the value is lost on the way to ITF and back.
Lasting(v) == ~TooLong(v) /\ ~Renamed(v) /\ ~Overwritten(v) /\ ~Reordered(v)

Fine(v) == AllWellMade(v) /\ \A part \in Parts(v) : Lasting(part)

LEMMA FineIs ==
  ASSUME NEW v \in Tree
  PROVE  Fine(v) <=> WellMade(v) /\ Lasting(v) /\ \A i \in DOMAIN v.xs : Fine(v.xs[i])
<1>1. \A part : part \in Parts(v) <=> part = v \/ \E i \in DOMAIN v.xs : part \in Parts(v.xs[i])
  BY PartsAre
<1>2. (\A part \in Parts(v) : Lasting(part))
        <=> Lasting(v) /\ \A i \in DOMAIN v.xs : \A part \in Parts(v.xs[i]) : Lasting(part)
  BY <1>1
<1> QED
  BY <1>2, AllWellMadeIs DEF Fine

LEMMA MadeEntry ==
  ASSUME NEW e \in Tree, e.kind = "entry", WellMade(e)
  PROVE  /\ DOMAIN e.xs = 1..2 /\ e.xs[1] \in Tree /\ e.xs[2] \in Tree /\ e.num = 0
         /\ e.xs = <<e.xs[1], e.xs[2]>> /\ e = Entry(e.xs[1], e.xs[2])
         /\ Meaning(e) = Maplet(Meaning(e.xs[1]), Meaning(e.xs[2]))
<1>1. Len(e.xs) = 2 /\ e.num = 0
  BY DEF WellMade
<1>2. /\ e = Value(e.kind, e.num, e.xs) /\ e.xs \in Seq(Tree) /\ DOMAIN e.xs = 1..2
      /\ \A m \in DOMAIN e.xs : e.xs[m] \in Tree
  BY <1>1, TreeIs
<1>3. e.xs = <<e.xs[1], e.xs[2]>>
  BY <1>1, <1>2
<1>4. 1 \in DOMAIN e.xs /\ 2 \in DOMAIN e.xs
  BY <1>2
<1>5. Meanings(e)[1] = Meaning(e.xs[1]) /\ Meanings(e)[2] = Meaning(e.xs[2])
  BY <1>4 DEF Meanings
<1>6. Meaning(e) = Maplet(Meaning(e.xs[1]), Meaning(e.xs[2]))
  BY <1>5, MeaningIs
<1> QED
  BY <1>1, <1>2, <1>3, <1>4, <1>6 DEF Entry

\* What is claimed of a value of n levels.
Returns(v, n) ==
  /\ ToITF(v) \in Levels(Documents)[n] /\ Back(v) \in Levels(DOMAIN Kind)[n]
  /\ Meaning(Back(v)) = Meaning(v)
  /\ v.kind = "entry" => /\ ToITF(v) = Json("pair", 0, <<ToITF(v.xs[1]), ToITF(v.xs[2])>>)
                         /\ Back(v) = Entry(Back(v.xs[1]), Back(v.xs[2]))

Backs(v) == [i \in DOMAIN v.xs |-> Back(v.xs[i])]

\* A value whose parts come back.
Ready(v, n) == /\ n \in 1..MaxNesting /\ v \in Levels(DOMAIN Kind)[n] /\ Fine(v)
               /\ \A i \in DOMAIN v.xs : Returns(v.xs[i], n - 1)

LEMMA ReadyIs ==
  ASSUME NEW v, NEW n, Ready(v, n)
  PROVE  /\ n \in 0..MaxNesting /\ n - 1 \in 0..MaxNesting
         /\ v \in Tree /\ WellMade(v) /\ Lasting(v)
         /\ DOMAIN v.xs = 1..Len(v.xs) /\ Len(v.xs) \in Nat
         /\ \A i \in DOMAIN v.xs : ToITF(v.xs[i]) # Failed
         /\ Encoded(v) \in Seq(Levels(Documents)[n - 1])
         /\ Backs(v) \in Seq(Levels(DOMAIN Kind)[n - 1]) /\ Backs(v) \in Seq(Tree)
         /\ DOMAIN Backs(v) = DOMAIN v.xs
         /\ \A i \in DOMAIN v.xs : Meaning(Backs(v)[i]) = Meaning(v.xs[i])
<1>1. n \in 0..MaxNesting /\ n - 1 \in 0..MaxNesting
  BY NestingAssumption DEF Ready
<1>2. v \in Tree
  BY <1>1, LevelsAreTrees DEF Ready, Tree
<1>3. WellMade(v) /\ Lasting(v)
  BY <1>2, FineIs DEF Ready
<1>4. DOMAIN v.xs = 1..Len(v.xs) /\ Len(v.xs) \in Nat
  BY <1>2, TreeIs
<1>5. \A i \in DOMAIN v.xs : /\ ToITF(v.xs[i]) \in Levels(Documents)[n - 1]
                             /\ Back(v.xs[i]) \in Levels(DOMAIN Kind)[n - 1]
                             /\ Meaning(Back(v.xs[i])) = Meaning(v.xs[i])
  BY DEF Ready, Returns
<1>6. \A i \in DOMAIN v.xs : ToITF(v.xs[i]) # Failed
  BY <1>1, <1>5, InDocument
<1>7. Encoded(v) \in Seq(Levels(Documents)[n - 1])
  BY <1>4, <1>5 DEF Encoded
<1>8. Backs(v) \in Seq(Levels(DOMAIN Kind)[n - 1])
  BY <1>4, <1>5 DEF Backs
<1>9. Levels(DOMAIN Kind)[n - 1] \subseteq Tree
  BY <1>1, LevelsAreTrees DEF Tree
<1>10. Backs(v) \in Seq(Tree)
  BY <1>8, <1>9, SeqGrows
<1>11. DOMAIN Backs(v) = DOMAIN v.xs /\ \A i \in DOMAIN v.xs : Backs(v)[i] = Back(v.xs[i])
  BY DEF Backs
<1> QED
  BY <1>1, <1>2, <1>3, <1>4, <1>5, <1>6, <1>7, <1>8, <1>10, <1>11

LEMMA NodeReturns ==
  ASSUME NEW v, NEW n, Ready(v, n), NEW kind \in Documents
  PROVE  /\ Json(kind, 0, Encoded(v)) \in Levels(Documents)[n]
         /\ Json(kind, 0, Encoded(v)) \in Document
         /\ Decoded(Json(kind, 0, Encoded(v))) = Backs(v)
<1> DEFINE t == Json(kind, 0, Encoded(v))
<1>1. t \in Levels(Documents)[n]
  BY ReadyIs, NodeIn DEF Ready
<1>2. t \in Document
  BY <1>1, ReadyIs, InDocument
<1>3. t.xs = Encoded(v)
  BY JsonIs
<1> HIDE DEF t
<1>4. Decoded(t) = [i \in DOMAIN v.xs |-> FromITF(Encoded(v)[i])]
  BY <1>3 DEF Decoded, Encoded
<1>5. \A i \in DOMAIN v.xs : FromITF(Encoded(v)[i]) = Back(v.xs[i])
  BY DEF Encoded, Back
<1>6. Decoded(t) = Backs(v)
  BY <1>4, <1>5 DEF Backs
<1> QED
  BY <1>1, <1>2, <1>6 DEF t

LEMMA SeqWithin ==
  ASSUME NEW S, NEW s \in Seq(Tree), Elements(s) \subseteq S
  PROVE  s \in Seq(S)
<1>1. DOMAIN s = 1..Len(s) /\ Len(s) \in Nat /\ s = [i \in 1..Len(s) |-> s[i]]
  OBVIOUS
<1>2. \A i \in DOMAIN s : s[i] \in S
  BY DEF Elements
<1> QED
  BY <1>1, <1>2

LEMMA BacksIn ==
  ASSUME NEW v, NEW n, Ready(v, n)
  PROVE  Elements(Backs(v)) \subseteq Levels(DOMAIN Kind)[n - 1]
<1> DEFINE s == Backs(v)
           S == Levels(DOMAIN Kind)[n - 1]
<1>1. s \in Seq(S)
  BY ReadyIs
<1> HIDE DEF s, S
<1>2. \A i \in DOMAIN s : s[i] \in S
  BY <1>1
<1>3. Elements(s) \subseteq S
  BY <1>2 DEF Elements
<1> QED
  BY <1>3 DEF s, S

LEMMA TupleReturns ==
  ASSUME NEW v, NEW n, Ready(v, n), v.kind = "tuple"
  PROVE  Returns(v, n)
<1> DEFINE t == Json("#tup", 0, Encoded(v))
           u == Value("tuple", 0, Backs(v))
<1>1. ToITF(v) = t
  BY ReadyIs, ToITFIs
<1>2. t \in Levels(Documents)[n] /\ t \in Document /\ Decoded(t) = Backs(v) /\ t.kind = "#tup"
  BY NodeReturns, JsonIs DEF Documents
<1>3. Back(v) = u
  BY <1>1, <1>2, FromITFIs DEF Back, NewTuple
<1>4. u \in Levels(DOMAIN Kind)[n]
  <2>1. "tuple" \in DOMAIN Kind /\ n \in 1..MaxNesting
    BY DEF Ready, Kind
  <2>2. Backs(v) \in Seq(Levels(DOMAIN Kind)[n - 1])
    BY ReadyIs
  <2> QED
    BY <2>1, <2>2, NodeIn
<1>5. u \in Tree
  BY <1>4, ReadyIs, LevelsAreTrees DEF Tree
<1>6. u.kind = "tuple" /\ u.xs = Backs(v)
  BY DEF Value
<1> HIDE DEF t, u
<1>7. {Maplet(Denoted("int", i, {}), Meaning(u.xs[i])) : i \in DOMAIN u.xs}
        = {Maplet(Denoted("int", i, {}), Meaning(v.xs[i])) : i \in DOMAIN v.xs}
  BY <1>6, ReadyIs
<1>8. Meaning(u) = Meaning(v)
  BY <1>5, <1>6, <1>7, ReadyIs, MeaningIs
<1> QED
  BY <1>1, <1>2, <1>3, <1>4, <1>8 DEF Returns

LEMMA SetReturns ==
  ASSUME NEW v, NEW n, Ready(v, n), v.kind = "set"
  PROVE  Returns(v, n)
<1> DEFINE t == Json("#set", 0, Encoded(v))
           u == NewSet(Backs(v))
<1>1. ToITF(v) = t
  BY ReadyIs, ToITFIs
<1>2. t \in Levels(Documents)[n] /\ t \in Document /\ Decoded(t) = Backs(v) /\ t.kind = "#set"
  BY NodeReturns, JsonIs DEF Documents
<1>3. Back(v) = u
  BY <1>1, <1>2, FromITFIs DEF Back
<1>4. /\ u.kind = "set" /\ u.num = 0 /\ u.xs \in Seq(Tree) /\ Elements(u.xs) = Elements(Backs(v))
      /\ u = Value(u.kind, u.num, u.xs)
  <2>1. Backs(v) \in Seq(Tree)
    BY ReadyIs
  <2>2. NewSet(Backs(v)) = Value(NewSet(Backs(v)).kind, NewSet(Backs(v)).num, NewSet(Backs(v)).xs)
    BY DEF NewSet, Value
  <2> QED
    BY <2>1, <2>2, SetIs
<1> HIDE DEF t, u
<1>5. u \in Levels(DOMAIN Kind)[n]
  <2>1. u.xs \in Seq(Levels(DOMAIN Kind)[n - 1])
    BY <1>4, BacksIn, SeqWithin
  <2>2. "set" \in DOMAIN Kind /\ n \in 1..MaxNesting
    BY DEF Ready, Kind
  <2> QED
    BY <1>4, <2>1, <2>2, NodeIn
<1>6. u \in Tree
  BY <1>5, ReadyIs, LevelsAreTrees DEF Tree
<1>7. {Meaning(u.xs[i]) : i \in DOMAIN u.xs} = {Meaning(v.xs[i]) : i \in DOMAIN v.xs}
  <2> DEFINE b == Backs(v)
  <2>1. DOMAIN b = DOMAIN v.xs /\ \A i \in DOMAIN v.xs : Meaning(b[i]) = Meaning(v.xs[i])
    BY ReadyIs
  <2>2. \A e : e \in Elements(u.xs) <=> e \in Elements(b)
    BY <1>4
  <2> HIDE DEF b
  <2>3. \A i \in DOMAIN u.xs : \E j \in DOMAIN b : u.xs[i] = b[j]
    BY <2>2 DEF Elements
  <2>4. \A j \in DOMAIN b : \E i \in DOMAIN u.xs : u.xs[i] = b[j]
    BY <2>2 DEF Elements
  <2>5. {Meaning(u.xs[i]) : i \in DOMAIN u.xs} = {Meaning(b[j]) : j \in DOMAIN b}
    BY <2>3, <2>4
  <2> QED
    BY <2>1, <2>5
<1>8. Meaning(u) = Meaning(v)
  BY <1>4, <1>6, <1>7, ReadyIs, MeaningIs
<1> QED
  BY <1>1, <1>2, <1>3, <1>5, <1>8 DEF Returns

LEMMA EntryReturns ==
  ASSUME NEW v, NEW n, Ready(v, n), v.kind = "entry"
  PROVE  Returns(v, n)
<1> DEFINE t == Json("pair", 0, Encoded(v))
           u == Entry(Back(v.xs[1]), Back(v.xs[2]))
<1>1. ToITF(v) = t
  BY ReadyIs, ToITFIs
<1>2. t \in Levels(Documents)[n] /\ t \in Document /\ Decoded(t) = Backs(v) /\ t.kind = "pair"
  BY NodeReturns, JsonIs DEF Documents
<1>3. /\ v \in Tree /\ DOMAIN v.xs = 1..2 /\ v.xs = <<v.xs[1], v.xs[2]>>
      /\ Meaning(v) = Maplet(Meaning(v.xs[1]), Meaning(v.xs[2]))
  BY ReadyIs, MadeEntry
<1>4. Encoded(v) = <<ToITF(v.xs[1]), ToITF(v.xs[2])>>
  BY <1>3 DEF Encoded
<1>5. Backs(v) = <<Back(v.xs[1]), Back(v.xs[2])>>
  BY <1>3 DEF Backs
<1>6. Back(v) = u
  BY <1>1, <1>2, <1>5, FromITFIs DEF Back
<1>7. u = Value("entry", 0, Backs(v))
  BY <1>5 DEF Entry
<1>8. u \in Levels(DOMAIN Kind)[n]
  <2>1. "entry" \in DOMAIN Kind /\ n \in 1..MaxNesting
    BY DEF Ready, Kind
  <2>2. Backs(v) \in Seq(Levels(DOMAIN Kind)[n - 1])
    BY ReadyIs
  <2> QED
    BY <1>7, <2>1, <2>2, NodeIn
<1>9. u \in Tree
  BY <1>8, ReadyIs, LevelsAreTrees DEF Tree
<1>10. u.kind = "entry" /\ u.xs = Backs(v)
  BY <1>7 DEF Value
<1>11. \A i \in 1..2 : Meanings(u)[i] = Meaning(v.xs[i])
  BY <1>3, <1>10, ReadyIs DEF Meanings
<1> HIDE DEF t, u
<1>12. Meaning(u) = Meaning(v)
  <2>1. Meaning(u) = Maplet(Meanings(u)[1], Meanings(u)[2])
    BY <1>9, <1>10, MeaningIs
  <2> QED
    BY <1>3, <1>11, <2>1
<1> QED
  BY <1>1, <1>2, <1>4, <1>6, <1>8, <1>12 DEF Returns, t, u

LEMMA IntervalReturns ==
  ASSUME NEW v, NEW n, Ready(v, n), v.kind = "interval"
  PROVE  Returns(v, n)
<1> DEFINE lo == v.xs[1].num
           hi == v.xs[2].num
           xs == Expand(lo, hi)
           t == Json("#set", 0, xs)
           b == Decoded(t)
           u == NewSet(b)
<1>1. v \in Tree /\ WellMade(v) /\ ~TooLong(v) /\ n \in 0..MaxNesting /\ n - 1 \in 0..MaxNesting
  BY ReadyIs DEF Lasting
<1>2. DOMAIN v.xs = 1..2 /\ lo \in Int /\ hi \in Int
  BY <1>1, IntervalIs
<1>3. n - 1 \in 1..MaxNesting
  <2>1. v.xs[1] \in Levels(DOMAIN Kind)[n - 1]
    BY <1>1, <1>2, TreeLevel DEF Ready
  <2>2. n - 1 # 0
    BY <1>1, <2>1, TreeLevel
  <2> QED
    BY <1>1, <2>2
<1>4. ToITF(v) = t
  BY <1>1, ReadyIs, ToITFIs DEF TooLong
<1> HIDE DEF lo, hi
<1> DEFINE m == IF hi < lo THEN 0 ELSE hi - lo + 1
<1>5. m \in Nat /\ xs = [i \in 1..m |-> IntToITF(lo + i - 1)]
  BY <1>2 DEF Expand
<1>6. \A k : (\E i \in 1..m : k = lo + i - 1) <=> k \in lo..hi
  <2>1. \A i \in 1..m : lo + i - 1 \in lo..hi
    BY <1>2
  <2>2. ASSUME NEW k \in lo..hi PROVE k - lo + 1 \in 1..m /\ k = lo + (k - lo + 1) - 1
    BY <1>2
  <2> HIDE DEF m
  <2> QED
    BY <2>1, <2>2
<1> HIDE DEF m
<1>7. \A i \in 1..m : lo + i - 1 \in Int
  BY <1>2, <1>5
<1>8. xs \in Seq(Levels(Documents)[n - 1]) /\ DOMAIN xs = 1..m
  <2>1. \A i \in 1..m : IntToITF(lo + i - 1) \in Levels(Documents)[n - 1]
    BY <1>3, <1>7, IntReturns
  <2> QED
    BY <1>5, <2>1
<1>9. t \in Levels(Documents)[n] /\ t \in Document /\ t.kind = "#set" /\ t.xs = xs
  <2>1. "#set" \in Documents /\ n \in 1..MaxNesting
    BY DEF Documents, Ready
  <2>2. t \in Levels(Documents)[n]
    BY <1>8, <2>1, NodeIn
  <2> QED
    BY <1>1, <2>2, InDocument, JsonIs
<1> HIDE DEF t, xs
<1>10. b = [i \in 1..m |-> NewInt(lo + i - 1)]
  <2>1. b = [i \in 1..m |-> FromITF(xs[i])]
    BY <1>8, <1>9 DEF Decoded
  <2>2. \A i \in 1..m : FromITF(xs[i]) = NewInt(lo + i - 1)
    BY <1>3, <1>5, <1>7, IntReturns
  <2> HIDE DEF b
  <2> QED
    BY <2>1, <2>2
<1>11. Back(v) = u
  BY <1>4, <1>9, FromITFIs DEF Back
<1> HIDE DEF b
<1>12. \A i \in 1..m : NewInt(lo + i - 1) \in Levels(DOMAIN Kind)[n - 1]
  BY <1>3, <1>7, IntReturns
<1>13. b \in Seq(Levels(DOMAIN Kind)[n - 1]) /\ b \in Seq(Tree)
  <2>1. b \in Seq(Levels(DOMAIN Kind)[n - 1])
    <3> DEFINE S == Levels(DOMAIN Kind)[n - 1]
    <3>1. \A i \in 1..m : NewInt(lo + i - 1) \in S
      BY <1>12
    <3> HIDE DEF S
    <3>2. b \in [1..m -> S]
      BY <1>10, <3>1
    <3>3. b \in Seq(S)
      BY <1>5, <3>2
    <3> QED
      BY <3>3 DEF S
  <2>2. Levels(DOMAIN Kind)[n - 1] \subseteq Tree
    BY <1>1, LevelsAreTrees DEF Tree
  <2> QED
    BY <2>1, <2>2, SeqGrows
<1>14. /\ u.kind = "set" /\ u.num = 0 /\ u.xs \in Seq(Tree) /\ Elements(u.xs) = Elements(b)
       /\ u = Value(u.kind, u.num, u.xs)
  <2>1. NewSet(b) = Value(NewSet(b).kind, NewSet(b).num, NewSet(b).xs)
    BY DEF NewSet, Value
  <2> QED
    BY <1>13, <2>1, SetIs
<1> HIDE DEF u
<1>15. \A e : e \in Elements(b) <=> \E k \in lo..hi : e = NewInt(k)
  <2>1. \A e : e \in Elements(b) <=> \E i \in 1..m : e = NewInt(lo + i - 1)
    BY <1>10 DEF Elements
  <2> QED
    BY <1>6, <2>1
<1>16. u \in Levels(DOMAIN Kind)[n]
  <2>1. \A e \in Elements(b) : e \in Levels(DOMAIN Kind)[n - 1]
    BY <1>10, <1>12 DEF Elements
  <2>2. u.xs \in Seq(Levels(DOMAIN Kind)[n - 1])
    BY <1>14, <2>1, SeqWithin
  <2>3. "set" \in DOMAIN Kind /\ n \in 1..MaxNesting
    BY DEF Ready, Kind
  <2> QED
    BY <1>14, <2>2, <2>3, NodeIn
<1>17. u \in Tree
  BY <1>1, <1>16, LevelsAreTrees DEF Tree
<1>18. ASSUME NEW k \in lo..hi PROVE Meaning(NewInt(k)) = Denoted("int", k, {})
  <2>1. k \in Int
    BY <1>2
  <2>2. NewInt(k) \in Tree
    BY <1>1, <2>1, CompareInts
  <2>3. NewInt(k).kind = "int" /\ NewInt(k).num = k
    BY DEF NewInt, Value
  <2> QED
    BY <2>2, <2>3, MeaningIs
<1>19. {Meaning(u.xs[i]) : i \in DOMAIN u.xs} = {Denoted("int", k, {}) : k \in lo..hi}
  <2>1. \A e : e \in Elements(u.xs) <=> \E k \in lo..hi : e = NewInt(k)
    BY <1>14, <1>15
  <2>2. \A i \in DOMAIN u.xs : \E k \in lo..hi : u.xs[i] = NewInt(k)
    BY <2>1 DEF Elements
  <2>3. \A k \in lo..hi : \E i \in DOMAIN u.xs : u.xs[i] = NewInt(k)
    BY <2>1 DEF Elements
  <2> QED
    BY <1>18, <2>2, <2>3
<1>20. Meaning(u) = Meaning(v)
  BY <1>1, <1>14, <1>17, <1>19, MeaningIs DEF lo, hi
<1> QED
  BY <1>4, <1>9, <1>11, <1>16, <1>20 DEF Returns

LEMMA KeptAll ==
  ASSUME NEW n \in Nat, NEW s, s = [i \in 1..n |-> s[i]]
  PROVE  Kept(s, 1..n) = s
<1>1. \A i \in 1..n : Cardinality({j \in 1..n : j <= i}) = i
  <2> SUFFICES ASSUME NEW i \in 1..n PROVE Cardinality({j \in 1..n : j <= i}) = i
    OBVIOUS
  <2>1. {j \in 1..n : j <= i} = 1..i
    OBVIOUS
  <2>2. Cardinality(1..i) = i
    BY FS_Interval
  <2> QED
    BY <2>1, <2>2
<1>2. Cardinality(1..n) = n
  BY FS_Interval
<1>3. ASSUME NEW m \in 1..n
      PROVE  (CHOOSE i \in 1..n : Cardinality({j \in 1..n : j <= i}) = m) = m
  <2> DEFINE rank(i) == Cardinality({j \in 1..n : j <= i})
  <2>1. \A i \in 1..n : rank(i) = i
    BY <1>1
  <2> HIDE DEF rank
  <2>2. (CHOOSE i \in 1..n : rank(i) = m) = m
    BY <2>1
  <2> QED
    BY <2>2 DEF rank
<1>4. Kept(s, 1..n)
        = [m \in 1..n |-> s[CHOOSE i \in 1..n : Cardinality({j \in 1..n : j <= i}) = m]]
  BY <1>2 DEF Kept
<1> DEFINE c(m) == CHOOSE i \in 1..n : Cardinality({j \in 1..n : j <= i}) = m
<1>5. \A m \in 1..n : c(m) = m
  BY <1>3
<1>6. Kept(s, 1..n) = [m \in 1..n |-> s[c(m)]]
  BY <1>4
<1> HIDE DEF c
<1> QED
  BY <1>5, <1>6

LEMMA AlreadySorted ==
  ASSUME NEW keys \in Seq(Tree), Strictly(keys), NEW s, s = [i \in DOMAIN keys |-> s[i]]
  PROVE  Sorted(s, keys) = s
<1> DEFINE D == DOMAIN keys
           p == [i \in D |-> i]
<1>1. Arranges(p, keys)
  BY PrecedesIs DEF Arranges, Strictly
<1>2. Arrangement(keys) = p
  BY <1>1, OneArrangement
<1>3. DOMAIN s = D
  OBVIOUS
<1>4. Sorted(s, keys) = [m \in D |-> s[p[m]]]
  BY <1>2, <1>3, SortedIs
<1> QED
  BY <1>4

\* The entries of a record or function, their keys and what they stand for.
LEMMA EntriesReturn ==
  ASSUME NEW v, NEW n, Ready(v, n), v.kind \in {"record", "func"}
  PROVE  /\ v.num = 0 /\ Ascending(Keys(v.xs)) /\ (\A i \in DOMAIN v.xs : Keys(v.xs)[i] = Key(v, i))
         /\ DOMAIN Keys(v.xs) = DOMAIN v.xs /\ Keys(v.xs) \in Seq(Tree)
         /\ v.kind = "record" => \A i \in DOMAIN v.xs : Key(v, i).kind = "string"
         /\ \A i \in DOMAIN v.xs :
              /\ Fine(Key(v, i)) /\ Key(v, i) \in Tree /\ Back(Key(v, i)) \in Tree
              /\ Encoded(v)[i] = Json("pair", 0, <<ToITF(Key(v, i)), ToITF(Val(v, i))>>)
              /\ Backs(v)[i] = Entry(Back(Key(v, i)), Back(Val(v, i)))
              /\ Meanings(v)[i] = Maplet(Meaning(Key(v, i)), Meaning(Val(v, i)))
         /\ Keys(Backs(v)) = [i \in DOMAIN v.xs |-> Back(Key(v, i))]
         /\ Keys(Backs(v)) \in Seq(Tree) /\ DOMAIN Keys(Backs(v)) = DOMAIN v.xs
<1>1. /\ v \in Tree /\ WellMade(v) /\ DOMAIN v.xs = 1..Len(v.xs) /\ Len(v.xs) \in Nat
      /\ Backs(v) \in Seq(Tree) /\ DOMAIN Backs(v) = DOMAIN v.xs
  BY ReadyIs
<1>2. /\ \A i \in DOMAIN v.xs : v.xs[i].kind = "entry"
      /\ Ascending(Keys(v.xs)) /\ v.num = 0
      /\ v.kind = "record" => \A i \in DOMAIN v.xs : Key(v, i).kind = "string"
  BY <1>1 DEF WellMade, Key
<1>3. ASSUME NEW i \in DOMAIN v.xs
      PROVE  /\ Fine(Key(v, i)) /\ Key(v, i) \in Tree /\ Back(Key(v, i)) \in Tree
             /\ Encoded(v)[i] = Json("pair", 0, <<ToITF(Key(v, i)), ToITF(Val(v, i))>>)
             /\ Backs(v)[i] = Entry(Back(Key(v, i)), Back(Val(v, i)))
             /\ Meanings(v)[i] = Maplet(Meaning(Key(v, i)), Meaning(Val(v, i)))
  <2> DEFINE e == v.xs[i]
             b == Backs(v)[i]
  <2>1. e \in Tree /\ e.kind = "entry" /\ Fine(e) /\ Returns(e, n - 1)
    BY <1>1, <1>2, TreeIs, FineIs DEF Ready
  <2>2. Encoded(v)[i] = ToITF(e) /\ b = Back(e) /\ Meanings(v)[i] = Meaning(e) /\ b \in Tree
    BY <1>1 DEF Encoded, Backs, Meanings
  <2>3. Key(v, i) = e.xs[1] /\ Val(v, i) = e.xs[2]
    BY DEF Key, Val
  <2> HIDE DEF e, b
  <2>4. WellMade(e)
    BY <2>1, FineIs
  <2>5. /\ DOMAIN e.xs = 1..2 /\ e.xs[1] \in Tree
        /\ Meaning(e) = Maplet(Meaning(e.xs[1]), Meaning(e.xs[2]))
    BY <2>1, <2>4, MadeEntry
  <2>6. Fine(e.xs[1])
    BY <2>1, <2>5, FineIs
  <2>7. /\ ToITF(e) = Json("pair", 0, <<ToITF(e.xs[1]), ToITF(e.xs[2])>>)
        /\ Back(e) = Entry(Back(e.xs[1]), Back(e.xs[2]))
    BY <2>1 DEF Returns
  <2>8. Back(e.xs[1]) \in Tree
    <3>1. b.xs = <<Back(e.xs[1]), Back(e.xs[2])>>
      BY <2>2, <2>7, EntryIs
    <3>2. 1 \in DOMAIN b.xs /\ b.xs[1] = Back(e.xs[1])
      BY <3>1
    <3> QED
      BY <2>2, <3>2, TreeIs
  <2> QED
    BY <2>2, <2>3, <2>5, <2>6, <2>7, <2>8 DEF b
<1>4. \A i \in DOMAIN v.xs : Keys(v.xs)[i] = Key(v, i)
  BY DEF Keys, Key
<1>5. DOMAIN Keys(v.xs) = DOMAIN v.xs /\ Keys(v.xs) = [i \in DOMAIN v.xs |-> v.xs[i].xs[1]]
  BY DEF Keys
<1>6. \A i \in DOMAIN v.xs : Keys(v.xs)[i] \in Tree
  BY <1>3, <1>4
<1>7. Keys(v.xs) \in Seq(Tree)
  <2> DEFINE ks == Keys(v.xs)
  <2>1. ks = [i \in 1..Len(v.xs) |-> ks[i]] /\ \A i \in 1..Len(v.xs) : ks[i] \in Tree
    BY <1>1, <1>5, <1>6
  <2> HIDE DEF ks
  <2>1a. ks \in [1..Len(v.xs) -> Tree]
    BY <2>1
  <2>2. ks \in Seq(Tree)
    BY <1>1, <2>1a
  <2> QED
    BY <2>2 DEF ks
<1>8. Keys(Backs(v)) = [i \in DOMAIN v.xs |-> Back(Key(v, i))]
  <2>1. Keys(Backs(v)) = [i \in DOMAIN v.xs |-> Backs(v)[i].xs[1]]
    BY <1>1 DEF Keys
  <2>2. ASSUME NEW i \in DOMAIN v.xs PROVE Backs(v)[i].xs[1] = Back(Key(v, i))
    <3> DEFINE k == Back(Key(v, i))
               w == Back(Val(v, i))
    <3>1. Backs(v)[i] = Entry(k, w)
      BY <1>3
    <3> HIDE DEF k, w
    <3>2. Backs(v)[i].xs[1] = k
      BY <3>1, EntryIs
    <3> QED
      BY <3>2 DEF k
  <2> QED
    BY <2>1, <2>2
<1>9. Keys(Backs(v)) \in Seq(Tree) /\ DOMAIN Keys(Backs(v)) = DOMAIN v.xs
  <2> DEFINE ks == Keys(Backs(v))
  <2>1. ks = [i \in 1..Len(v.xs) |-> Back(Key(v, i))] /\ \A i \in 1..Len(v.xs) : Back(Key(v, i)) \in Tree
    BY <1>1, <1>3, <1>8
  <2> HIDE DEF ks
  <2>2. ks \in Seq(Tree) /\ DOMAIN ks = DOMAIN v.xs
    BY <1>1, <2>1
  <2> QED
    BY <2>2 DEF ks
<1> QED
  BY <1>2, <1>3, <1>4, <1>5, <1>7, <1>8, <1>9

LEMMA RecordReturns ==
  ASSUME NEW v, NEW n, Ready(v, n), v.kind = "record"
  PROVE  Returns(v, n)
<1> DEFINE xs == Encoded(v)
           b == Backs(v)
           t == Json("object", 0, xs)
           u == Value("record", 0, b)
           D == DOMAIN v.xs
<1>1. /\ v \in Tree /\ ~HasTwice(v) /\ D = 1..Len(v.xs) /\ Len(v.xs) \in Nat
      /\ ToITF(v) = Object(xs) /\ DOMAIN xs = D
  BY ReadyIs, ToITFIs DEF Lasting, Overwritten, Encoded
<1>2. /\ Ascending(Keys(v.xs)) /\ (\A i \in D : Keys(v.xs)[i] = Key(v, i))
      /\ DOMAIN Keys(v.xs) = D /\ Keys(v.xs) \in Seq(Tree)
      /\ (\A i \in D : Key(v, i).kind = "string" /\ Fine(Key(v, i)) /\ Key(v, i) \in Tree)
      /\ (\A i \in D : xs[i] = Json("pair", 0, <<ToITF(Key(v, i)), ToITF(Val(v, i))>>))
      /\ Keys(b) = [i \in D |-> Back(Key(v, i))]
  BY EntriesReturn
<1>3. ASSUME NEW i \in D
      PROVE  /\ Back(Key(v, i)) = Key(v, i) /\ Key(v, i).xs = <<>>
             /\ xs[i].xs[1] = Json("string", Key(v, i).num, <<>>)
  <2> DEFINE k == Key(v, i)
  <2>1. k \in Tree /\ k.kind = "string" /\ WellMade(k)
    BY <1>2, FineIs
  <2>2. xs[i].xs[1] = ToITF(k)
    <3> DEFINE pair == <<ToITF(k), ToITF(Val(v, i))>>
    <3>1. xs[i].xs = pair
      <4>1. xs[i] = Json("pair", 0, pair)
        BY <1>2
      <4> HIDE DEF pair, xs
      <4> QED
        BY <4>1, JsonIs
    <3> HIDE DEF xs
    <3> QED
      BY <3>1
  <2> HIDE DEF k, xs
  <2>3. k.xs = <<>>
    BY <2>1 DEF WellMade
  <2>4. MaxNesting \in 1..MaxNesting /\ k \in Levels(DOMAIN Kind)[MaxNesting]
    BY <2>1, NestingAssumption, LevelZero DEF Tree, Trees
  <2>5. Back(k) = k /\ ToITF(k) = Json("string", k.num, <<>>)
    BY <2>1, <2>4, AtomReturns
  <2> QED
    BY <2>2, <2>3, <2>5 DEF k
<1>4. \A i, j \in D : i # j => xs[i].xs[1] # xs[j].xs[1]
  <2> SUFFICES ASSUME NEW i \in D, NEW j \in D, xs[i].xs[1] = xs[j].xs[1] PROVE i = j
    OBVIOUS
  <2>1. Json("string", Key(v, i).num, <<>>) = Json("string", Key(v, j).num, <<>>)
    BY <1>3
  <2>2. Key(v, i).num = Key(v, j).num
    BY <2>1, JsonIs
  <2>3. Key(v, i) = Key(v, j)
    BY <1>2, <1>3, <2>2, SameTree
  <2> QED
    BY <1>1, <2>3 DEF HasTwice, Key
<1>5. Object(xs) = t
  <2> DEFINE P == {i \in DOMAIN xs : \A j \in i + 1 .. Len(xs) : xs[j].xs[1] # xs[i].xs[1]}
  <2>1. xs = [i \in 1..Len(v.xs) |-> xs[i]] /\ Len(xs) = Len(v.xs)
    BY <1>1 DEF Encoded
  <2> HIDE DEF xs
  <2>2. \A i \in D : \A j \in i + 1 .. Len(xs) : j \in D /\ j # i
    BY <1>1, <2>1
  <2>3. P = 1..Len(v.xs)
    BY <1>1, <1>4, <2>2
  <2>4. Object(xs) = Json("object", 0, Kept(xs, P))
    BY DEF Object
  <2> HIDE DEF P
  <2>5. Kept(xs, P) = xs
    BY <1>1, <2>1, <2>3, KeptAll
  <2> QED
    BY <2>4, <2>5
<1>6. t \in Levels(Documents)[n] /\ t \in Document /\ Decoded(t) = b /\ t.kind = "object"
  BY NodeReturns, JsonIs DEF Documents
<1>7. Strictly(Keys(v.xs))
  <2> SUFFICES ASSUME NEW i \in D, NEW j \in D, i < j
               PROVE  Compare(Keys(v.xs)[i], Keys(v.xs)[j]) < 0
    BY <1>2 DEF Strictly
  <2>1. Compare(Keys(v.xs)[i], Keys(v.xs)[j]) <= 0
    BY <1>2 DEF Ascending
  <2>2. i # j
    BY <1>1
  <2> DEFINE k == Key(v, i)
             l == Key(v, j)
  <2>3. k # l
    BY <1>1, <2>2 DEF HasTwice, Key
  <2>4. k \in Tree /\ l \in Tree /\ Keys(v.xs)[i] = k /\ Keys(v.xs)[j] = l
    BY <1>2
  <2> HIDE DEF k, l
  <2>5. Opposite(k, l)
    BY <2>4, CompareOpposite
  <2> QED
    BY <2>1, <2>3, <2>4, <2>5 DEF Opposite
<1>8. Keys(b) = Keys(v.xs)
  <2>1. Keys(v.xs) = [i \in D |-> Key(v, i)]
    BY DEF Keys, Key
  <2> QED
    BY <1>2, <1>3, <2>1
<1>9. Sorted(b, Keys(b)) = b
  <2>1. b = [i \in DOMAIN Keys(v.xs) |-> b[i]]
    BY <1>2 DEF Backs
  <2> HIDE DEF b
  <2> QED
    BY <1>2, <1>7, <1>8, <2>1, AlreadySorted
<1>10. Back(v) = u
  <2>1. Back(v) = NewRecord(b)
    BY <1>1, <1>5, <1>6, FromITFIs DEF Back
  <2> QED
    BY <1>9, <2>1 DEF NewRecord
<1>11. u \in Levels(DOMAIN Kind)[n]
  <2>1. "record" \in DOMAIN Kind /\ n \in 1..MaxNesting
    BY DEF Ready, Kind
  <2>2. b \in Seq(Levels(DOMAIN Kind)[n - 1])
    BY ReadyIs
  <2> QED
    BY <2>1, <2>2, NodeIn
<1>12. u \in Tree
  BY <1>11, ReadyIs, LevelsAreTrees DEF Tree
<1>13. u.kind = "record" /\ u.xs = b
  BY DEF Value
<1>14. Meanings(u) = Meanings(v)
  <2>1. DOMAIN b = D /\ \A i \in D : Meaning(b[i]) = Meaning(v.xs[i])
    BY ReadyIs
  <2> HIDE DEF b, u
  <2> QED
    BY <1>13, <2>1 DEF Meanings
<1> HIDE DEF t, u
<1>15. Meaning(u) = Meaning(v)
  <2> DEFINE F(ms) == Denoted("function", 0, {ms[i] : i \in Counting(ms)})
  <2>1. Meaning(u) = F(Meanings(u))
    BY <1>12, <1>13, MeaningIs
  <2>2. Meaning(v) = F(Meanings(v))
    BY <1>1, MeaningIs
  <2> HIDE DEF F
  <2> QED
    BY <1>14, <2>1, <2>2
<1> QED
  BY <1>1, <1>5, <1>6, <1>10, <1>11, <1>15 DEF Returns

\* Moving maplets, those with one key in their order, does not change which
\* of them count.
Keeps(p, ms) == \A a, b \in DOMAIN ms :
                  a < b /\ From(ms[p[a]]) = From(ms[p[b]]) => p[a] < p[b]

Counted(maplets) == {maplets[i] : i \in Counting(maplets)}
Moved(ms, p, n)  == [m \in 1..n |-> ms[p[m]]]

LEMMA SameCount ==
  ASSUME NEW n \in Nat, NEW ms, DOMAIN ms = 1..n, NEW p, Onto(p, 1..n), Keeps(p, ms)
  PROVE  Counted(Moved(ms, p, n)) = Counted(ms)
<1> DEFINE D == 1..n
           ns == [m \in D |-> ms[p[m]]]
<1>1. /\ \A m \in D : p[m] \in D /\ ns[m] = ms[p[m]]
      /\ \A i \in D : \E m \in D : p[m] = i
  BY DEF Onto
<1>2. DOMAIN ns = D
  OBVIOUS
<1>3. \A f : DOMAIN f = D =>
        \A i \in D : i \in Counting(f) <=> \A j \in D : j < i => From(f[j]) # From(f[i])
  <2> SUFFICES ASSUME NEW f, DOMAIN f = D, NEW i \in D
               PROVE  i \in Counting(f) <=> \A j \in D : j < i => From(f[j]) # From(f[i])
    OBVIOUS
  <2>1. \A j : j \in 1..(i - 1) <=> j \in D /\ j < i
    OBVIOUS
  <2> HIDE DEF D
  <2> QED
    BY <2>1 DEF Counting
<1>4. D \subseteq Int
  OBVIOUS
<1>5. \A f : Counting(f) \subseteq DOMAIN f
  BY DEF Counting
<1> HIDE DEF ns
<1>6. \A m \in D : p[m] \in Counting(ms) => m \in Counting(ns)
  <2> SUFFICES ASSUME NEW m \in D, p[m] \in Counting(ms), NEW l \in D, l < m,
                      From(ns[l]) = From(ns[m])
               PROVE  FALSE
    BY <1>2, <1>3
  <2>1. p[l] < p[m] /\ From(ms[p[l]]) = From(ms[p[m]]) /\ p[l] \in D /\ p[m] \in D
    BY <1>1 DEF Keeps
  <2> QED
    BY <1>3, <2>1
<1>7. \A m \in D : m \in Counting(ns) => p[m] \in Counting(ms)
  <2> SUFFICES ASSUME NEW m \in D, m \in Counting(ns), NEW j \in D, j < p[m],
                      From(ms[j]) = From(ms[p[m]])
               PROVE  FALSE
    BY <1>1, <1>3
  <2>1. PICK l \in D : p[l] = j
    BY <1>1
  <2>2. p[m] \in D /\ p[l] \in D
    BY <1>1
  <2>3. From(ns[l]) = From(ns[m])
    BY <1>1, <2>1
  <2>4. ~(l < m)
    BY <1>2, <1>3, <2>3
  <2>5. ~(m < l)
    BY <1>4, <2>1, <2>2 DEF Keeps
  <2>6. l # m
    BY <1>4, <2>1, <2>2
  <2> QED
    BY <1>4, <2>4, <2>5, <2>6
<1> HIDE DEF D
<1>8. {ns[m] : m \in Counting(ns)} = {ms[i] : i \in Counting(ms)}
  <2>1. ASSUME NEW m \in Counting(ns) PROVE \E i \in Counting(ms) : ns[m] = ms[i]
    BY <1>1, <1>2, <1>5, <1>7
  <2>2. ASSUME NEW i \in Counting(ms) PROVE \E m \in Counting(ns) : ns[m] = ms[i]
    <3>1. i \in D
      BY <1>5 DEF D
    <3>2. PICK m \in D : p[m] = i
      BY <1>1, <3>1
    <3> QED
      BY <1>1, <1>6, <3>2
  <2> QED
    BY <2>1, <2>2
<1> QED
  BY <1>8 DEF ns, D, Counted, Moved

LEMMA FuncReturns ==
  ASSUME NEW v, NEW n, Ready(v, n), v.kind = "func"
  PROVE  Returns(v, n)
<1> DEFINE b == Backs(v)
           keys == Keys(b)
           p == Arrangement(keys)
           s == Sorted(b, keys)
           t == Json("#map", 0, Encoded(v))
           u == Value("func", 0, s)
           ms == Meanings(v)
           D == DOMAIN v.xs
           l == Len(v.xs)
<1>1. /\ v \in Tree /\ D = 1..l /\ l \in Nat /\ ~Reordered(v) /\ ToITF(v) = t
      /\ b \in Seq(Tree) /\ DOMAIN b = D /\ \A i \in D : Meaning(b[i]) = Meaning(v.xs[i])
  BY ReadyIs, ToITFIs DEF Lasting
<1>2. /\ \A i \in D : Back(Key(v, i)) \in Tree /\ ms[i] = Maplet(Meaning(Key(v, i)), Meaning(Val(v, i)))
      /\ keys = [i \in D |-> Back(Key(v, i))]
      /\ keys \in Seq(Tree) /\ DOMAIN keys = D
  BY EntriesReturn
<1>3. t \in Levels(Documents)[n] /\ t \in Document /\ Decoded(t) = b /\ t.kind = "#map"
  BY NodeReturns, JsonIs DEF Documents
<1>4. Back(v) = u
  BY <1>1, <1>3, FromITFIs DEF Back, NewFunc
<1>5. DOMAIN ms = D /\ \A i \in D : ms[i] = Meaning(v.xs[i])
  BY DEF Meanings
<1>6. u.kind = "func" /\ u.xs = s
  BY DEF Value
<1>7. Elements(b) \subseteq Levels(DOMAIN Kind)[n - 1]
  BY BacksIn
<1>8. \A i, j \in D : i < j /\ Meaning(Key(v, i)) = Meaning(Key(v, j)) =>
                        ~(Compare(Back(Key(v, i)), Back(Key(v, j))) > 0)
  BY <1>1 DEF Reordered, Key, Back
<1> HIDE DEF b, keys, p, s, ms, D, l
<1>9. /\ s \in Seq(Tree) /\ DOMAIN s = D /\ Elements(s) = Elements(b)
      /\ \A m \in D : p[m] \in D /\ s[m] = b[p[m]]
  <2>1. keys \in Seq(Tree) /\ DOMAIN b = DOMAIN keys /\ b \in Seq(Tree)
    BY <1>1, <1>2
  <2>2. /\ Sorted(b, keys) \in Seq(Tree) /\ DOMAIN Sorted(b, keys) = DOMAIN keys
        /\ Elements(Sorted(b, keys)) = Elements(b)
        /\ \A m \in DOMAIN keys : /\ Arrangement(keys)[m] \in DOMAIN keys
                                  /\ Sorted(b, keys)[m] = b[Arrangement(keys)[m]]
    BY <2>1, SortedElements
  <2> QED
    BY <1>2, <2>2 DEF s, p
<1>10. Onto(p, D) /\ \A i, j \in D : i < j => Precedes(keys, p[i], p[j])
  BY <1>2, ArrangementIs DEF Arranges, Onto, p
<1>11. \A i, j \in D : p[i] = p[j] => i = j
  BY <1>2, <1>10, OntoIsOneToOne
<1>12. u \in Levels(DOMAIN Kind)[n]
  <2>1. "func" \in DOMAIN Kind /\ n \in 1..MaxNesting
    BY DEF Ready, Kind
  <2>2. s \in Seq(Levels(DOMAIN Kind)[n - 1])
    BY <1>7, <1>9, SeqWithin
  <2> QED
    BY <2>1, <2>2, NodeIn
<1>13. u \in Tree
  BY <1>12, ReadyIs, LevelsAreTrees DEF Tree
<1> HIDE DEF t, u
<1>14. Meanings(u) = [m \in D |-> ms[p[m]]]
  <2>1. \A m \in D : Meaning(s[m]) = ms[p[m]]
    BY <1>1, <1>5, <1>9
  <2> QED
    BY <1>6, <1>9, <2>1 DEF Meanings
<1>15. Keeps(p, ms)
  <2> SUFFICES ASSUME NEW i \in D, NEW j \in D, i < j, From(ms[p[i]]) = From(ms[p[j]])
               PROVE  p[i] < p[j]
    BY <1>5 DEF Keeps
  <2> DEFINE a == p[i]
             c == p[j]
             k1 == Back(Key(v, a))
             k2 == Back(Key(v, c))
  <2>1. a \in D /\ c \in D /\ Precedes(keys, a, c)
    BY <1>9, <1>10
  <2>2. Meaning(Key(v, a)) = Meaning(Key(v, c))
    BY <1>2, <2>1, MapletIs
  <2>3. i \in Int /\ j \in Int /\ a \in Int /\ c \in Int
    BY <1>1, <2>1
  <2>4. a # c
    BY <1>11, <2>3
  <2>5. Compare(keys[a], keys[c]) < 0 \/ a < c
    BY <1>2, <2>1, PrecedesIs
  <2>6. keys[a] = k1 /\ keys[c] = k2 /\ k1 \in Tree /\ k2 \in Tree
    BY <1>2, <2>1
  <2>7. c < a => ~(Compare(k2, k1) > 0)
    BY <1>8, <2>1, <2>2
  <2> HIDE DEF a, c, k1, k2
  <2>8. Opposite(k1, k2)
    BY <2>6, CompareOpposite
  <2>9. a < c
    BY <2>3, <2>4, <2>5, <2>6, <2>7, <2>8 DEF Opposite
  <2> QED
    BY <2>9 DEF a, c
<1>16. Counted(Moved(ms, p, l)) = Counted(ms)
  BY <1>1, <1>5, <1>10, <1>15, SameCount
<1>17. Meaning(u) = Meaning(v)
  <2> DEFINE F(f) == Denoted("function", 0, Counted(f))
  <2>1. Meaning(u) = F(Meanings(u))
    BY <1>6, <1>13, MeaningIs DEF Counted
  <2>2. Meaning(v) = F(ms)
    BY <1>1, MeaningIs DEF ms, Counted
  <2>3. Meanings(u) = Moved(ms, p, l)
    BY <1>1, <1>14 DEF Moved
  <2>4. F(Moved(ms, p, l)) = F(ms)
    BY <1>16
  <2> HIDE DEF F
  <2> QED
    BY <2>1, <2>2, <2>3, <2>4
<1> QED
  BY <1>1, <1>3, <1>4, <1>12, <1>17 DEF Returns

LEMMA EveryReturns ==
  \A n \in 0..MaxNesting : \A v \in Levels(DOMAIN Kind)[n] : Fine(v) => Returns(v, n)
<1> USE NestingAssumption
<1> DEFINE L(k) == Levels(DOMAIN Kind)[k]
           U == {k \in 0..MaxNesting : \A v \in L(k) : Fine(v) => Returns(v, k)}
<1>1. 0 \in U
  BY LevelZero
<1>2. ASSUME NEW k \in 1..MaxNesting, k - 1 \in U PROVE k \in U
  <2>1. k \in 0..MaxNesting
    OBVIOUS
  <2>2. ASSUME NEW v \in L(k), Fine(v) PROVE Returns(v, k)
    <3>1. v \in Tree
      BY <2>1, LevelsAreTrees DEF Tree
    <3>2. \A i \in DOMAIN v.xs : v.xs[i] \in L(k - 1)
      BY <2>1, TreeLevel
    <3>3. \A i \in DOMAIN v.xs : Fine(v.xs[i])
      BY <2>2, <3>1, FineIs
    <3> HIDE DEF L
    <3>4. \A i \in DOMAIN v.xs : Returns(v.xs[i], k - 1)
      BY <1>2, <3>2, <3>3
    <3> USE DEF L
    <3>5. Ready(v, k)
      BY <2>2, <3>4 DEF Ready
    <3>6. WellMade(v) /\ ~Renamed(v)
      BY <2>2, <3>1, FineIs DEF Lasting
    <3>7. v.kind \in {"bool", "int", "string"} => Returns(v, k)
      <4> SUFFICES ASSUME v.kind \in {"bool", "int", "string"} PROVE Returns(v, k)
        OBVIOUS
      <4>1. ToITF(v) \in Levels(Documents)[k] /\ Back(v) = v
        BY <3>6, AtomReturns
      <4> QED
        BY <4>1 DEF Returns
    <3>8. v.kind \in DOMAIN Kind /\ v.kind # "model"
      BY <3>1, <3>6, TreeIs DEF Renamed
    <3>9. v.kind \in {"bool", "int", "string", "interval", "set", "tuple", "record", "func", "entry"}
      BY <3>8 DEF Kind
    <3> QED
      BY <3>5, <3>7, <3>9, IntervalReturns, SetReturns, TupleReturns, RecordReturns, FuncReturns,
         EntryReturns
  <2> QED
    BY <2>1, <2>2
<1>3. \A k \in 0..MaxNesting : k \in U
  <2> HIDE DEF U
  <2> QED
    BY <1>1, <1>2, UpTo
<1> QED
  BY <1>3

LEMMA KeepsItsMeaning ==
  ASSUME NEW v \in Tree, Fine(v) PROVE Meaning(FromITF(ToITF(v))) = Meaning(v)
<1>1. v \in Levels(DOMAIN Kind)[MaxNesting] /\ MaxNesting \in 0..MaxNesting
  BY NestingAssumption DEF Tree, Trees
<1>2. Returns(v, MaxNesting)
  BY <1>1, EveryReturns
<1> QED
  BY <1>2 DEF Returns, Back

LEMMA InvKeepsTheBehaviour == IInv => ITFKeepsTheBehaviour
<1> DEFINE AllParts == Parts(x) \cup Parts(y)
           Lost(v)  == Renamed(v) \/ Overwritten(v) \/ Reordered(v)
           endings == {<<NoLoop, FALSE>>, <<0, FALSE>>, <<1, FALSE>>, <<NoLoop, TRUE>>}
<1> SUFFICES ASSUME IInv, NEW ending \in endings
             PROVE  LET t == Trace(<<x, y>>, ending[1], ending[2]) IN
                    /\ Encodable(t) <=> \A part \in AllParts : ~TooLong(part)
                    /\ Encodable(t) /\ (\A part \in AllParts : ~Lost(part)) =>
                         (StandsFor(TraceFromITF(TraceToITF(t))) = StandsFor(t) <=> ~t.stuttering)
  BY DEF ITFKeepsTheBehaviour
<1> DEFINE t == Trace(<<x, y>>, ending[1], ending[2])
           back == TraceFromITF(TraceToITF(t))
<1>1. /\ x \in Tree /\ y \in Tree /\ AllWellMade(x) /\ AllWellMade(y)
  BY ValueIs DEF IInv
<1>2. /\ t.states = <<x, y>> /\ t.loop = ending[1] /\ t.stuttering = ending[2]
      /\ DOMAIN t.states = 1..2 /\ Len(t.states) = 2 /\ t.states[1] = x /\ t.states[2] = y
  BY DEF Trace
<1>3. \/ ending[1] = -1 /\ ending[2] = FALSE
      \/ ending[1] = 0 /\ ending[2] = FALSE
      \/ ending[1] = 1 /\ ending[2] = FALSE
      \/ ending[1] = -1 /\ ending[2] = TRUE
  <2>1. CASE ending = <<NoLoop, FALSE>>
    BY <2>1 DEF NoLoop
  <2>2. CASE ending = <<0, FALSE>>
    BY <2>2
  <2>3. CASE ending = <<1, FALSE>>
    BY <2>3
  <2>4. CASE ending = <<NoLoop, TRUE>>
    BY <2>4 DEF NoLoop
  <2> QED
    BY <2>1, <2>2, <2>3, <2>4
<1>4. Encodable(t) <=> \A part \in AllParts : ~TooLong(part)
  <2>1. Encodable(t) <=> ToITF(x) # Failed /\ ToITF(y) # Failed
    BY <1>2 DEF Encodable
  <2> QED
    BY <1>1, <2>1, Encodes DEF NoLong
<1>5. /\ back.states = [i \in 1..2 |-> FromITF(ToITF(t.states[i]))]
      /\ back.loop = t.loop /\ back.stuttering = FALSE
  <2> DEFINE doc == TraceToITF(t)
  <2>1. /\ doc.states = [i \in 1..2 |-> ToITF(t.states[i])]
        /\ doc.loop = IF t.loop >= 0 THEN <<t.loop>> ELSE <<>>
    BY <1>2 DEF TraceToITF
  <2>2. DOMAIN doc.states = 1..2 /\ \A i \in 1..2 : doc.states[i] = ToITF(t.states[i])
    BY <2>1
  <2>3. (IF doc.loop = <<>> THEN NoLoop ELSE doc.loop[1]) = t.loop
    <3>1. t.loop \in {-1, 0, 1}
      BY <1>2, <1>3, Zenon
    <3>2. doc.loop = IF t.loop >= 0 THEN <<t.loop>> ELSE <<>>
      BY <2>1
    <3> HIDE DEF doc, t
    <3>3. CASE t.loop = -1
      <4>1. doc.loop = <<>>
        BY <3>2, <3>3
      <4> QED
        BY <3>3, <4>1 DEF NoLoop
    <3>4. CASE t.loop \in {0, 1}
      <4>1. doc.loop = <<t.loop>>
        BY <3>2, <3>4
      <4>2. doc.loop # <<>> /\ doc.loop[1] = t.loop
        BY <4>1
      <4> QED
        BY <4>2
    <3> QED
      BY <3>1, <3>3, <3>4
  <2> HIDE DEF doc, t
  <2>4. /\ back.states = [i \in DOMAIN doc.states |-> FromITF(doc.states[i])]
        /\ back.loop = (IF doc.loop = <<>> THEN NoLoop ELSE doc.loop[1])
        /\ back.stuttering = FALSE
    BY DEF TraceFromITF, Trace, doc
  <2>5. [i \in DOMAIN doc.states |-> FromITF(doc.states[i])] = [i \in 1..2 |-> FromITF(ToITF(t.states[i]))]
    BY <2>2
  <2> QED
    BY <2>3, <2>4, <2>5
<1>6. ASSUME Encodable(t), \A part \in AllParts : ~Lost(part)
      PROVE  StandsFor(back) = StandsFor(t) <=> ~t.stuttering
  <2>1. Fine(x) /\ Fine(y)
    BY <1>1, <1>4, <1>6 DEF Fine, AllWellMade, Lasting
  <2>2. \A i \in 1..2 : Meaning(FromITF(ToITF(t.states[i]))) = Meaning(t.states[i])
    <3>1. Meaning(FromITF(ToITF(x))) = Meaning(x) /\ Meaning(FromITF(ToITF(y))) = Meaning(y)
      BY <1>1, <2>1, KeepsItsMeaning
    <3>2. \A i \in 1..2 : i = 1 \/ i = 2
      OBVIOUS
    <3> QED
      BY <1>2, <3>1, <3>2
  <2> HIDE DEF t, back
  <2> DEFINE ss == [i \in 1..2 |-> Meaning(t.states[i])]
  <2>3. DOMAIN back.states = 1..2 /\ \A i \in 1..2 : Meaning(back.states[i]) = Meaning(t.states[i])
    BY <1>5, <2>2
  <2>4. [i \in DOMAIN back.states |-> Meaning(back.states[i])] = ss
    BY <2>3
  <2>5. [i \in DOMAIN t.states |-> Meaning(t.states[i])] = ss
    BY <1>2
  <2> HIDE DEF ss
  <2>6. StandsFor(back) = [states |-> ss, back |-> t.loop]
    BY <1>5, <2>4 DEF StandsFor
  <2>7. StandsFor(t) = [states |-> ss, back |-> IF t.stuttering THEN 1 ELSE t.loop]
    BY <1>2, <2>5 DEF StandsFor
  <2>8. [states |-> ss, back |-> t.loop] = [states |-> ss, back |-> IF t.stuttering THEN 1 ELSE t.loop]
          <=> t.loop = IF t.stuttering THEN 1 ELSE t.loop
    <3> DEFINE r(k) == [states |-> ss, back |-> k]
    <3>1. \A k : r(k).back = k
      OBVIOUS
    <3> HIDE DEF r
    <3>2. \A k, m : r(k) = r(m) <=> k = m
      BY <3>1
    <3> QED
      BY <3>2 DEF r
  <2> QED
    BY <1>2, <1>3, <2>6, <2>7, <2>8
<1> HIDE DEF back
<1> QED
  BY <1>4, <1>6 DEF back

\* GUIDE.md:268-273, traces as ITF JSON "and back": a trace of values of any
\* depth comes back as the behaviour it stood for, unless it ends in
\* stuttering or has a part that the property names.
THEOREM ITFKeepsBehaviour == Spec => []ITFKeepsTheBehaviour
BY SpecInv, InvKeepsTheBehaviour, PTL
=============================================================================
