------------------------------- MODULE Values -------------------------------
(***************************************************************************)
(* rust/src/value.rs (value/value.go is the same design): values, their    *)
(* constructors and their order.  A value is a kind, a number (of a name,  *)
(* for a string and for a model value: their order is that of the names)   *)
(* and its parts.  What recurses over values is a recursive function on    *)
(* the trees of at most MaxNesting levels.                                 *)
(***************************************************************************)
EXTENDS Integers, Sequences, FiniteSets

CONSTANT MaxNesting  \* bound on the levels of a value

ASSUME NestingAssumption == MaxNesting \in Nat

Value(kind, num, xs) == [kind |-> kind, num |-> num, xs |-> xs]

NewBool(b)         == Value("bool", IF b THEN 1 ELSE 0, <<>>)
NewInt(n)          == Value("int", n, <<>>)
NewString(s)       == Value("string", s, <<>>)
NewModelValue(m)   == Value("model", m, <<>>)
NewInterval(lo, hi) == Value("interval", 0, <<NewInt(lo), NewInt(hi)>>)
NewTuple(elems)    == Value("tuple", 0, elems)

\* A maplet of a function; a field, whose key is a string, of a record.
Entry(key, val) == Value("entry", 0, <<key, val>>)

Failed == Value("error", 0, <<>>)

Kind == [bool |-> 0, int |-> 1, string |-> 2, model |-> 3, interval |-> 4,
         set |-> 5, tuple |-> 6, record |-> 7, func |-> 8, entry |-> 9]

\* For each number of levels, the trees with no more than that.
Levels(kinds) ==
  LET upTo[n \in 0..MaxNesting] ==
        IF n = 0 THEN {} ELSE [kind: kinds, num: Int, xs: Seq(upTo[n - 1])]
  IN  upTo

Trees(kinds) == Levels(kinds)[MaxNesting]

Tree == Trees(DOMAIN Kind)
-----------------------------------------------------------------------------
Least(S) == CHOOSE i \in S : \A j \in S : i <= j

\* The first parts that differ decide, then the lengths.
CompareSlices(order, s, t) ==
  LET differ == {i \in DOMAIN s \cap DOMAIN t : order[<<s[i], t[i]>>] # 0} IN
  IF differ = {} THEN Len(s) - Len(t)
  ELSE order[<<s[Least(differ)], t[Least(differ)]>>]

CompareBy(order, a, b) ==
  IF a.kind # b.kind THEN Kind[a.kind] - Kind[b.kind]
  ELSE IF a.num # b.num THEN a.num - b.num
  ELSE CompareSlices(order, a.xs, b.xs)

Comparison[pair \in Tree \X Tree] == CompareBy(Comparison, pair[1], pair[2])

\* Mutant: intervals are ordered by their lower ends.
CompareLow(a, b) ==
  IF a.kind = "interval" /\ b.kind = "interval" THEN Comparison[<<a.xs[1], b.xs[1]>>]
  ELSE Comparison[<<a, b>>]

\* Negative, zero or positive, by kind and then by content.
Compare(a, b) == Comparison[<<a, b>>]

\* sort.SliceStable: elements whose keys are equal stay in their order.
Precedes(keys, i, j) ==
  LET c == Compare(keys[i], keys[j]) IN c < 0 \/ (c = 0 /\ i < j)

Place(keys, i) == Cardinality({j \in DOMAIN keys : Precedes(keys, j, i)})

Sorted(s, keys) ==
  [n \in DOMAIN s |-> s[CHOOSE i \in DOMAIN s : Place(keys, i) = n - 1]]

\* The elements at these places.
Kept(s, places) ==
  [n \in 1..Cardinality(places) |->
     s[CHOOSE i \in places : Cardinality({j \in places : j <= i}) = n]]

\* Mutant: elements are sorted and all kept.
NewSetOfAll(elems) == Value("set", 0, Sorted(elems, elems))

NewSet(elems) ==
  LET s == Sorted(elems, elems) IN
  Value("set", 0, Kept(s, {i \in DOMAIN s : i = 1 \/ Compare(s[i - 1], s[i]) # 0}))

Keys(entries) == [i \in DOMAIN entries |-> entries[i].xs[1]]

\* Neither looks for two entries with one key.
NewRecord(fields) == Value("record", 0, Sorted(fields, Keys(fields)))

NewFunc(entries) == Value("func", 0, Sorted(entries, Keys(entries)))
-----------------------------------------------------------------------------
\* The value and all its parts.
Contents[v \in Tree] == {v} \cup UNION {Contents[v.xs[i]] : i \in DOMAIN v.xs}

Parts(v) == Contents[v]

(***************************************************************************)
(* The reference: the TLA+ value that a value stands for.  Tuples, records *)
(* and functions are functions, and of two entries with one key the first  *)
(* counts, as in f @@ g.  Sets and functions are sets of denotations.      *)
(***************************************************************************)
Denoted(tag, num, els) == [tag |-> tag, num |-> num, els |-> els]

Maplet(key, val) ==
  Denoted("maplet", 0, {Denoted("from", 0, {key}), Denoted("to", 0, {val})})

From(maplet) == {e \in maplet.els : e.tag = "from"}

\* The maplets with no earlier one for the same key.
Counting(maplets) ==
  {i \in DOMAIN maplets : \A j \in 1..(i - 1) : From(maplets[j]) # From(maplets[i])}

DenotedBy(meaning, v) ==
  LET ms == [i \in DOMAIN v.xs |-> meaning[v.xs[i]]] IN
  CASE v.kind \in {"bool", "int", "string", "model"} -> Denoted(v.kind, v.num, {})
    [] v.kind = "interval" ->
         Denoted("set", 0, {Denoted("int", n, {}) : n \in v.xs[1].num .. v.xs[2].num})
    [] v.kind = "set" -> Denoted("set", 0, {ms[i] : i \in DOMAIN ms})
    [] v.kind = "tuple" ->
         Denoted("function", 0, {Maplet(Denoted("int", i, {}), ms[i]) : i \in DOMAIN ms})
    [] v.kind = "entry" -> Maplet(ms[1], ms[2])
    [] v.kind \in {"record", "func"} -> Denoted("function", 0, {ms[i] : i \in Counting(ms)})

Denotation[v \in Tree] == DenotedBy(Denotation, v)

Meaning(v) == Denotation[v]
=============================================================================
