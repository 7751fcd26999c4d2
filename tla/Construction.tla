---------------------------- MODULE Construction ----------------------------
(***************************************************************************)
(* Package value as its callers use it: two values are built side by side  *)
(* by the constructors, out of atoms, and are compared and exchanged as    *)
(* ITF documents, alone and as the states of a trace.                      *)
(***************************************************************************)
EXTENDS ValueITF

CONSTANTS
  Atoms,     \* values without parts and the empty ones
  Partners,  \* those of them that a construct has next to the value it grows
  MaxDepth   \* constructs around an atom, in both values together

VARIABLES x, y

vars == <<x, y>>
-----------------------------------------------------------------------------
(***************************************************************************)
(* What the constructors see to: the elements of a set are sorted and      *)
(* differ, fields and entries are sorted by their keys, a kind without     *)
(* parts has none.                                                         *)
(***************************************************************************)
Ascending(s) == \A i, j \in DOMAIN s : i < j => Compare(s[i], s[j]) <= 0

NoEntries(s) == \A i \in DOMAIN s : s[i].kind # "entry"

WellMade(v) ==
  CASE v.kind = "bool" -> v.xs = <<>> /\ v.num \in {0, 1}
    [] v.kind \in {"int", "string", "model"} -> v.xs = <<>>
    [] v.kind = "interval" -> /\ Len(v.xs) = 2 /\ v.num = 0
                              /\ \A i \in 1..2 : v.xs[i].kind = "int"
    [] v.kind = "set" -> /\ NoEntries(v.xs) /\ v.num = 0
                         /\ \A i, j \in DOMAIN v.xs : i < j => Compare(v.xs[i], v.xs[j]) < 0
    [] v.kind = "tuple" -> NoEntries(v.xs) /\ v.num = 0
    [] v.kind = "entry" -> NoEntries(v.xs) /\ Len(v.xs) = 2 /\ v.num = 0
    [] v.kind \in {"record", "func"} ->
         /\ \A i \in DOMAIN v.xs : v.xs[i].kind = "entry"
         /\ Ascending(Keys(v.xs)) /\ v.num = 0
         /\ v.kind = "record" => \A i \in DOMAIN v.xs : v.xs[i].xs[1].kind = "string"

IsValue(v) ==
  v \in Tree /\ v.kind # "entry" /\ \A part \in Parts(v) : WellMade(part)

ASSUME ConstructionAssumption ==
  Partners \subseteq Atoms /\ MaxDepth \in Nat /\ \A a \in Atoms : IsValue(a)
-----------------------------------------------------------------------------
\* What FromGo makes of a map whose entries are iterated in this order.
FromMap(entries) == NewFunc(entries)

\* What FromGo makes of a struct; a tag may give two fields one name.
FromStruct(fields) == NewRecord(fields)

A == NewString(1)
B == NewString(2)

Around(v, p) ==
  {NewSet(<<v>>), NewSet(<<v, p>>), NewTuple(<<v>>), NewTuple(<<v, p>>),
   FromStruct(<<Entry(A, v)>>), FromStruct(<<Entry(B, v), Entry(A, p)>>),
   FromStruct(<<Entry(A, v), Entry(A, p)>>),
   FromMap(<<Entry(v, p)>>), FromMap(<<Entry(p, v)>>), FromMap(<<Entry(NewInt(1), v)>>),
   FromMap(<<Entry(p, v), Entry(v, p)>>),
   FromMap(<<Entry(v, p), Entry(p, p), Entry(A, v)>>)}

Depths[v \in Tree] ==
  IF v.xs = <<>> \/ v.kind = "interval" THEN 0
  ELSE LET ds == {Depths[v.xs[i]] : i \in DOMAIN v.xs} IN
       (IF v.kind = "entry" THEN 0 ELSE 1) + CHOOSE d \in ds : \A c \in ds : c <= d

Init == x \in Atoms /\ y \in Atoms

\* MaxNesting bounds what can be built as well.
GrowX == /\ Depths[x] + Depths[y] < MaxDepth
         /\ \E p \in Partners : x' \in Around(x, p) \cap Tree
         /\ UNCHANGED y

GrowY == /\ Depths[x] + Depths[y] < MaxDepth /\ Depths[y] < Depths[x]
         /\ \E p \in Partners : y' \in Around(y, p) \cap Tree
         /\ UNCHANGED x

Next == GrowX \/ GrowY

Spec == Init /\ [][Next]_vars
-----------------------------------------------------------------------------
HasTwice(v) == \E i, j \in DOMAIN v.xs : i # j /\ v.xs[i].xs[1] = v.xs[j].xs[1]

(***************************************************************************)
(* The parts that have more than one form for what they stand for: an      *)
(* interval is also a set, a record without fields and a function over     *)
(* 1..n or over names also a tuple or a record, and of two entries with    *)
(* one key only one counts.                                                *)
(***************************************************************************)
Loose(v) ==
  \/ v.kind = "interval" \/ (v.kind = "record" /\ (v.xs = <<>> \/ HasTwice(v)))
  \/ /\ v.kind = "func"
     /\ \/ HasTwice(v)
        \/ \A i \in DOMAIN v.xs : v.xs[i].xs[1] = NewInt(i)
        \/ \A i \in DOMAIN v.xs : v.xs[i].xs[1].kind = "string"

\* rust/src/value.rs:26, "Canonical (sorted, deduped) elements" of a set:
\* two values without loose parts are Equal exactly if they stand for the
\* same TLA+ value, however they were built.
EqualMeansTheSame ==
  (\A part \in Parts(x) \cup Parts(y) : ~Loose(part)) =>
    (Compare(x, y) = 0 <=> Meaning(x) = Meaning(y))

\* The orders in which Go may iterate a map of three entries.
Orders == {order \in [1..3 -> 1..3] : \A i \in 1..3 : \E j \in 1..3 : order[j] = i}

\* Go iterates a map in any order: the function recorded for it is the same
\* one in every order, for keys of all kinds, unless two keys that Go tells
\* apart are equal values.
MapOrderIsInvisible ==
  \A p \in Partners :
    LET keys == <<x, y, p>>
        Recorded(order) == FromMap([i \in 1..3 |-> Entry(keys[order[i]], NewInt(order[i]))])
        inOrder == Recorded(<<1, 2, 3>>)
    IN  (\A i, j \in 1..3 : i < j => keys[i] # keys[j]) <=>
          (\A order \in Orders : Recorded(order) = inOrder)

\* The infinite behaviour that a counterexample stands for: its states and
\* the 0-based one that it goes back to for ever, if it is more than a prefix.
StandsFor(t) ==
  [states |-> [i \in DOMAIN t.states |-> Meaning(t.states[i])],
   back   |-> IF t.stuttering THEN Len(t.states) - 1 ELSE t.loop]

TooLong(v)  == v.kind = "interval" /\ v.xs[2].num - v.xs[1].num > MaxExpansion
Renamed(v)  == v.kind = "model"
Overwritten(v) == v.kind = "record" /\ HasTwice(v)

\* Of two keys that stand for the same value, an interval and a set in them,
\* the second comes back as the first one: FromITF sorts the entries again.
Reordered(v) ==
  LET back(key) == FromITF(ToITF(key)) IN
  /\ v.kind = "func"
  /\ \E i, j \in DOMAIN v.xs :
        LET first  == v.xs[i].xs[1]
            second == v.xs[j].xs[1]
        IN  /\ i < j /\ Meaning(first) = Meaning(second)
            /\ Compare(back(first), back(second)) > 0

\* GUIDE.md:268-273, traces as ITF JSON "and back": a trace comes back as
\* the behaviour it stood for, lassos included, unless an interval is too
\* long, a model value becomes a string, a struct has two fields of one name
\* or a function two keys that stand for the same and change places; and
\* unless it ends in stuttering, which is lost.
ITFKeepsTheBehaviour ==
  LET AllParts == Parts(x) \cup Parts(y)
      Lost(v)  == Renamed(v) \/ Overwritten(v) \/ Reordered(v)
  IN  \A ending \in {<<NoLoop, FALSE>>, <<0, FALSE>>, <<1, FALSE>>, <<NoLoop, TRUE>>} :
        LET t == Trace(<<x, y>>, ending[1], ending[2]) IN
        /\ Encodable(t) <=> \A part \in AllParts : ~TooLong(part)
        /\ Encodable(t) /\ (\A part \in AllParts : ~Lost(part)) =>
             (StandsFor(TraceFromITF(TraceToITF(t))) = StandsFor(t) <=> ~t.stuttering)
=============================================================================
