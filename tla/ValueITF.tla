------------------------------ MODULE ValueITF ------------------------------
(***************************************************************************)
(* rust/src/value.rs, to_itf and from_itf, and trace.rs (value/itf.go and  *)
(* trace/trace.go are the same design): values and traces as ITF           *)
(* documents.  A JSON tree is a node with its parts: a literal, an array   *)
(* under one of the keys #tup, #set and #map, or an object with its        *)
(* members.                                                                *)
(***************************************************************************)
EXTENDS Values

CONSTANTS
  MaxSafe,       \* maxSafeITFInt: integers beyond it are strings in #bigint
  MaxExpansion   \* maxIntervalExpansion

ASSUME ITFAssumption == MaxSafe \in Nat /\ MaxExpansion \in Nat

Json(kind, num, xs) == [kind |-> kind, num |-> num, xs |-> xs]

Document == Trees({"bool", "number", "#bigint", "string", "#set", "#tup", "pair",
                   "object", "#map"})

IntToITF(n) == IF n \in -MaxSafe .. MaxSafe THEN Json("number", n, <<>>)
               ELSE Json("#bigint", n, <<>>)

\* A map from names: the last of two fields with one name stays.
Object(fields) ==
  Json("object", 0,
       Kept(fields, {i \in DOMAIN fields :
                       \A j \in i + 1 .. Len(fields) : fields[j].xs[1] # fields[i].xs[1]}))

\* Mutant: the upper end is left out.
ExpandExclusive(lo, hi) == IF hi <= lo THEN <<>> ELSE [i \in 1..(hi - lo) |-> IntToITF(lo + i - 1)]

Expand(lo, hi) == IF hi < lo THEN <<>> ELSE [i \in 1..(hi - lo + 1) |-> IntToITF(lo + i - 1)]

ITFBy(itf, v) ==
  LET xs == [i \in DOMAIN v.xs |-> itf[v.xs[i]]]
      lo == v.xs[1].num
      hi == v.xs[2].num
  IN  IF \E i \in DOMAIN xs : xs[i] = Failed THEN Failed
      ELSE CASE v.kind = "bool"  -> Json("bool", v.num, <<>>)
             [] v.kind = "int"   -> IntToITF(v.num)
             [] v.kind \in {"string", "model"} -> Json("string", v.num, <<>>)
             [] v.kind = "set"   -> Json("#set", 0, xs)
             [] v.kind = "tuple" -> Json("#tup", 0, xs)
             [] v.kind = "entry" -> Json("pair", 0, xs)
             [] v.kind = "record" -> Object(xs)
             [] v.kind = "func"  -> Json("#map", 0, xs)
             [] v.kind = "interval" ->
                  IF hi - lo > MaxExpansion THEN Failed ELSE Json("#set", 0, Expand(lo, hi))

Encoding[v \in Tree] == ITFBy(Encoding, v)

ToITF(v) == Encoding[v]

ValueBy(value, t) ==
  LET vs == [i \in DOMAIN t.xs |-> value[t.xs[i]]] IN
  CASE t.kind = "bool"   -> NewBool(t.num = 1)
    [] t.kind \in {"number", "#bigint"} -> NewInt(t.num)
    [] t.kind = "string" -> NewString(t.num)
    [] t.kind = "#set"   -> NewSet(vs)
    [] t.kind = "#tup"   -> NewTuple(vs)
    [] t.kind = "pair"   -> Entry(vs[1], vs[2])
    [] t.kind = "object" -> NewRecord(vs)
    [] t.kind = "#map"   -> NewFunc(vs)

Decoding[t \in Document] == ValueBy(Decoding, t)

FromITF(t) == Decoding[t]
-----------------------------------------------------------------------------
\* A trace of one variable: its value in each state, the 0-based state that
\* a lasso returns to, and whether it ends in stuttering.
NoLoop == -1

Trace(states, loop, stuttering) ==
  [states |-> states, loop |-> loop, stuttering |-> stuttering]

\* The document's loop is a pointer: absent, or one number.
TraceToITF(t) ==
  [states |-> [i \in DOMAIN t.states |-> ToITF(t.states[i])],
   loop   |-> IF t.loop >= 0 THEN <<t.loop>> ELSE <<>>]

TraceFromITF(doc) ==
  Trace([i \in DOMAIN doc.states |-> FromITF(doc.states[i])],
        IF doc.loop = <<>> THEN NoLoop ELSE doc.loop[1], FALSE)

Encodable(t) == \A i \in DOMAIN t.states : ToITF(t.states[i]) # Failed
=============================================================================
