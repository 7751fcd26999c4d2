----------------------------- MODULE ValueText ------------------------------
(***************************************************************************)
(* rust/src/value.rs (value/value.go is the same design): values as TLA+   *)
(* text, the tokens that Display prints, and parse_value, by which tlc.rs  *)
(* reads the states of a counterexample.                                   *)
(***************************************************************************)
EXTENDS Values, TLC

P == INSTANCE Parser

Names   == <<"a", "b">>
Strings == <<"\"a\"", "\"b\"">>

RECURSIVE Joined(_, _)
Joined(parts, sep) ==
  IF Len(parts) <= 1 THEN IF parts = <<>> THEN <<>> ELSE parts[1]
  ELSE parts[1] \o <<sep>> \o Joined(Tail(parts), sep)

IntText(n) == IF n < 0 THEN <<"-", ToString(-n)>> ELSE <<ToString(n)>>

RECURSIVE Text(_)
Text(v) ==
  LET parts == [i \in DOMAIN v.xs |-> Text(v.xs[i])] IN
  CASE v.kind = "bool"   -> <<IF v.num = 1 THEN "TRUE" ELSE "FALSE">>
    [] v.kind = "int"    -> IntText(v.num)
    [] v.kind = "string" -> <<Strings[v.num]>>
    [] v.kind = "model"  -> <<Names[v.num]>>
    [] v.kind = "interval" -> Joined(parts, "..")
    [] v.kind = "set"    -> <<"{">> \o Joined(parts, ",") \o <<"}">>
    [] v.kind = "tuple"  -> <<"<<">> \o Joined(parts, ",") \o <<">>">>
    [] v.kind = "record" ->
         LET Field(f) == <<Names[f.xs[1].num], "|->">> \o Text(f.xs[2]) IN
         <<"[">> \o Joined([i \in DOMAIN v.xs |-> Field(v.xs[i])], ",") \o <<"]">>
    [] v.kind = "entry"  -> Joined(parts, ":>")
    [] v.kind = "func"   -> IF v.xs = <<>> THEN <<"<<", ">>">>
                            ELSE <<"(">> \o Joined(parts, "@@") \o <<")">>

IndexOf(s, lit) == CHOOSE i \in DOMAIN s : s[i] = lit

\* A bound or an operand that must be an integer, or a function.
AllOf(kind, vs) == \A i \in DOMAIN vs : vs[i].kind = kind

\* Mutant: the entries of the right operand come first.
MergeRightFirst(l, r) == NewFunc(r.xs \o l.xs)

Merge(l, r) == NewFunc(l.xs \o r.xs)

RECURSIVE FromExpr(_)
FromExpr(e) ==
  LET vs == [i \in DOMAIN e.xs |-> FromExpr(e.xs[i])] IN
  CASE Failed \in {vs[i] : i \in DOMAIN vs} -> Failed
    [] e.kind = "paren"   -> vs[1]
    [] e.kind = "bool"    -> NewBool(e.op = "TRUE")
    [] e.kind = "string"  -> NewString(IndexOf(Strings, e.op))
    [] e.kind = "number"  -> NewInt(CHOOSE n \in 0..9 : ToString(n) = e.op)
    [] e.kind = "ident"   -> NewModelValue(IndexOf(Names, e.op))
    [] e.kind = "unary" /\ e.op = "-" /\ AllOf("int", vs) -> NewInt(-vs[1].num)
    [] e.kind = "setenum" -> NewSet(vs)
    [] e.kind = "tuple"   -> NewTuple(vs)
    [] e.kind = "field"   -> Entry(NewString(IndexOf(Names, e.op)), vs[1])
    [] e.kind = "record"  -> NewRecord(vs)
    [] e.kind = "binary" /\ e.op = ".." /\ AllOf("int", vs) ->
         NewInterval(vs[1].num, vs[2].num)
    [] e.kind = "binary" /\ e.op = ":>" -> NewFunc(<<Entry(vs[1], vs[2])>>)
    [] e.kind = "binary" /\ e.op = "@@" /\ AllOf("func", vs) -> Merge(vs[1], vs[2])
    [] OTHER -> Failed

\* ParseValueExpr and FromExpr.
Parse(text) ==
  FromExpr(P!Parsed([i \in 1..(Len(text) + 1) |->
                       IF i <= Len(text) THEN [lit |-> text[i], col |-> 1]
                       ELSE [lit |-> "EOF", col |-> 0]]))
=============================================================================
