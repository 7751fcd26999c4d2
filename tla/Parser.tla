------------------------------- MODULE Parser -------------------------------
(***************************************************************************)
(* rust/src/parser.rs, parse_expr (parser/parser.go is the same design):   *)
(* recursive descent over the tokens of one expression, with an operator's *)
(* precedence range deciding what it absorbs, and the columns of bullets   *)
(* deciding where the items of a junction list end.  The stack of bullet   *)
(* columns (jcol) is only read at its top, which is passed down here: 0    *)
(* when there is none.                                                     *)
(***************************************************************************)
EXTENDS Syntax

\* Names and literals of the expressions: the IDENT, NUMBER and STRING tokens.
Names   == {"a", "b", "x", "d", "f", "g", "F", "M"}
Numbers == {"0", "1", "2", "3"}
Strings == {"\"a\"", "\"b\""}

\* A parse: the tree read so far and the next token, or an error.
At(e, i) == [e |-> e, at |-> i]

ParseError == At(Node("error", "", <<>>), 0)

Then(r, Next(_)) == IF r.at = 0 THEN ParseError ELSE Next(r)

\* p.expect, after what has been read.
Expect(ts, r, lit) == IF r.at # 0 /\ ts[r.at].lit = lit THEN At(r.e, r.at + 1)
                      ELSE ParseError

ExpectName(ts, r) == IF r.at # 0 /\ ts[r.at].lit \in Names THEN At(r.e, r.at + 1)
                     ELSE ParseError

Looking(ts, i, lits) == i < Len(ts) /\ ts[i].lit \in lits

\* blocked: at or left of the innermost bullet's column (EOF is in column 0).
Blocked(ts, i, jcol) == jcol # 0 /\ ts[i].col <= jcol

\* Mutant: two operators of one range may be mixed.
ConflictsUnlessEqual(prev, op) ==
  /\ prev # "" /\ prev # op
  /\ Overlaps(OpTable[prev], OpTable[op])
  /\ OpTable[prev].lo # OpTable[op].lo

\* op after prev on one level: their ranges overlap and it is not a chain.
Conflicts(prev, op) ==
  /\ prev # ""
  /\ Overlaps(OpTable[prev], OpTable[op])
  /\ ~(OpTable[op].assoc /\ op = prev)

RECURSIVE ParseExpr(_, _, _, _), ParsePrimary(_, _, _), Absorb(_, _, _, _, _),
          ParseList(_, _, _), ParseFactors(_, _, _), ParseItems(_, _, _, _),
          ParseArms(_, _, _), ParseDefs(_, _, _)
-----------------------------------------------------------------------------
\* parseExpr: a primary, and the operators with lo > min that follow it.
ParseExpr(ts, i, min, jcol) == Absorb(ts, ParsePrimary(ts, i, jcol), "", min, jcol)

\* A binary operator and its right operand.
AbsorbInfix(ts, r, prev, min, jcol) ==
  Then(ParseExpr(ts, r.at + 1, OpTable[ts[r.at].lit].hi, jcol),
       LAMBDA rhs : Absorb(ts, At(Binary(ts[r.at].lit, r.e, rhs.e), rhs.at),
                           ts[r.at].lit, min, jcol))

Absorb(ts, r, prev, min, jcol) ==
  IF r.at = 0 \/ Blocked(ts, r.at, jcol) THEN r
  ELSE LET op == ts[r.at].lit IN
    CASE op = "." /\ PrecDot > min ->
           Then(ExpectName(ts, At(0, r.at + 1)),
                LAMBDA f : Absorb(ts, At(Node("dot", ts[r.at + 1].lit, <<r.e>>), f.at),
                                  prev, min, jcol))
      [] op = "[" /\ PrecApply > min ->
           Then(Expect(ts, ParseExpr(ts, r.at + 1, 0, jcol), "]"),
                LAMBDA arg : Absorb(ts, At(Node("fnapply", "", <<r.e, arg.e>>), arg.at),
                                    prev, min, jcol))
      [] op \in PostfixOps /\ PostfixTable[op].lo > min ->
           Absorb(ts, At(Postfix(op, r.e), r.at + 1), prev, min, jcol)
      [] op = "\\X" /\ OpTable[op].lo > min ->
           IF Conflicts(prev, op) THEN ParseError
           ELSE Then(ParseFactors(ts, At(<<r.e>>, r.at), jcol),
                     LAMBDA fs : Absorb(ts, At(Node("times", "", fs.e), fs.at),
                                        op, min, jcol))
      [] op \in InfixOps /\ OpTable[op].lo > min ->
           IF Conflicts(prev, op) THEN ParseError ELSE AbsorbInfix(ts, r, prev, min, jcol)
      [] OTHER -> r

ParseFactors(ts, r, jcol) ==
  IF ~Looking(ts, r.at, {"\\X"}) \/ Blocked(ts, r.at, jcol) THEN r
  ELSE Then(ParseExpr(ts, r.at + 1, OpTable["\\X"].hi, jcol),
            LAMBDA f : ParseFactors(ts, At(Append(r.e, f.e), f.at), jcol))

\* e, e, ... : the tree is a sequence here.
ParseList(ts, r, jcol) ==
  Then(ParseExpr(ts, r.at, 0, jcol),
       LAMBDA e : IF Looking(ts, e.at, {","})
                  THEN ParseList(ts, At(Append(r.e, e.e), e.at + 1), jcol)
                  ELSE At(Append(r.e, e.e), e.at))

\* parseJunction: an item after each bullet in the first one's column.
ParseItems(ts, i, items, jcol) ==
  Then(ParseExpr(ts, i + 1, 0, ts[i].col),
       LAMBDA e : IF ts[e.at].lit = ts[i].lit /\ ts[e.at].col = ts[i].col
                  THEN ParseItems(ts, e.at, Append(items, e.e), jcol)
                  ELSE At(Node("junction", ts[i].lit, Append(items, e.e)), e.at))

\* parseName: a name, M!name, or an application.
ParseName(ts, i, jcol) ==
  IF Looking(ts, i + 1, {"!"}) /\ Looking(ts, i + 2, Names)
  THEN At(Node("qualified", ts[i + 2].lit, <<>>), i + 3)
  ELSE IF ~Looking(ts, i + 1, {"("}) THEN At(Ident(ts[i].lit), i + 1)
  ELSE Then(Expect(ts, ParseList(ts, At(<<>>, i + 2), jcol), ")"),
            LAMBDA args : At(Node("apply", ts[i].lit, args.e), args.at))

\* x \in S, the set read as an operand of \in.
ParseBound(ts, i, jcol) ==
  IF Looking(ts, i, Names) /\ Looking(ts, i + 1, {"\\in"})
  THEN ParseExpr(ts, i + 2, OpTable["\\in"].hi, jcol) ELSE ParseError

BoundAhead(ts, i) == Looking(ts, i, Names) /\ Looking(ts, i + 1, {"\\in"})

\* filterBound and filterAhead: the expression before the colon is x \in S,
\* and what follows the colon does not look like a bound.
IsFilter(ts, first) ==
  /\ first.e.kind = "binary" /\ first.e.op = "\\in" /\ first.e.xs[1].kind = "ident"
  /\ ~BoundAhead(ts, first.at + 1)

ParseBrace(ts, i, jcol) ==
  IF Looking(ts, i + 1, {"}"}) THEN At(Node("setenum", "", <<>>), i + 2)
  ELSE Then(ParseExpr(ts, i + 1, 0, jcol), LAMBDA first :
    IF Looking(ts, first.at, {":"}) /\ IsFilter(ts, first)
    THEN Then(Expect(ts, ParseExpr(ts, first.at + 1, 0, jcol), "}"),
              LAMBDA p : At(Node("filter", first.e.xs[1].op, <<first.e.xs[2], p.e>>), p.at))
    ELSE IF Looking(ts, first.at, {":"})
    THEN Then(Expect(ts, ParseBound(ts, first.at + 1, jcol), "}"),
              LAMBDA s : At(Node("map", ts[first.at + 1].lit, <<first.e, s.e>>), s.at))
    ELSE Then(Expect(ts, IF Looking(ts, first.at, {","})
                         THEN ParseList(ts, At(<<first.e>>, first.at + 1), jcol)
                         ELSE At(<<first.e>>, first.at), "}"),
              LAMBDA es : At(Node("setenum", "", es.e), es.at)))

\* parseSubscript: a name with selections, a tuple, or parentheses.
RECURSIVE Selections(_, _)
Selections(ts, r) ==
  IF ~Looking(ts, r.at, {"."}) THEN r
  ELSE Then(ExpectName(ts, At(Node("dot", ts[r.at + 1].lit, <<r.e>>), r.at + 1)),
            LAMBDA s : Selections(ts, s))

ParseSubscript(ts, i, jcol) ==
  CASE Looking(ts, i, Names)  -> Selections(ts, At(Ident(ts[i].lit), i + 1))
    [] Looking(ts, i, {"<<", "("}) -> ParsePrimary(ts, i, jcol)
    [] OTHER -> ParseError

Subscripted(ts, r, kind, jcol) ==
  Then(ParseSubscript(ts, r.at + 1, jcol),
       LAMBDA s : At(Node(kind, "", <<r.e, s.e>>), s.at))

\* What follows the first expression inside brackets.
AfterFirst(ts, r, jcol) ==
  CASE Looking(ts, r.at, {"EXCEPT"}) ->
         Then(Expect(ts, Expect(ts, At(0, r.at + 1), "!"), "["), LAMBDA p :
         Then(Expect(ts, Expect(ts, ParseExpr(ts, p.at, 0, jcol), "]"), "="), LAMBDA idx :
         Then(Expect(ts, ParseExpr(ts, idx.at, 0, jcol), "]"), LAMBDA v :
              At(Node("except", "", <<r.e, idx.e, v.e>>), v.at))))
    [] Looking(ts, r.at, {"->"}) ->
         Then(Expect(ts, ParseExpr(ts, r.at + 1, 0, jcol), "]"),
              LAMBDA rng : At(Node("funcset", "", <<r.e, rng.e>>), rng.at))
    [] Looking(ts, r.at, {"]_"}) -> Subscripted(ts, r, "square", jcol)
    [] OTHER -> ParseError

\* The fields of a record, name |-> e, or of a set of records, name : e.
RECURSIVE Fields(_, _, _, _)
Fields(ts, r, sep, jcol) ==
  Then(Expect(ts, ExpectName(ts, r), sep), LAMBDA name :
  Then(ParseExpr(ts, name.at, 0, jcol), LAMBDA e :
    LET fields == Append(r.e, Field(ts[r.at].lit, e.e)) IN
    IF Looking(ts, e.at, {","}) THEN Fields(ts, At(fields, e.at + 1), sep, jcol)
    ELSE Expect(ts, At(fields, e.at), "]")))

\* parseBracket: a record, a function whose bound is tried first, or an
\* expression and what follows it.
ParseBracket(ts, i, jcol) ==
  CASE Looking(ts, i + 1, Names) /\ Looking(ts, i + 2, {"|->", ":"}) ->
         Then(Fields(ts, At(<<>>, i + 1), ts[i + 2].lit, jcol),
              LAMBDA fs : At(Node(IF ts[i + 2].lit = ":" THEN "recordset" ELSE "record",
                                  "", fs.e), fs.at))
    [] BoundAhead(ts, i + 1) ->
         Then(ParseBound(ts, i + 1, jcol), LAMBDA s :
           IF Looking(ts, s.at, {"|->"})
           THEN Then(Expect(ts, ParseExpr(ts, s.at + 1, 0, jcol), "]"),
                     LAMBDA e : At(Node("funclit", ts[i + 1].lit, <<s.e, e.e>>), e.at))
           ELSE Then(ParseExpr(ts, i + 1, 0, jcol), LAMBDA e : AfterFirst(ts, e, jcol)))
    [] OTHER -> Then(ParseExpr(ts, i + 1, 0, jcol), LAMBDA e : AfterFirst(ts, e, jcol))

ParseTuple(ts, i, jcol) ==
  IF Looking(ts, i + 1, {">>"}) THEN At(Node("tuple", "", <<>>), i + 2)
  ELSE Then(ParseList(ts, At(<<>>, i + 1), jcol), LAMBDA es :
         IF Looking(ts, es.at, {">>_"}) /\ Len(es.e) = 1
         THEN Subscripted(ts, At(es.e[1], es.at), "angle", jcol)
         ELSE Then(Expect(ts, es, ">>"), LAMBDA r : At(Node("tuple", "", r.e), r.at)))

\* parseCase: the arms after the first CASE or [], and OTHER.
ParseArms(ts, r, jcol) ==
  IF Looking(ts, r.at, {"OTHER"})
  THEN Then(Expect(ts, At(0, r.at + 1), "->"), LAMBDA o :
         Then(ParseExpr(ts, o.at, 0, jcol),
              LAMBDA v : At(Node("case", "", Append(r.e, v.e)), v.at)))
  ELSE Then(Expect(ts, ParseExpr(ts, r.at, 0, jcol), "->"), LAMBDA c :
         Then(ParseExpr(ts, c.at, 0, jcol), LAMBDA v :
           IF Looking(ts, v.at, {"[]"}) /\ ~Blocked(ts, v.at, jcol)
           THEN ParseArms(ts, At(r.e \o <<c.e, v.e>>, v.at + 1), jcol)
           ELSE At(Node("case", "", r.e \o <<c.e, v.e>>), v.at)))

ParseDefs(ts, r, jcol) ==
  CASE Looking(ts, r.at, {"IN"}) ->
         Then(ParseExpr(ts, r.at + 1, 0, jcol),
              LAMBDA e : At(Node("let", "", Append(r.e, e.e)), e.at))
    [] Looking(ts, r.at, Names) ->
         Then(Expect(ts, At(0, r.at + 1), "=="), LAMBDA d :
           Then(ParseExpr(ts, d.at, 0, jcol),
                LAMBDA e : ParseDefs(ts, At(Append(r.e, e.e), e.at), jcol)))
    [] OTHER -> ParseError

ParseIf(ts, i, jcol) ==
  Then(Expect(ts, ParseExpr(ts, i + 1, 0, jcol), "THEN"), LAMBDA c :
  Then(Expect(ts, ParseExpr(ts, c.at, 0, jcol), "ELSE"), LAMBDA t :
  Then(ParseExpr(ts, t.at, 0, jcol), LAMBDA e :
       At(Node("if", "", <<c.e, t.e, e.e>>), e.at))))

\* \A, \E and CHOOSE: a bound, a colon and a body.
ParseBinder(ts, i, kind, set, jcol) ==
  Then(Expect(ts, set, ":"), LAMBDA s :
    Then(ParseExpr(ts, s.at, 0, jcol),
         LAMBDA e : At(Node(kind, ts[i + 1].lit, <<s.e, e.e>>), e.at)))

ParsePrimary(ts, i, jcol) ==
  IF Blocked(ts, i, jcol) THEN ParseError
  ELSE LET t == ts[i].lit IN
    CASE t \in {"/\\", "\\/"} -> ParseItems(ts, i, <<>>, jcol)
      [] t \in Names -> ParseName(ts, i, jcol)
      [] t \in Numbers -> At(Number(t), i + 1)
      [] t \in Strings -> At(Str(t), i + 1)
      [] t \in {"TRUE", "FALSE"} -> At(Bool(t), i + 1)
      [] t = "(" -> Then(Expect(ts, ParseExpr(ts, i + 1, 0, jcol), ")"),
                         LAMBDA x : At(Paren(x.e), x.at))
      [] t = "{" -> ParseBrace(ts, i, jcol)
      [] t = "[" -> ParseBracket(ts, i, jcol)
      [] t = "<<" -> ParseTuple(ts, i, jcol)
      [] t \in PrefixOps -> Then(ParseExpr(ts, i + 1, PrefixTable[t].hi, jcol),
                                 LAMBDA x : At(Unary(t, x.e), x.at))
      [] t \in InfixOps \ PrefixOps -> At(OpRef(t), i + 1)
      [] t = "IF" -> ParseIf(ts, i, jcol)
      [] t = "CASE" -> ParseArms(ts, At(<<>>, i + 1), jcol)
      [] t = "LET" -> ParseDefs(ts, At(<<>>, i + 1), jcol)
      [] t \in {"\\A", "\\E"} ->
           ParseBinder(ts, i, IF t = "\\A" THEN "forall" ELSE "exists",
                       ParseBound(ts, i + 1, jcol), jcol)
      [] t = "CHOOSE" ->
           IF ~BoundAhead(ts, i + 1) THEN ParseError
           ELSE ParseBinder(ts, i, "choose", ParseExpr(ts, i + 3, 0, jcol), jcol)
      [] t = "LAMBDA" ->
           Then(Expect(ts, ExpectName(ts, At(0, i + 1)), ":"), LAMBDA p :
             Then(ParseExpr(ts, p.at, 0, jcol),
                  LAMBDA e : At(Node("lambda", ts[i + 1].lit, <<e.e>>), e.at)))
      [] t = "WF_" ->
           Then(Expect(ts, ParseSubscript(ts, i + 1, jcol), "("), LAMBDA s :
             Then(Expect(ts, ParseExpr(ts, s.at, 0, jcol), ")"),
                  LAMBDA e : At(Node("fairness", "", <<e.e, s.e>>), e.at)))
      [] OTHER -> ParseError

\* ParseExpr of package parser: the whole input, or an error.
Parsed(ts) == LET r == ParseExpr(ts, 1, 0, 0) IN
              IF r.at # 0 /\ ts[r.at].lit = "EOF" THEN r.e ELSE ParseError.e
=============================================================================
