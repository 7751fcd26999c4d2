------------------------------ MODULE Printer -------------------------------
(***************************************************************************)
(* rust/src/printer.rs, expr (ast/print.go is the same design): the text   *)
(* that is printed for a tree, its words and the columns they start at,    *)
(* which decide where junction lists end.  A tree is printed as pieces:    *)
(* strings, line breaks and subtrees.                                      *)
(***************************************************************************)
EXTENDS Syntax

Put(lit, lead, trail) == [how |-> "put", lit |-> lit, lead |-> lead, trail |-> trail]

Tight(lit)  == <<Put(lit, 0, 0)>>
Spaced(lit) == <<Put(lit, 1, 1)>>
Before(lit) == <<Put(lit, 0, 1)>>  \* followed by a space

NewLine(col) == <<[how |-> "nl", col |-> col]>>

Sub(e) == <<[how |-> "sub", e |-> e]>>

Enclosed(e) == Tight("(") \o Sub(e) \o Tight(")")
-----------------------------------------------------------------------------
Greedy(e) == e.kind \in {"junction", "if", "case", "let", "forall", "exists",
                        "choose", "lambda"}

IsOperator(e) == e.kind \in {"binary", "unary", "postfix", "times", "fnapply", "dot"}

\* exprInfo: the range of the construct at the top.
Info(e) == CASE e.kind = "binary"  -> OpTable[e.op]
             [] e.kind = "unary"   -> PrefixTable[e.op]
             [] e.kind = "postfix" -> PostfixTable[e.op]
             [] e.kind = "times"   -> OpTable["\\X"]
             [] e.kind = "fnapply" -> OpInfo(PrecApply, PrecApply, FALSE)
             [] e.kind = "dot"     -> OpInfo(PrecDot, PrecDot, FALSE)

\* Mutant: an operator at the limit of what the context absorbs goes bare.
NeedParensBeyond(child, min, sameOp) ==
  \/ Greedy(child) /\ min > 0
  \/ /\ IsOperator(child)
     /\ sameOp = "" \/ child.op # sameOp
     /\ Info(child).lo < min

NeedParens(child, min, sameOp) ==
  \/ Greedy(child) /\ min > 0
  \/ /\ IsOperator(child)
     /\ sameOp = "" \/ child.op # sameOp
     /\ Info(child).lo <= min

Operand(child, min, sameOp) ==
  IF NeedParens(child, min, sameOp) THEN Enclosed(child) ELSE Sub(child)

ChainOp(op) == IF OpTable[op].assoc THEN op ELSE ""

PostfixOperand(x) ==
  IF x.kind \in {"ident", "qualified", "apply", "fnapply", "dot", "paren", "tuple",
                 "setenum", "record", "funclit", "except", "string", "number", "postfix"}
  THEN Sub(x) ELSE Enclosed(x)

Subscript(x) == IF x.kind \in {"ident", "qualified", "tuple", "paren", "dot"}
                THEN Sub(x) ELSE Enclosed(x)

CaseArm(e) == IF Greedy(e) THEN Enclosed(e) ELSE Sub(e)

\* name \in set
BoundIn(name, set) == Tight(name) \o Spaced("\\in") \o Sub(set)

RECURSIVE Separated(_, _)
Separated(pieces, sep) ==
  IF Len(pieces) <= 1 THEN IF pieces = <<>> THEN <<>> ELSE pieces[1]
  ELSE pieces[1] \o sep \o Separated(Tail(pieces), sep)

Comma == <<Put(",", 0, 1)>>

ExprList(es) == Separated([i \in DOMAIN es |-> Sub(es[i])], Comma)

\* The fields of a record or of a set of records.
FieldList(fs, sep) ==
  Separated([i \in DOMAIN fs |-> Tight(fs[i].op) \o Spaced(sep) \o Sub(fs[i].xs[1])], Comma)

RECURSIVE ContainsMultiline(_)
ContainsMultiline(e) ==
  \/ e.kind \in {"junction", "let"}
  \/ e.kind = "case" /\ Len(e.xs) >= 6
  \/ /\ e.kind \in {"binary", "unary", "postfix", "paren", "if", "case", "square", "angle"}
     /\ \E i \in DOMAIN e.xs : (e.kind \in {"square", "angle"} => i = 1)
                               /\ ContainsMultiline(e.xs[i])
  \/ e.kind \in {"forall", "exists"} /\ ContainsMultiline(e.xs[2])
-----------------------------------------------------------------------------
JunctionPieces(e, start) ==
  Separated([i \in DOMAIN e.xs |-> Before(e.op) \o Sub(e.xs[i])], NewLine(start))

\* A keyword or a separator inside a multi-line IF or CASE: on a line of
\* its own, indented by two.
Continue(multi, start, lit) ==
  IF multi THEN NewLine(start + 2) \o Before(lit) ELSE Spaced(lit)

IfPieces(e, start) ==
  LET multi == \E i \in 1..3 : ContainsMultiline(e.xs[i]) IN
  Before("IF") \o Sub(e.xs[1]) \o Continue(multi, start, "THEN") \o Sub(e.xs[2])
    \o Continue(multi, start, "ELSE") \o Sub(e.xs[3])

\* The arms, a condition and a value each, and OTHER's value if the number
\* of children is odd.
CasePieces(e, start) ==
  LET n     == Len(e.xs) \div 2
      multi == ContainsMultiline(e)
      arm(i) == CaseArm(e.xs[2 * i - 1]) \o Spaced("->") \o CaseArm(e.xs[2 * i])
  IN  Before("CASE")
        \o Separated([i \in 1..n |-> arm(i)], Continue(multi, start, "[]"))
        \o IF Len(e.xs) = 2 * n THEN <<>>
           ELSE Continue(multi, start, "[]") \o Tight("OTHER") \o Spaced("->")
                  \o Sub(e.xs[2 * n + 1])

\* The definitions d == e one under the other, IN under LET.
LetPieces(e, start) ==
  LET n == Len(e.xs) - 1 IN
  Before("LET")
    \o Separated([i \in 1..n |-> Tight("d") \o Spaced("==") \o Sub(e.xs[i])],
                 NewLine(start + 4))
    \o NewLine(start) \o <<Put("IN", 0, 2)>> \o Sub(e.xs[n + 1])

UnaryPieces(e) ==
  (IF e.op \in {"~", "[]", "<>", "-"} THEN Tight(e.op) ELSE Before(e.op))
    \o Operand(e.xs[1], PrefixTable[e.op].hi, "")

BinaryPieces(e) ==
  LET hi == OpTable[e.op].hi IN
  Operand(e.xs[1], hi, ChainOp(e.op))
    \o (IF e.op = ".." THEN Tight("..") ELSE Spaced(e.op))
    \o Operand(e.xs[2], hi, ChainOp(e.op))

TimesPieces(e) ==
  Separated([i \in DOMAIN e.xs |-> Operand(e.xs[i], OpTable["\\X"].hi, "")], Spaced("\\X"))

Pieces(e, start) ==
  LET x == e.xs[1]
      y == e.xs[2]
  IN CASE e.kind \in {"ident", "number", "string", "bool", "opref"} -> Tight(e.op)
       [] e.kind = "qualified" -> Tight("M") \o Tight("!") \o Tight(e.op)
       [] e.kind = "apply"    -> Tight(e.op) \o Tight("(") \o ExprList(e.xs) \o Tight(")")
       [] e.kind = "unary"    -> UnaryPieces(e)
       [] e.kind = "binary"   -> BinaryPieces(e)
       [] e.kind = "postfix"  -> PostfixOperand(x) \o Tight(e.op)
       [] e.kind = "times"    -> TimesPieces(e)
       [] e.kind = "junction" -> JunctionPieces(e, start)
       [] e.kind = "paren"    -> Enclosed(x)
       [] e.kind = "fnapply"  -> PostfixOperand(x) \o Tight("[") \o Sub(y) \o Tight("]")
       [] e.kind = "dot"      -> PostfixOperand(x) \o Tight(".") \o Tight(e.op)
       [] e.kind = "tuple"    -> Tight("<<") \o ExprList(e.xs) \o Tight(">>")
       [] e.kind = "setenum"  -> Tight("{") \o ExprList(e.xs) \o Tight("}")
       [] e.kind = "filter"   -> Tight("{") \o BoundIn(e.op, x) \o Spaced(":") \o Sub(y) \o Tight("}")
       [] e.kind = "map"      -> Tight("{") \o Sub(x) \o Spaced(":") \o BoundIn(e.op, y) \o Tight("}")
       [] e.kind = "funclit"  -> Tight("[") \o BoundIn(e.op, x) \o Spaced("|->") \o Sub(y) \o Tight("]")
       [] e.kind = "funcset"  -> Tight("[") \o Sub(x) \o Spaced("->") \o Sub(y) \o Tight("]")
       [] e.kind = "record"   -> Tight("[") \o FieldList(e.xs, "|->") \o Tight("]")
       [] e.kind = "recordset" -> Tight("[") \o FieldList(e.xs, ":") \o Tight("]")
       [] e.kind = "except"   -> Tight("[") \o Sub(x) \o Spaced("EXCEPT") \o Tight("!")
                                   \o Tight("[") \o Sub(y) \o Tight("]") \o Spaced("=")
                                   \o Sub(e.xs[3]) \o Tight("]")
       [] e.kind = "square"   -> Tight("[") \o Sub(x) \o Tight("]_") \o Subscript(y)
       [] e.kind = "angle"    -> Tight("<<") \o Sub(x) \o Tight(">>_") \o Subscript(y)
       [] e.kind = "fairness" -> Tight("WF_") \o Subscript(y) \o Enclosed(x)
       [] e.kind = "if"       -> IfPieces(e, start)
       [] e.kind = "case"     -> CasePieces(e, start)
       [] e.kind = "let"      -> LetPieces(e, start)
       [] e.kind = "forall"   -> Before("\\A") \o BoundIn(e.op, x) \o Spaced(":") \o Sub(y)
       [] e.kind = "exists"   -> Before("\\E") \o BoundIn(e.op, x) \o Spaced(":") \o Sub(y)
       [] e.kind = "choose"   -> Before("CHOOSE") \o BoundIn(e.op, x) \o Spaced(":") \o Sub(y)
       [] e.kind = "lambda"   -> Before("LAMBDA") \o Tight(e.op) \o Spaced(":") \o Sub(x)
-----------------------------------------------------------------------------
Word(lit, col) == [lit |-> lit, col |-> col]

\* A piece goes on with the last word unless a space or a line break is
\* between them.
Write(words, lit, col) ==
  LET n == Len(words) IN
  IF n > 0 /\ words[n].col + Len(words[n].lit) = col
  THEN [words EXCEPT ![n].lit = @ \o lit]
  ELSE Append(words, Word(lit, col))

\* p: the words printed so far and the column of the next character.
RECURSIVE Render(_, _)
Render(p, pieces) ==
  IF pieces = <<>> THEN p
  ELSE LET piece == Head(pieces)
           q == CASE piece.how = "put" ->
                       [words |-> Write(p.words, piece.lit, p.col + piece.lead),
                        col   |-> p.col + piece.lead + Len(piece.lit) + piece.trail]
                  [] piece.how = "nl"  -> [p EXCEPT !.col = piece.col]
                  [] piece.how = "sub" -> Render(p, Pieces(piece.e, p.col))
       IN  Render(q, Tail(pieces))

ExprString(e) == Render([words |-> <<>>, col |-> 1], Pieces(e, 1)).words
=============================================================================
