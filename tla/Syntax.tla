------------------------------- MODULE Syntax -------------------------------
(***************************************************************************)
(* rust/src/ast.rs and token.rs (ast/ast.go and token/ops.go are the same  *)
(* design): expression trees, and the table of operator precedences that   *)
(* the printer and the parser share.  A tree is a node with its children;  *)
(* a bound is one name, x, in one set.                                     *)
(***************************************************************************)
EXTENDS Naturals, Sequences

Node(kind, op, children) == [kind |-> kind, op |-> op, xs |-> children]

Ident(name)    == Node("ident", name, <<>>)
Number(lit)    == Node("number", lit, <<>>)
Str(lit)       == Node("string", lit, <<>>)
Bool(lit)      == Node("bool", lit, <<>>)
OpRef(op)      == Node("opref", op, <<>>)
Unary(op, x)   == Node("unary", op, <<x>>)
Binary(op, l, r) == Node("binary", op, <<l, r>>)
Postfix(op, x) == Node("postfix", op, <<x>>)
Paren(x)       == Node("paren", "", <<x>>)
Field(name, x) == Node("field", name, <<x>>)
-----------------------------------------------------------------------------
OpInfo(lo, hi, assoc) == [lo |-> lo, hi |-> hi, assoc |-> assoc]

\* InfixOps, and \X with them: one operator for every entry of the table
\* that differs in more than its spelling, two where conflicts need them.
OpTable ==
  [op \in {"=>", "<=>", "/\\", "\\/", "=", "\\in", "\\cdot", "@@", ":>", "\\", "\\cup",
           "..", "!!", "\\uplus", "+", "\\X", "%", "||", "-", "*", "/", "\\wr", "^"} |->
     CASE op = "=>"             -> OpInfo(1, 1, FALSE)
       [] op = "<=>"            -> OpInfo(2, 2, FALSE)
       [] op \in {"/\\", "\\/"} -> OpInfo(3, 3, TRUE)
       [] op \in {"=", "\\in"}  -> OpInfo(5, 5, FALSE)
       [] op = "\\cdot"         -> OpInfo(5, 14, TRUE)
       [] op = "@@"             -> OpInfo(6, 6, TRUE)
       [] op = ":>"             -> OpInfo(7, 7, FALSE)
       [] op = "\\"             -> OpInfo(8, 8, FALSE)
       [] op = "\\cup"          -> OpInfo(8, 8, TRUE)
       [] op = ".."             -> OpInfo(9, 9, FALSE)
       [] op = "!!"             -> OpInfo(9, 13, FALSE)
       [] op = "\\uplus"        -> OpInfo(9, 13, TRUE)
       [] op = "+"              -> OpInfo(10, 10, TRUE)
       [] op = "\\X"            -> OpInfo(10, 13, TRUE)
       [] op = "%"              -> OpInfo(10, 11, FALSE)
       [] op = "||"             -> OpInfo(10, 11, TRUE)
       [] op = "-"              -> OpInfo(11, 11, TRUE)
       [] op = "*"              -> OpInfo(13, 13, TRUE)
       [] op = "/"              -> OpInfo(13, 13, FALSE)
       [] op = "\\wr"           -> OpInfo(9, 14, FALSE)
       [] op = "^"              -> OpInfo(14, 14, FALSE)]

InfixOps == DOMAIN OpTable \ {"\\X"}

PrefixTable ==
  [op \in {"~", "[]", "<>", "UNCHANGED", "SUBSET", "DOMAIN", "-"} |->
     CASE op = "~"      -> OpInfo(4, 4, FALSE)
       [] op = "SUBSET" -> OpInfo(8, 8, FALSE)
       [] op = "DOMAIN" -> OpInfo(9, 9, FALSE)
       [] op = "-"      -> OpInfo(12, 12, FALSE)
       [] OTHER         -> OpInfo(4, 15, FALSE)]

PrefixOps == DOMAIN PrefixTable

PostfixTable == [op \in {"'", "^+"} |-> OpInfo(15, 15, FALSE)]

PostfixOps == DOMAIN PostfixTable

PrecApply == 16
PrecDot   == 17

Overlaps(a, b) == a.lo <= b.hi /\ b.lo <= a.hi
-----------------------------------------------------------------------------
\* The tree without the Paren nodes, which only record how it was written.
RECURSIVE Bare(_)
Bare(e) == IF e.kind = "paren" THEN Bare(e.xs[1])
           ELSE [e EXCEPT !.xs = [i \in DOMAIN e.xs |-> Bare(e.xs[i])]]

RECURSIVE Depth(_)
Depth(e) == IF e.xs = <<>> THEN 0
            ELSE LET ds == {Depth(e.xs[i]) : i \in DOMAIN e.xs}
                 IN  (IF e.kind = "field" THEN 0 ELSE 1) + CHOOSE d \in ds : \A c \in ds : c <= d

\* The subtrees, the tree itself included.
RECURSIVE Subtrees(_)
Subtrees(e) == {e} \cup UNION {Subtrees(e.xs[i]) : i \in DOMAIN e.xs}
=============================================================================
