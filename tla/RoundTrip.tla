----------------------------- MODULE RoundTrip ------------------------------
(***************************************************************************)
(* rust/src/printer.rs:3, docs/PLAN.md:65: parse(print(ast)) is ast.  A    *)
(* tree is grown the way callers compose expressions (builder/builder.go   *)
(* has a function for every construct), one construct around the tree at a *)
(* time, and what the printer makes of it is parsed.  A chain of operators *)
(* without parentheses, as a person writes it, is grown beside it: the     *)
(* parser must group it as the table says, or refuse.  The same trees are  *)
(* put into the units of a module.                                         *)
(***************************************************************************)
EXTENDS Units, Integers

CONSTANTS Infix, Prefix, \* the operators that are composed
          Core,          \* those that are composed more deeply
          MaxDepth,      \* constructs around a leaf
          CoreDepth,     \* the same, with the operators in Core only
          MaxChain,      \* operators in a chain
          MaxUnits,      \* units in a module
          UnitDepth      \* constructs around a leaf in a unit's expression

ASSUME RoundTripAssumption ==
  /\ Infix \subseteq InfixOps /\ Prefix \subseteq PrefixOps
  /\ Core \subseteq Infix \cup Prefix
  /\ MaxDepth \in Nat /\ CoreDepth \in Nat /\ MaxDepth <= CoreDepth
  /\ MaxChain \in Nat /\ MaxUnits \in Nat /\ UnitDepth \in Nat

VARIABLES tree,   \* the expression built so far
          chain,  \* operators between the operands of an expression
          units   \* the units of a module

vars == <<tree, chain, units>>

a == Ident("a")
b == Ident("b")

Leaves == {a, Number("1"), Bool("TRUE"), Node("qualified", "a", <<>>)}
          \cup {OpRef(op) : op \in Infix \cup {"\\X", "**"}}

IsOperand(e) == e.kind # "opref"

OverCore(e) == \A n \in Subtrees(e) : /\ n.kind \in {"binary", "unary"} => n.op \in Core
                                      /\ n.kind \notin {"opref", "qualified", "number", "bool"}
-----------------------------------------------------------------------------
\* Every construct with e as one of its operands.
OperatorsAround(e) ==
  {Binary(op, e, b) : op \in Infix} \cup {Binary(op, b, e) : op \in Infix}
  \cup {Unary(op, e) : op \in Prefix}
  \cup {Postfix("'", e), Node("dot", "f", <<e>>), Node("paren", "", <<e>>)}
  \cup {Node("fnapply", "", <<e, b>>), Node("fnapply", "", <<b, e>>),
        Node("times", "", <<e, b>>), Node("times", "", <<b, e, b>>)}

BracketsAround(e) ==
  {Node("apply", "F", <<e>>), Node("apply", "F", <<e, b>>), Node("tuple", "", <<b, e>>), Node("setenum", "", <<e>>),
   Node("funcset", "", <<e, b>>), Node("funcset", "", <<b, e>>),
   Node("record", "", <<Field("f", e)>>), Node("record", "", <<Field("g", b), Field("f", e)>>),
   Node("recordset", "", <<Field("f", e), Field("g", b)>>),
   Node("except", "", <<e, b, b>>), Node("except", "", <<b, e, b>>),
   Node("except", "", <<b, b, e>>),
   Node("square", "", <<e, b>>), Node("square", "", <<b, e>>),
   Node("angle", "", <<e, b>>), Node("angle", "", <<b, e>>),
   Node("fairness", "", <<e, b>>), Node("fairness", "", <<b, e>>)}

LayoutsAround(e) ==
  {Node("junction", op, es) : op \in {"/\\", "\\/"}, es \in {<<e>>, <<e, b>>, <<b, e>>}}
  \cup {Node("if", "", <<e, b, b>>), Node("if", "", <<b, e, b>>), Node("if", "", <<b, b, e>>),
        Node("case", "", <<e, b>>), Node("case", "", <<b, e>>),
        Node("case", "", <<b, b, e, b, b, b>>), Node("case", "", <<b, e, b, b, b>>),
        Node("case", "", <<b, b, e>>), Node("let", "", <<e, b, b>>), Node("let", "", <<b, e>>)}

BindersAround(e) ==
  {Node(kind, "x", es) : kind \in {"filter", "map", "funclit", "exists", "choose"},
                         es \in {<<e, b>>, <<b, e>>}}
  \cup {Node("lambda", "x", <<e>>)}

\* An operator passed as an argument stands nowhere else.
Around(e) == IF ~IsOperand(e)
             THEN {Node("apply", "F", <<e>>), Node("apply", "F", <<e, b>>)}
             ELSE OperatorsAround(e) \cup BracketsAround(e) \cup LayoutsAround(e)
                  \cup BindersAround(e)

(***************************************************************************)
(* The units that hold e, and those that hold no expression.               *)
(***************************************************************************)
left  == Decl("a", 0)
right == Decl("b", 0)

Instances(e) == {Node("instance", "M", substs) :
                   substs \in {<<>>, <<Field("x", e)>>, <<Field("x", b), Field("f", e)>>}}

NamedDefinitions(e) ==
  {Definition("named", "F", params, e) : params \in {<<>>, <<left>>, <<left, Decl("f", 2)>>}}
  \cup {Definition("named", "F", <<left>>, inst) : inst \in Instances(e)}

SymbolDefinitions(e) ==
  {Definition("infixdef", op, <<left, right>>, e) : op \in {"/\\", "-", "\\X"}}
  \cup {Definition("postfixdef", op, <<left>>, e) : op \in PostfixOps}
  \cup {Definition("prefixdef", op, <<left>>, e) : op \in {"-.", "~", "-"}}

FunctionDefinitions(e) ==
  {Node("function", "f", <<Decl("x", 0)>> \o es) : es \in {<<e, b>>, <<b, e>>}}

\* What LOCAL stands before, one of each form.
Shareable(e) ==
  {Definition("named", "F", <<left>>, body) : body \in {e, Node("instance", "M", <<>>)}}
  \cup {Definition("infixdef", "-", <<left, right>>, e), Definition("prefixdef", "-.", <<left>>, e),
        Node("instance", "M", <<Field("x", e)>>)}

Declarations ==
  {Node(kind, "", ds) : kind \in {"constants", "recursive"},
                        ds \in {<<>>, <<Decl("F", 0)>>, <<Decl("F", 2), left>>}}
  \cup {Node("variables", "", ds) : ds \in {<<>>, <<left>>, <<left, right>>}}
  \cup {Node("separator", "", <<>>)}

Nested(e) == Module("M", <<right>>, <<Definition("named", "F", <<>>, e)>>)

UnitsOver(e) ==
  NamedDefinitions(e) \cup SymbolDefinitions(e) \cup FunctionDefinitions(e) \cup Instances(e)
    \cup {Node("local", "", <<u>>) : u \in Shareable(e)} \cup Declarations
    \cup {Node(kind, name, <<e>>) : kind \in {"assume", "theorem"}, name \in {"", "d"}}
    \cup {Definition("named", "F", <<>>, Node("local", "", <<Node("instance", "M", <<>>)>>)),
          Nested(e)}

Init == tree \in Leaves /\ chain = <<>> /\ units = <<>>

Compose == /\ chain = <<>> /\ units = <<>>
           /\ Depth(tree) < IF OverCore(tree) THEN CoreDepth ELSE MaxDepth
           /\ tree' \in Around(tree)
           /\ Depth(tree') <= IF OverCore(tree') THEN CoreDepth ELSE MaxDepth
           /\ UNCHANGED <<chain, units>>

Chain == /\ tree = a /\ Len(chain) < MaxChain /\ units = <<>>
         /\ \E op \in InfixOps : chain' = Append(chain, op)
         /\ UNCHANGED <<tree, units>>

\* One more unit in the module, with the expression that was built.
Define == /\ chain = <<>> /\ Len(units) < MaxUnits
          /\ OverCore(tree) /\ Depth(tree) <= UnitDepth
          /\ \E u \in UnitsOver(tree) : units' = Append(units, u)
          /\ UNCHANGED <<tree, chain>>

Next == Compose \/ Chain \/ Define

Spec == Init /\ [][Next]_vars
-----------------------------------------------------------------------------
Reread == Parsed(ScanAll(ExprString(tree)))

(***************************************************************************)
(* What is read back is not what was built when one of these nodes is      *)
(* somewhere in the tree.                                                  *)
(***************************************************************************)
\* A right operand with the parent's associative operator loses its
\* parentheses and is regrouped to the left: for - this is another value.
RightChain(e) == /\ e.kind = "binary" /\ OpTable[e.op].assoc
                 /\ e.xs[2].kind = "binary" /\ e.xs[2].op = e.op

\* A filter's predicate that begins with a membership is read as a bound.
MembershipFilter(e) == e.kind = "filter" /\ BoundAhead(ScanAll(ExprString(e.xs[2])), 1)

\* The symbols that begin an expression, or are no OP token, are not read
\* as an operator passed as an argument.
UnreadableRef(e) == e.kind = "opref" /\ e.op \in PrefixOps \cup {"/\\", "\\/", "\\X"}

\* A first argument that is an operator is printed next to the parenthesis,
\* and may begin a comment with it, or be a circled operator.
SwallowedRef(e) ==
  /\ e.kind = "apply" /\ e.xs[1].kind = "opref"
  /\ \/ e.xs[1].op \in {"*", "**"}
     \/ Len(e.xs) = 1 /\ e.xs[1].op \in {"+", "-", "/", "\\X"}

\* Subscripts are names with selections, tuples and parentheses when read.
RECURSIVE IsSelection(_)
IsSelection(e) == e.kind = "ident" \/ (e.kind = "dot" /\ IsSelection(e.xs[1]))

UnreadableSubscript(e) ==
  /\ e.kind \in {"square", "angle", "fairness"}
  /\ e.xs[2].kind \in {"qualified", "dot"} /\ ~IsSelection(e.xs[2])

\* A bound's set is read as an operand of \in, and printed as if it were
\* alone.
BareSet(e) ==
  LET set == IF e.kind = "map" THEN e.xs[2] ELSE e.xs[1] IN
  /\ e.kind \in {"filter", "map", "funclit", "forall", "exists"}
  /\ set.kind = "binary" /\ OpTable[set.op].lo <= OpTable["\\in"].hi

Faulty(e) == \/ RightChain(e) \/ MembershipFilter(e) \/ UnreadableRef(e) \/ SwallowedRef(e)
             \/ UnreadableSubscript(e) \/ BareSet(e)

\* docs/PLAN.md:64-65, parse(print(ast)) is ast, up to the parentheses that
\* are inserted: printer and parser agree on every tree, whatever its
\* operators, layout and nesting, except on the trees with one of these nodes.
RoundTripsUnlessFaulty ==
  IsOperand(tree) =>
    (Bare(Reread) = Bare(tree) <=> ~\E e \in Subtrees(tree) : Faulty(e))

\* A list of declarations needs one; of the symbols that the printer would
\* define, not all are OP tokens; an INSTANCE after == has no LOCAL.
FaultyUnit(u) ==
  \/ u.kind \in {"constants", "variables", "recursive"} /\ u.xs = <<>>
  \/ u.kind = "infixdef" /\ u.op = "\\X"
  \/ u.kind = "postfixdef" /\ u.op = "'"
  \/ u.kind = "prefixdef" /\ u.op \notin DefinablePrefixOps
  \/ u.kind \in Definitions /\ Body(u).kind = "local"
  \/ u.kind = "function" /\ BareSet(Node("funclit", "x", Tail(u.xs)))

\* The same of modules, where a unit ends only because its expression cannot
\* go on with the next one's first word: of a definition, a declaration, a
\* rule, a module that begins there, or the line that ends the module.
ModuleRoundTripsUnlessFaulty ==
  LET module == Module("M", <<>>, units) IN
  units # <<>> =>
    (Bare(ParsedModule(ScanAll(ModuleString(module)))) = Bare(module)
       <=> ~\E u \in Subtrees(module) : FaultyUnit(u) \/ Faulty(u))

(***************************************************************************)
(* The trees over a chain of operators, by the rule that token.rs states:  *)
(* operands bind tighter than their operator, ranges that overlap are not  *)
(* mixed, and an associative operator may chain, to the left.              *)
(***************************************************************************)
RECURSIVE Groupings(_)
Groupings(ops) ==
  IF ops = <<>> THEN {a}
  ELSE UNION {{Binary(ops[k], l, r) : l \in Groupings(SubSeq(ops, 1, k - 1)),
                                      r \in Groupings(SubSeq(ops, k + 1, Len(ops)))} :
              k \in DOMAIN ops}

Tighter(e, op) == e.kind = "binary" => OpTable[e.op].lo > OpTable[op].hi

Legal(e) ==
  \A n \in Subtrees(e) : n.kind = "binary" =>
    /\ Tighter(n.xs[1], n.op) \/ (n.xs[1].op = n.op /\ OpTable[n.op].assoc)
    /\ Tighter(n.xs[2], n.op)

RECURSIVE ChainTokens(_)
ChainTokens(ops) == IF ops = <<>> THEN <<Token("a", 1), EOF>>
                    ELSE <<Token("a", 1), Token(Head(ops), 1)>> \o ChainTokens(Tail(ops))

\* Every chain has at most one legal grouping, and the parser returns it, or
\* an error when there is none: it never guesses.
ParserGroupsAsTheTableSays ==
  {Parsed(ChainTokens(chain))} =
    LET legal == {g \in Groupings(chain) : Legal(g)} IN
    IF legal = {} THEN {ParseError.e} ELSE legal
=============================================================================
