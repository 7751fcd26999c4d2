------------------------------- MODULE Units --------------------------------
(***************************************************************************)
(* rust/src/printer.rs, module and unit, and rust/src/parser.rs,           *)
(* parse_module and parse_unit: the units of a module, one after another.  *)
(* Nothing is written between two units but a blank line, which is no      *)
(* token: a unit ends where the parser cannot go on.                       *)
(*                                                                         *)
(* A declaration has a child for every hole.  A definition's children are  *)
(* its parameters and its body, which is an INSTANCE in a ModuleDef; a     *)
(* function's are its one bound's name and set, and its body.  A module's  *)
(* first child is its EXTENDS list.                                        *)
(***************************************************************************)
EXTENDS Printer, Scanner, Parser

Hole == Node("hole", "_", <<>>)

Decl(name, arity) == Node("decl", name, [i \in 1..arity |-> Hole])

Definition(kind, name, params, body) == Node(kind, name, Append(params, body))

Module(name, extends, units) == Node("module", name, <<Node("extends", "", extends)>> \o units)

Body(u)   == u.xs[Len(u.xs)]
Params(u) == SubSeq(u.xs, 1, Len(u.xs) - 1)

Definitions == {"named", "infixdef", "postfixdef", "prefixdef"}
-----------------------------------------------------------------------------
\* op_decl_string and op_decl_list: F(_, _).
DeclPieces(d) ==
  Tight(d.op) \o IF d.xs = <<>> THEN <<>>
                 ELSE Tight("(") \o Separated([i \in DOMAIN d.xs |-> Tight("_")], Comma)
                        \o Tight(")")

DeclList(ds) == Separated([i \in DOMAIN ds |-> DeclPieces(ds[i])], Comma)

Keyword(ds, singular, plural) == Before(IF Len(ds) = 1 THEN singular ELSE plural)

InstancePieces(u) ==
  Before("INSTANCE") \o Tight(u.op)
    \o IF u.xs = <<>> THEN <<>> ELSE Spaced("WITH") \o FieldList(u.xs, "<-")

\* What is left of ==.
Heading(u) ==
  LET ps == Params(u) IN
  CASE u.kind = "infixdef"   -> Before(ps[1].op) \o Before(u.op) \o Tight(ps[2].op)
    [] u.kind = "postfixdef" -> Before(ps[1].op) \o Tight(u.op)
    [] u.kind = "prefixdef"  -> Before(u.op) \o Tight(ps[1].op)
    [] u.kind = "named"   -> Tight(u.op) \o IF ps = <<>> THEN <<>>
                                            ELSE Tight("(") \o DeclList(ps) \o Tight(")")

\* A name for an assumption or a theorem, if it has one.
NamePieces(name) == IF name = "" THEN <<>> ELSE Before(name) \o Before("==")

RECURSIVE UnitPieces(_), ModulePieces(_)

UnitPieces(u) ==
  CASE u.kind = "constants" -> Keyword(u.xs, "CONSTANT", "CONSTANTS") \o DeclList(u.xs)
    [] u.kind = "variables" -> Keyword(u.xs, "VARIABLE", "VARIABLES") \o DeclList(u.xs)
    [] u.kind = "recursive" -> Before("RECURSIVE") \o DeclList(u.xs)
    [] u.kind \in Definitions ->
         Heading(u) \o Spaced("==")
           \o IF Body(u).kind \in {"instance", "local"} THEN UnitPieces(Body(u)) ELSE Sub(Body(u))
    [] u.kind = "function"  -> Tight(u.op) \o Tight("[") \o BoundIn(u.xs[1].op, u.xs[2])
                                 \o Tight("]") \o Spaced("==") \o Sub(u.xs[3])
    [] u.kind = "instance"  -> InstancePieces(u)
    [] u.kind = "local"     -> Before("LOCAL") \o UnitPieces(u.xs[1])
    [] u.kind = "assume"    -> Before("ASSUME") \o NamePieces(u.op) \o Sub(u.xs[1])
    [] u.kind = "theorem"   -> Before("THEOREM") \o NamePieces(u.op) \o Sub(u.xs[1])
    [] u.kind = "separator" -> Tight("----")
    [] u.kind = "module"    -> ModulePieces(u)

\* A blank line before every unit and before the last line; the rules are as
\* long as the shortest that is one.
ModulePieces(m) ==
  LET extends == m.xs[1].xs
      units   == Tail(m.xs)
  IN  Before("----") \o Before("MODULE") \o Before(m.op) \o Tight("----") \o NewLine(1)
        \o (IF extends = <<>> THEN <<>> ELSE Before("EXTENDS") \o DeclList(extends) \o NewLine(1))
        \o Separated([i \in DOMAIN units |-> NewLine(1) \o UnitPieces(units[i])], NewLine(1))
        \o NewLine(1) \o Tight(EndOfModule) \o NewLine(1)

ModuleString(m) == Render([words |-> <<>>, col |-> 1], ModulePieces(m)).words
-----------------------------------------------------------------------------
\* parse_op_decl: a name, and holes when an underscore follows its bracket.
RECURSIVE ParseHoles(_, _), ParseDecls(_, _)
ParseHoles(ts, r) ==
  LET decl == [r.e EXCEPT !.xs = Append(@, Hole)] IN
  Then(Expect(ts, r, "_"), LAMBDA h :
    IF Looking(ts, h.at, {","}) THEN ParseHoles(ts, At(decl, h.at + 1))
    ELSE Expect(ts, At(decl, h.at), ")"))

ParseDecl(ts, i) ==
  Then(ExpectName(ts, At(0, i)), LAMBDA n :
    LET decl == Decl(ts[i].lit, 0) IN
    IF Looking(ts, n.at, {"("}) /\ Looking(ts, n.at + 1, {"_"})
    THEN ParseHoles(ts, At(decl, n.at + 1)) ELSE At(decl, n.at))

\* d, d, ... : the tree is a sequence here.
ParseDecls(ts, r) ==
  Then(ParseDecl(ts, r.at), LAMBDA d :
    IF Looking(ts, d.at, {","}) THEN ParseDecls(ts, At(Append(r.e, d.e), d.at + 1))
    ELSE At(Append(r.e, d.e), d.at))

\* The names after VARIABLE and EXTENDS.
RECURSIVE ParseNames(_, _)
ParseNames(ts, r) ==
  Then(ExpectName(ts, r), LAMBDA n :
    LET names == Append(r.e, Decl(ts[r.at].lit, 0)) IN
    IF Looking(ts, n.at, {","}) THEN ParseNames(ts, At(names, n.at + 1)) ELSE At(names, n.at))

\* Mutant: a name is taken for the definition's without a look at ==.
OptionalNameAlone(ts, i) ==
  IF Looking(ts, i, Names) THEN At(ts[i].lit, i + 2) ELSE At("", i)

\* optional_def_name
OptionalDefName(ts, i) ==
  IF Looking(ts, i, Names) /\ Looking(ts, i + 1, {"=="}) THEN At(ts[i].lit, i + 2) ELSE At("", i)

RECURSIVE ParseSubsts(_, _)
ParseSubsts(ts, r) ==
  Then(Expect(ts, ExpectName(ts, r), "<-"), LAMBDA name :
  Then(ParseExpr(ts, name.at, 0, 0), LAMBDA e :
    LET substs == Append(r.e, Field(ts[r.at].lit, e.e)) IN
    IF Looking(ts, e.at, {","}) THEN ParseSubsts(ts, At(substs, e.at + 1))
    ELSE At(substs, e.at)))

ParseInstance(ts, i) ==
  Then(ExpectName(ts, At(0, i + 1)), LAMBDA m :
  Then(IF Looking(ts, m.at, {"WITH"}) THEN ParseSubsts(ts, At(<<>>, m.at + 1)) ELSE At(<<>>, m.at),
       LAMBDA with : At(Node("instance", ts[i + 1].lit, with.e), with.at)))

\* finish_operator_def: after ==.  An operator that stands for an INSTANCE
\* becomes a ModuleDef, which has no fixity.
FinishDefinition(ts, i, kind, name, params) ==
  IF Looking(ts, i, {"INSTANCE"})
  THEN Then(ParseInstance(ts, i),
            LAMBDA inst : At(Definition("named", name, params, inst.e), inst.at))
  ELSE Then(ParseExpr(ts, i, 0, 0),
            LAMBDA e : At(Definition(kind, name, params, e.e), e.at))

\* definable_op: the OP tokens, and the bullets.
DefinableOps == InfixOps \cup {"~", "-.", "^+"}

ParseFunction(ts, i) ==
  Then(Expect(ts, Expect(ts, ParseBound(ts, i + 2, 0), "]"), "=="), LAMBDA set :
  Then(ParseExpr(ts, set.at, 0, 0),
       LAMBDA e : At(Node("function", ts[i].lit, <<Decl(ts[i + 2].lit, 0), set.e, e.e>>), e.at)))

\* parse_definition: a name, and what is defined by what follows it.
ParseDefinition(ts, i) ==
  LET op == ts[i + 1].lit
      l  == Decl(ts[i].lit, 0)
  IN CASE op = "["  -> ParseFunction(ts, i)
       [] op = "("  -> Then(Expect(ts, Expect(ts, ParseDecls(ts, At(<<>>, i + 2)), ")"), "=="),
                            LAMBDA ds : FinishDefinition(ts, ds.at, "named", ts[i].lit, ds.e))
       [] op = "==" -> FinishDefinition(ts, i + 2, "named", ts[i].lit, <<>>)
       [] op \in DefinableOps /\ op \in PostfixOps /\ Looking(ts, i + 2, {"=="}) ->
            FinishDefinition(ts, i + 3, "postfixdef", op, <<l>>)
       [] op \in DefinableOps /\ Looking(ts, i + 2, Names) /\ Looking(ts, i + 3, {"=="}) ->
            FinishDefinition(ts, i + 4, "infixdef", op, <<l, Decl(ts[i + 2].lit, 0)>>)
       [] OTHER -> ParseError

\* is_definable_prefix_op
DefinablePrefixOps == {"-.", "~"}

\* parse_prefix_op_def: its body is an expression.
ParsePrefixDef(ts, i) ==
  Then(Expect(ts, ExpectName(ts, At(0, i + 1)), "=="), LAMBDA d :
  Then(ParseExpr(ts, d.at, 0, 0),
       LAMBDA e : At(Definition("prefixdef", ts[i].lit, <<Decl(ts[i + 1].lit, 0)>>, e.e), e.at)))

\* parse_local_unit, which parse_unit's definitions and INSTANCE share.
ParseLocalUnit(ts, i) ==
  CASE Looking(ts, i, {"INSTANCE"})       -> ParseInstance(ts, i)
    [] Looking(ts, i, Names)              -> ParseDefinition(ts, i)
    [] Looking(ts, i, DefinablePrefixOps) -> ParsePrefixDef(ts, i)
    [] OTHER -> ParseError

ParseStated(ts, i, kind) ==
  LET name == OptionalDefName(ts, i) IN
  Then(ParseExpr(ts, name.at, 0, 0), LAMBDA e : At(Node(kind, name.e, <<e.e>>), e.at))

Listed(r, kind) == Then(r, LAMBDA ds : At(Node(kind, "", ds.e), ds.at))

RECURSIVE ParseUnits(_, _), ParseModule(_, _)

\* parse_unit
ParseUnit(ts, i) ==
  LET t == ts[i].lit IN
  CASE t = "----" -> IF Looking(ts, i + 1, {"MODULE"}) THEN ParseModule(ts, i)
                     ELSE At(Node("separator", "", <<>>), i + 1)
    [] t \in {"CONSTANT", "CONSTANTS"} -> Listed(ParseDecls(ts, At(<<>>, i + 1)), "constants")
    [] t \in {"VARIABLE", "VARIABLES"} -> Listed(ParseNames(ts, At(<<>>, i + 1)), "variables")
    [] t = "RECURSIVE" -> Listed(ParseDecls(ts, At(<<>>, i + 1)), "recursive")
    [] t = "ASSUME"    -> ParseStated(ts, i + 1, "assume")
    [] t = "THEOREM"   -> ParseStated(ts, i + 1, "theorem")
    [] t = "LOCAL"     -> Then(ParseLocalUnit(ts, i + 1),
                               LAMBDA u : At(Node("local", "", <<u.e>>), u.at))
    [] OTHER -> ParseLocalUnit(ts, i)

\* Units up to the line that ends the module; EOF is no unit.
ParseUnits(ts, r) ==
  IF Looking(ts, r.at, {EndOfModule}) THEN At(r.e, r.at + 1)
  ELSE Then(ParseUnit(ts, r.at), LAMBDA u : ParseUnits(ts, At(Append(r.e, u.e), u.at)))

ParseModule(ts, i) ==
  Then(Expect(ts, ExpectName(ts, Expect(ts, Expect(ts, At(0, i), "----"), "MODULE")), "----"),
       LAMBDA h :
  Then(IF Looking(ts, h.at, {"EXTENDS"}) THEN ParseNames(ts, At(<<>>, h.at + 1)) ELSE At(<<>>, h.at),
       LAMBDA extends :
  Then(ParseUnits(ts, At(<<>>, extends.at)),
       LAMBDA us : At(Module(ts[i + 2].lit, extends.e, us.e), us.at))))

\* parse: what follows the module is not looked at.
ParsedModule(ts) == ParseModule(ts, 1).e
=============================================================================
