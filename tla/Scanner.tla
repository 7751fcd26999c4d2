------------------------------ MODULE Scanner -------------------------------
(***************************************************************************)
(* rust/src/scanner.rs (scanner/scanner.go is the same design): the tokens *)
(* of printed text.  Text is a sequence of words, what stands between two  *)
(* spaces or line breaks; a word is split into the longest symbols, names, *)
(* numbers and strings that it begins with, so that two tokens printed     *)
(* next to each other may be read as one.                                  *)
(***************************************************************************)
EXTENDS Naturals, Sequences

Token(lit, col) == [lit |-> lit, col |-> col]

EOF == Token("EOF", 0)

\* The line that ends a module: a run of equals signs.
EndOfModule == "==" \o "=="

\* The cases of scan.  A run of four dashes or equals signs or more is one
\* token, of four here; \* comments and the number bases \b, \o, \h are in
\* no printed text.
Symbols ==
  {"(", "(+)", "(-)", "(.)", "(/)", "(\\X)", ")", "[", "[]", "]", "]_", "{", "}", ",", "'",
   "@", "@@", "!", "!!", "#", "##", "&", "&&", "$", "$$", "%", "%%", "*", "**", "??",
   "^", "^^", "^+", "^*", "^#", "+", "++", "-", "-+->", "-|", "--", "----", "->", "-.",
   "=", "==", EndOfModule, "=>", "=<", "=|", "<", "<=>", "<<", "<-", "<:", "<=", "<>",
   ">", ">>", ">>_", ">=", ".", "..", "...", ":", "::=", ":>", ":=",
   "|", "|->", "||", "|-", "|=", "/", "/\\", "/=", "//", "~", "~>", "\\", "\\/"}

OpensComment == "(*"

First(text, n) == SubSeq(text, 1, n)
From(text, n)   == SubSeq(text, n, Len(text))

BeginsWith(text, s) == Len(s) <= Len(text) /\ First(text, Len(s)) = s

Punctuation == {First(s, 1) : s \in Symbols} \cup {"\""}

\* The symbols by what they begin with.
SymbolsAt == [c \in Punctuation |-> {s \in Symbols : First(s, 1) = c}]

\* The length of the run of other characters at the beginning.
RECURSIVE NameLength(_)
NameLength(text) ==
  IF text = "" \/ First(text, 1) \in Punctuation THEN 0 ELSE 1 + NameLength(From(text, 2))

SymbolLength(text) ==
  LET lengths == {Len(s) : s \in {t \in SymbolsAt[First(text, 1)] : BeginsWith(text, t)}}
  IN  CHOOSE n \in lengths : \A m \in lengths : m <= n

\* The places at which s occurs, and the first of them, 0 when there is none.
FirstPlace(text, s, from) ==
  LET places == {i \in from..Len(text) : BeginsWith(From(text, i), s)} IN
  IF places = {} THEN 0 ELSE CHOOSE i \in places : \A j \in places : i <= j

\* \cup, \in, ...: a backslash and letters are one token.
TokenLength(text) ==
  CASE First(text, 1) \notin Punctuation -> NameLength(text)
    [] First(text, 1) = "\"" -> FirstPlace(text, "\"", 2)
    [] First(text, 1) = "\\" /\ NameLength(From(text, 2)) > 0 ->
         1 + NameLength(From(text, 2))
    [] OTHER -> SymbolLength(text)

\* Canon: the circled operators, by the operators of the same range.
Canon(lit) == CASE lit = "(+)" -> "+" [] lit = "(-)" -> "-" [] lit = "(/)" -> "/"
                [] lit \in {"(.)", "(\\X)"} -> "*" [] OTHER -> lit

\* scan.  A comment that does not end in its word has no end, since no other
\* word of a printed expression holds one: a scan error.
RECURSIVE Scan(_, _)
Scan(text, col) ==
  LET Rest(n) == Scan(From(text, n + 1), col + n)
      end == FirstPlace(text, "*)", 3)
      n   == TokenLength(text)
  IN  CASE text = "" -> <<>>
        [] BeginsWith(text, OpensComment) ->
             IF end = 0 THEN <<Token("ILLEGAL", col)>> ELSE Rest(end + 1)
        [] BeginsWith(text, "WF_") /\ n > 3 -> <<Token("WF_", col)>> \o Rest(3)
        [] OTHER -> <<Token(Canon(First(text, n)), col)>> \o Rest(n)

RECURSIVE ScanAll(_)
ScanAll(words) == IF words = <<>> THEN <<EOF>>
                  ELSE Scan(words[1].lit, words[1].col) \o ScanAll(Tail(words))
=============================================================================
