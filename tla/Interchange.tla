---------------------------- MODULE Interchange -----------------------------
(***************************************************************************)
(* The values that Construction builds, as the text that tlc.rs reads the  *)
(* states of a counterexample from.                                        *)
(***************************************************************************)
EXTENDS Construction, ValueText

EmptyRecord(v) == v = NewRecord(<<>>)
EmptyFunc(v)   == v = NewFunc(<<>>)

\* value.rs:411, "round trip changed value": Display and parse_value, with
\* the parser between them, keep what a value stands for, also with
\* duplicate keys; a record without fields has no text, and a function
\* without entries is the only part that comes back in another form.
TextKeepsMeaning ==
  LET reread == Parse(Text(x)) IN
  /\ reread = Failed <=> \E part \in Parts(x) : EmptyRecord(part)
  /\ reread # Failed => Meaning(reread) = Meaning(x)
  /\ reread # Failed => (reread = x <=> \A part \in Parts(x) : ~EmptyFunc(part))
=============================================================================
