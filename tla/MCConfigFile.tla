---------------------------- MODULE MCConfigFile ----------------------------
(***************************************************************************)
(* Sections of every kind, with names that are one word, qualified, none   *)
(* or a keyword, and values of every shape that TLC's users write.         *)
(***************************************************************************)
EXTENDS ConfigFile

MCNameTexts == {<<>>, <<"a">>, <<"b", "!", "a">>, <<"INIT">>}

MCValueTexts ==
  {<<>>, <<"3">>, <<"-", "3">>, <<"a">>, <<"\"a\"">>, <<"1", "..", "3">>, <<"BOOLEAN">>,
   <<"{", "a", ",", "b", "}">>, <<"{", "}">>, <<"<<", "a", ",", "3", ">>">>,
   <<"[", "a", "|->", "3", "]">>, <<"{", "a", "=", "3", ",", "INIT", "}">>,
   <<"{", "a", "}", "\\cup", "{", "b", "}">>, <<"SUBSET", "{", "a", "}">>,
   <<"{", "a", "}", "\\X", "{", "b", "}">>, <<"f", "[", "a", "]">>, <<"b", "!", "a">>,
   <<"TRUE", "/\\", "a">>, <<"3", "+", "a", "=", "3">>, <<"BOOLEAN", "INIT">>,
   <<"INIT">>, <<"{", "a">>, <<")">>, <<"3", "+">>}

MCOtherTokens == {"!", "BOOLEAN", "SUBSET", "\\X", "/\\", "|->"}
=============================================================================
