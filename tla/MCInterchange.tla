--------------------------- MODULE MCInterchange ----------------------------
(***************************************************************************)
(* Atoms of every kind but sets, which are built; integers on both sides   *)
(* of MaxSafe, and intervals empty, as long as MaxExpansion and longer.    *)
(***************************************************************************)
EXTENDS Interchange

MCAtoms ==
  {NewBool(FALSE), NewInt(1), NewInt(-2), NewString(1), NewModelValue(1),
   NewInterval(2, 1), NewInterval(1, 2), NewInterval(1, 3),
   NewTuple(<<>>), NewRecord(<<>>), NewFunc(<<>>)}

MCPartners == {NewString(1), NewInterval(1, 2)}
=============================================================================
