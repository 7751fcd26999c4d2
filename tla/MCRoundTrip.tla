---------------------------- MODULE MCRoundTrip -----------------------------
(***************************************************************************)
(* Every pair of constructs over all operators, three deep over a few that *)
(* differ in range and associativity, every chain of three operators, and  *)
(* every two units over the trees of one construct.                        *)
(***************************************************************************)
EXTENDS RoundTrip

MCCore == {"=>", "/\\", "-", "~"}
=============================================================================
