---------------------------- MODULE MCCliTokens ----------------------------
(***************************************************************************)
(* Values for model checking CliTokens.                                    *)
(***************************************************************************)
EXTENDS CliTokens, TLC

CONSTANTS c1, c2

OnTimeOrAhead == {0, 2}
AnyOrder == Permutations(Commands)
=============================================================================
