--------------------------- MODULE MCBearerServer ---------------------------
(***************************************************************************)
(* Values for model checking BearerServer.                                 *)
(***************************************************************************)
EXTENDS BearerServer, TLC

CONSTANTS k1, r1, r2

BackAndForth == {-1, 1}
InFlight == Permutations(Requests)
=============================================================================
