--------------------------- MODULE MCProfileStore ---------------------------
(***************************************************************************)
(* Values for model checking ProfileStore: two profiles, each made for a   *)
(* resource of its own.                                                    *)
(***************************************************************************)
EXTENDS ProfileStore

CONSTANTS x, z, r, s

MCResourceOf == [id \in Profiles |-> IF id = z THEN s ELSE r]
=============================================================================
