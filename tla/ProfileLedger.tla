--------------------------- MODULE ProfileLedger ---------------------------
(***************************************************************************)
(* What the profile store of the CLI promises: profiles are saved,         *)
(* activated and removed in one go, the active profile of a resource is    *)
(* one that exists, and what was removed stays removed.                    *)
(***************************************************************************)
EXTENDS Functions

CONSTANTS
  Profiles,    \* profile ids
  Resources,
  ResourceOf,  \* the resource each profile was made for
  Tokens       \* what a profile may hold

VARIABLES
  profiles,  \* the tokens of each profile there is
  active,    \* the active profile of each resource that has one
  removed    \* profiles that were removed

ledgerVars == <<profiles, active, removed>>

With(f, k, v) == [n \in DOMAIN f \cup {k} |-> IF n = k THEN v ELSE f[n]]

LedgerInit ==
  /\ profiles = [n \in {} |-> "none"]
  /\ active = [n \in {} |-> "none"]
  /\ removed = {}

Store(id) ==
  /\ id \notin removed
  /\ \E t \in Tokens : profiles' = With(profiles, id, t)
  /\ active' \in {active, With(active, ResourceOf[id], id)}
  /\ UNCHANGED removed

Activate(r, id) ==
  /\ id \in DOMAIN profiles
  /\ active' = With(active, r, id)
  /\ UNCHANGED <<profiles, removed>>

Remove(id) ==
  /\ profiles' = Restrict(profiles, DOMAIN profiles \ {id})
  /\ active' = Restrict(active, {r \in DOMAIN active : active[r] # id})
  /\ removed' = removed \cup {id}

LedgerNext ==
  \E id \in Profiles :
    \/ Store(id) \/ Remove(id)
    \/ \E r \in Resources : Activate(r, id)

LedgerSpec == LedgerInit /\ [][LedgerNext]_ledgerVars
=============================================================================
