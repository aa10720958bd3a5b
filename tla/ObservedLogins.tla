--------------------------- MODULE ObservedLogins ---------------------------
(***************************************************************************)
(* DeviceGrant with one more history variable: whether anybody meddled     *)
(* with the logins so far.  Every behaviour of DeviceSpec is one of        *)
(* ObservedSpec, and the other way round.                                  *)
(***************************************************************************)
EXTENDS DeviceGrant

\* Clients with a secret have no device grant: registration refuses it to them
\* (dynamic_registration.py) and no seeded one has it.
ASSUME LoginAssumption ==
  \A l \in Logins :
    "device_code" \in Metadata[LoginClient[l]].grants =>
      Metadata[LoginClient[l]].auth_method = "none"

VARIABLE meddled  \* a step was taken that is none of UndisturbedNext

observedVars == <<deviceVars, meddled>>

ObservedInit == DeviceInit /\ meddled = FALSE

MeddlingNext ==
  \/ PollStep
  \/ BreakOffStep
  \/ DeviceReset
  \/ DeviceClock(ConfigureClock)

ObservedNext ==
  \/ UndisturbedNext /\ UNCHANGED meddled
  \/ MeddlingNext /\ meddled' = TRUE

ObservedSpec ==
  ObservedInit /\ [][ObservedNext]_observedVars /\ LoginFairness

-----------------------------------------------------------------------------
(* Properties *)

\* A login with polls left whose device code a person approved.
Approved(l) == login[l].polls < MaxPolls /\ \E d \in CodeOf(l) : d.verified

\* Undisturbed, a login whose device code is verified before MaxPolls polls
\* were answered with pending logs in, unless the code runs out before the
\* next poll: no poll takes its answer away, and no other login unlists it
\* (login_with_device_code, consume_device_code).
ApprovedLoginSucceeds ==
  \A l \in Logins :
    Approved(l)
    ~> \/ login[l].phase = "loggedIn"
       \/ login[l].phase = "expired" /\ login[l].code \in lapsed
       \/ meddled

\* The same, step by step: undisturbed, such a login goes on polling with its
\* approved code until it is logged in, or is told that the code, which is its
\* own, has run out.  Nothing the other logins do with their codes, which may
\* bear the same user code, and no client check comes between.
ApprovalIsKept ==
  [][\A l \in Logins :
       Approved(l) =>
         \/ Approved(l)' /\ login'[l].phase = "polling"
         \/ login'[l].phase = "loggedIn"
         \/ login'[l].phase = "expired" /\ \E d \in CodeOf(l) : Expired(d)
         \/ meddled']_observedVars
=============================================================================
