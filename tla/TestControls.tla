---------------------------- MODULE TestControls ----------------------------
(***************************************************************************)
(* The server's clock and its one-shot faults, as the endpoints under      *)
(* /test set them (test_endpoints.py).  Every operation runs between two   *)
(* awaits of the event loop, so each is one step.                          *)
(***************************************************************************)
EXTENDS Integers

CONSTANTS
  Endpoints,   \* normalized request paths
  Behaviors,   \* of faults
  Faulty,      \* the paths tests configure faults for
  Instants,    \* a test freezes the clock at
  Intervals,   \* a test advances the clock by, negative ones as well
  MaxWall,     \* bound: the wall clock stops here
  MaxShift,    \* bound: the clock is advanced this far in all
  MaxFaults    \* bound: faults configured

ASSUME ControlsAssumption ==
  /\ Behaviors \subseteq {"delay", "error", "timeout", "reject"}
  /\ Faulty \subseteq Endpoints
  /\ Instants \subseteq Int
  /\ Intervals \subseteq Int
  /\ MaxWall \in Nat
  /\ MaxShift \in Nat
  /\ MaxFaults \in Nat

VARIABLES
  wall,        \* datetime.now
  freezeAt,    \* _CLOCK["freeze_at"]
  offset,      \* _CLOCK["offset_seconds"]
  faults,      \* _FAULTS
  \* history
  anchor,      \* the instant the clock was last frozen at since a reset
  since,       \* the seconds it was advanced by since then
  lastFault,   \* serial number of the last fault configured
  struck,      \* serial numbers of faults a request ran into
  withdrawn    \* serial numbers of faults replaced or reset before

clock == <<wall, freezeAt, offset, anchor, since>>
faultVars == <<faults, lastFault, struck, withdrawn>>

-----------------------------------------------------------------------------
(* The clock *)

Running == [frozen |-> FALSE]
FrozenAt(i) == [frozen |-> TRUE, at |-> i]

\* get_current_time
CurrentTime == IF freezeAt.frozen THEN freezeAt.at ELSE wall + offset

Tick ==
  /\ wall < MaxWall
  /\ wall' = wall + 1
  /\ UNCHANGED <<freezeAt, offset, anchor, since>>

Freeze(i) ==
  /\ freezeAt' = FrozenAt(i)
  /\ offset' = 0
  /\ anchor' = FrozenAt(i)
  /\ since' = 0
  /\ UNCHANGED wall

\* Slip: the offset moves even while the clock stands still.
OffsetAdvanced(n) == freezeAt' = freezeAt /\ offset' = offset + n

Advanced(n) ==
  \/ /\ freezeAt.frozen
     /\ freezeAt' = FrozenAt(freezeAt.at + n)
     /\ UNCHANGED offset
  \/ /\ ~freezeAt.frozen
     /\ offset' = offset + n
     /\ UNCHANGED freezeAt

Advance(n) ==
  /\ since + n \in -MaxShift..MaxShift
  /\ Advanced(n)
  /\ since' = since + n
  /\ UNCHANGED <<wall, anchor>>

-----------------------------------------------------------------------------
(* Faults *)

NoFault == [serial |-> 0]

Configured == {faults[e].serial : e \in Faulty} \ {0}

\* configure_fault: a fault not yet run into is replaced.
ConfigureFault(e, b) ==
  /\ lastFault < MaxFaults
  /\ lastFault' = lastFault + 1
  /\ faults' =
       [faults EXCEPT ![e] = [serial |-> lastFault + 1, behavior |-> b]]
  /\ withdrawn' = withdrawn \cup ({faults[e].serial} \ {0})
  /\ UNCHANGED struck

\* The fault that a request for e runs into.
FaultAt(e) == IF e \in Faulty THEN faults[e] ELSE NoFault

\* Slip: the fault is looked up and stays.
FaultsAfterLookup(e) == faults

FaultsAfterPop(e) == [x \in Faulty |-> IF x = e THEN NoFault ELSE faults[x]]

\* maybe_apply_fault, up to its first await: the fault is gone before the
\* request sleeps, is answered or goes on.
ApplyFault(e) ==
  /\ faults' = FaultsAfterPop(e)
  /\ struck' = struck \cup ({FaultAt(e).serial} \ {0})
  /\ UNCHANGED <<lastFault, withdrawn>>

\* The fault answers the request: at once, or after a while (timeout).  A
\* delayed request goes on afterwards.
Answers(fault) == fault.serial # 0 /\ fault.behavior # "delay"

-----------------------------------------------------------------------------
(* Both *)

ControlsInit ==
  /\ wall = 0
  /\ freezeAt = Running
  /\ offset = 0
  /\ faults = [e \in Faulty |-> NoFault]
  /\ anchor = Running
  /\ since = 0
  /\ lastFault = 0
  /\ struck = {}
  /\ withdrawn = {}

\* reset_state
ResetControls ==
  /\ freezeAt' = Running
  /\ offset' = 0
  /\ anchor' = Running
  /\ since' = 0
  /\ faults' = [e \in Faulty |-> NoFault]
  /\ withdrawn' = withdrawn \cup Configured
  /\ UNCHANGED <<wall, lastFault, struck>>

-----------------------------------------------------------------------------
(* Properties *)

\* Whatever sequence of freezing, advancing and resets a test goes through,
\* the server's time is the instant it was last frozen at, or the wall clock,
\* and all it was advanced by since (configure_clock, get_current_time).
ClockAddsUp ==
  CurrentTime = (IF anchor.frozen THEN anchor.at ELSE wall) + since

\* A fault configured is still to come, or one request ran into it, or it was
\* replaced or reset before any did: exactly one of the three, so no request
\* runs into a fault of another or of an earlier test (maybe_apply_fault,
\* configure_fault, reset_state).
FaultsStrikeOnce ==
  /\ Configured \cup struck \cup withdrawn = 1..lastFault
  /\ Configured \cap struck = {}
  /\ Configured \cap withdrawn = {}
  /\ struck \cap withdrawn = {}
=============================================================================
