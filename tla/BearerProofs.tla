---------------------------- MODULE BearerProofs ----------------------------
(***************************************************************************)
(* Proofs about BearerServer and its test controls, for any number of      *)
(* requests in flight, faults, tokens, notes and clock settings.           *)
(***************************************************************************)
EXTENDS BearerServer, TLAPS

-----------------------------------------------------------------------------
(* The clock *)

Clocks == {Running} \cup [frozen : {TRUE}, at : Int]

\* The clock stands still since it was last frozen, and has moved from there
\* by what it was advanced by; or it runs, ahead of the wall clock by that.
ClockInv ==
  /\ wall \in Int /\ offset \in Int /\ since \in Int
  /\ freezeAt \in Clocks /\ anchor \in Clocks
  /\ freezeAt.frozen = anchor.frozen
  /\ freezeAt.frozen => freezeAt.at = anchor.at + since
  /\ ~freezeAt.frozen => offset = since

\* Whatever a step does to the clock, one of its own operations does.
ClockStep ==
  \/ Tick
  \/ \E i \in Instants : Freeze(i)
  \/ \E n \in Intervals : Advance(n)
  \/ ResetControls
  \/ UNCHANGED clock

LEMMA ClockFacts ==
  /\ Running.frozen = FALSE
  /\ \A x \in Clocks : x.frozen \in BOOLEAN /\ (x.frozen => x.at \in Int)
  /\ \A i : FrozenAt(i).frozen = TRUE /\ FrozenAt(i).at = i
  /\ \A i \in Int : FrozenAt(i) \in Clocks
  <1>1. Running.frozen = FALSE
    BY DEF Running
  <1>2. ASSUME NEW x \in Clocks
        PROVE  x.frozen \in BOOLEAN /\ (x.frozen => x.at \in Int)
    <2>1. CASE x = Running
      BY <1>1, <2>1
    <2>2. CASE x \in [frozen : {TRUE}, at : Int]
      BY <2>2
    <2>. QED
      BY <2>1, <2>2 DEF Clocks
  <1>3. \A i : FrozenAt(i).frozen = TRUE /\ FrozenAt(i).at = i
    BY DEF FrozenAt
  <1>4. \A i \in Int : FrozenAt(i) \in Clocks
    BY DEF FrozenAt, Clocks
  <1>. QED
    BY <1>1, <1>2, <1>3, <1>4

LEMMA ClockPreserved ==
  ASSUME ClockInv, ClockStep
  PROVE  ClockInv'
  <1>. USE ControlsAssumption, ClockFacts DEF ClockInv
  <1>1. CASE Tick
    BY <1>1 DEF Tick
  <1>2. ASSUME NEW i \in Instants, Freeze(i) PROVE ClockInv'
    BY <1>2 DEF Freeze
  <1>3. ASSUME NEW n \in Intervals, Advance(n) PROVE ClockInv'
    <2>1. n \in Int /\ since' = since + n /\ since' \in Int
      BY <1>3 DEF Advance
    <2>2. UNCHANGED <<wall, anchor>>
      BY <1>3 DEF Advance
    <2>3. CASE freezeAt.frozen
      <3>1. freezeAt' = FrozenAt(freezeAt.at + n) /\ UNCHANGED offset
        BY <1>3, <2>3 DEF Advance, Advanced
      <3>2. freezeAt.at + n \in Int
        BY <2>1, <2>3
      <3>3. freezeAt'.frozen = TRUE /\ freezeAt'.at = freezeAt.at + n
        BY <3>1
      <3>4. anchor.at \in Int
        BY <2>3
      <3>5. freezeAt'.at = anchor.at + since'
        BY <2>1, <2>3, <3>3, <3>4
      <3>. QED
        BY <2>1, <2>2, <2>3, <3>1, <3>2, <3>3, <3>5
    <2>4. CASE ~freezeAt.frozen
      <3>1. offset' = offset + n /\ UNCHANGED freezeAt
        BY <1>3, <2>4 DEF Advance, Advanced
      <3>. QED
        BY <2>1, <2>2, <2>4, <3>1
    <2>. QED
      BY <2>3, <2>4
  <1>4. CASE ResetControls
    BY <1>4 DEF ResetControls, Clocks
  <1>5. CASE UNCHANGED clock
    BY <1>5 DEF clock
  <1>. QED
    BY <1>1, <1>2, <1>3, <1>4, <1>5 DEF ClockStep

LEMMA ClockImplied == ClockInv => ClockAddsUp
  BY ClockFacts DEF ClockInv, ClockAddsUp, CurrentTime

-----------------------------------------------------------------------------
(* Faults *)

\* Serial numbers are given out once, to one path each, and every one of them
\* is accounted for.
FaultInv ==
  /\ lastFault \in Nat
  /\ faults = [e \in Faulty |-> faults[e]]
  /\ \A e \in Faulty : faults[e].serial \in 0..lastFault
  /\ \A e, f \in Faulty :
       faults[e].serial = faults[f].serial /\ e # f => faults[e].serial = 0
  /\ struck \subseteq 1..lastFault
  /\ withdrawn \subseteq 1..lastFault
  /\ struck \cap withdrawn = {}
  /\ \A e \in Faulty : faults[e].serial \notin struck \cup withdrawn
  /\ \A s \in 1..lastFault :
       \/ s \in struck \cup withdrawn
       \/ \E e \in Faulty : faults[e].serial = s

FaultStep ==
  \/ \E e \in Faulty, b \in Behaviors : ConfigureFault(e, b)
  \/ \E e \in Endpoints : ApplyFault(e)
  \/ ResetControls
  \/ UNCHANGED faultVars

LEMMA FaultPreserved ==
  ASSUME FaultInv, FaultStep
  PROVE  FaultInv'
  <1>. USE DEF FaultInv
  <1>1. ASSUME NEW e \in Faulty, NEW b \in Behaviors, ConfigureFault(e, b)
        PROVE  FaultInv'
    <2>1. /\ lastFault' = lastFault + 1
          /\ faults' = [faults EXCEPT ![e] = [serial   |-> lastFault + 1,
                                              behavior |-> b]]
          /\ withdrawn' = withdrawn \cup ({faults[e].serial} \ {0})
          /\ struck' = struck
      BY <1>1 DEF ConfigureFault
    <2>2. /\ faults' = [x \in Faulty |-> faults'[x]]
          /\ faults'[e].serial = lastFault + 1
          /\ \A x \in Faulty : x # e => faults'[x].serial = faults[x].serial
      BY <2>1
    <2>3. lastFault' \in Nat /\ lastFault + 1 \notin 0..lastFault
      BY <2>1
    <2>4. \A x \in Faulty : faults'[x].serial \in 0..lastFault'
      BY <2>1, <2>2
    <2>5. \A x, y \in Faulty :
            faults'[x].serial = faults'[y].serial /\ x # y
              => faults'[x].serial = 0
      BY <2>2, <2>3
    <2>6. /\ struck' \subseteq 1..lastFault'
          /\ withdrawn' \subseteq 1..lastFault'
          /\ struck' \cap withdrawn' = {}
      BY <2>1
    <2>7. \A x \in Faulty : faults'[x].serial \notin struck' \cup withdrawn'
      BY <2>1, <2>2
    <2>8. ASSUME NEW s \in 1..lastFault'
          PROVE  \/ s \in struck' \cup withdrawn'
                 \/ \E x \in Faulty : faults'[x].serial = s
      <3>1. CASE s = lastFault + 1
        BY <2>2, <3>1
      <3>2. CASE s # lastFault + 1
        <4>1. s \in 1..lastFault
          BY <2>1, <3>2
        <4>. QED
          BY <2>1, <2>2, <4>1
      <3>. QED
        BY <3>1, <3>2
    <2>. QED
      BY <2>2, <2>3, <2>4, <2>5, <2>6, <2>7, <2>8
  <1>2. ASSUME NEW e \in Endpoints, ApplyFault(e)
        PROVE  FaultInv'
    <2>1. /\ lastFault' = lastFault
          /\ withdrawn' = withdrawn
          /\ struck' = struck \cup ({FaultAt(e).serial} \ {0})
          /\ faults' = [x \in Faulty |-> IF x = e THEN NoFault ELSE faults[x]]
      BY <1>2 DEF ApplyFault, FaultsAfterPop
    <2>2. /\ faults' = [x \in Faulty |-> faults'[x]]
          /\ \A x \in Faulty : x = e => faults'[x].serial = 0
          /\ \A x \in Faulty : x # e => faults'[x].serial = faults[x].serial
      BY <2>1 DEF NoFault
    <2>3. CASE e \in Faulty
      <3>1. struck' = struck \cup ({faults[e].serial} \ {0})
        BY <2>1, <2>3 DEF FaultAt
      <3>. QED
        BY <2>1, <2>2, <2>3, <3>1
    <2>4. CASE e \notin Faulty
      <3>1. struck' = struck
        BY <2>1, <2>4 DEF FaultAt, NoFault
      <3>. QED
        BY <2>1, <2>2, <2>4, <3>1
    <2>. QED
      BY <2>3, <2>4
  <1>3. CASE ResetControls
    <2>1. /\ lastFault' = lastFault
          /\ struck' = struck
          /\ withdrawn' = withdrawn \cup Configured
          /\ faults' = [x \in Faulty |-> NoFault]
      BY <1>3 DEF ResetControls
    <2>2. /\ faults' = [x \in Faulty |-> faults'[x]]
          /\ \A x \in Faulty : faults'[x].serial = 0
      BY <2>1 DEF NoFault
    <2>3. \A s : s \in Configured <=>
                   s # 0 /\ \E x \in Faulty : faults[x].serial = s
      BY DEF Configured
    <2>. QED
      BY <2>1, <2>2, <2>3
  <1>4. CASE UNCHANGED faultVars
    BY <1>4 DEF faultVars
  <1>. QED
    BY <1>1, <1>2, <1>3, <1>4 DEF FaultStep

LEMMA FaultsImplied == FaultInv => FaultsStrikeOnce
  <1>1. \A s : s \in Configured <=>
                 s # 0 /\ \E x \in Faulty : faults[x].serial = s
    BY DEF Configured
  <1>. QED
    BY <1>1 DEF FaultInv, FaultsStrikeOnce

-----------------------------------------------------------------------------
(* Minted tokens *)

\* Numbers are given out once, and no token on record was minted before a
\* reset.
TokenInv ==
  /\ lastToken \in Nat
  /\ \A m \in minted : m.id \in 1..lastToken
  /\ revoked \subseteq 1..lastToken
  /\ \A m \in minted : m.id \notin revoked
  /\ request = [r \in Requests |-> request[r]]

TokenStep ==
  \/ /\ lastToken' = lastToken + 1
     /\ \E x : minted' = minted \cup {[id |-> lastToken + 1,
                                       expires_at |-> x]}
     /\ UNCHANGED revoked
  \/ /\ minted' = {}
     /\ revoked' = revoked \cup {m.id : m \in minted}
     /\ UNCHANGED lastToken
  \/ UNCHANGED <<minted, lastToken, revoked>>

\* What a step does to the requests: one of them moves on, if any.
RequestStep ==
  \/ UNCHANGED request
  \/ \E r \in Requests : \E x : request' = [request EXCEPT ![r] = x]

LEMMA TokenPreserved ==
  ASSUME TokenInv, TokenStep, RequestStep
  PROVE  TokenInv'
  <1>. USE DEF TokenInv
  <1>1. request' = [r \in Requests |-> request'[r]]
    BY DEF RequestStep
  <1>2. ASSUME NEW x, lastToken' = lastToken + 1, UNCHANGED revoked,
               minted' = minted \cup {[id |-> lastToken + 1,
                                       expires_at |-> x]}
        PROVE  TokenInv'
    <2>1. \A m \in minted' : m \in minted \/ m.id = lastToken + 1
      BY <1>2
    <2>2. lastToken + 1 \notin revoked
      OBVIOUS
    <2>. QED
      BY <1>1, <1>2, <2>1, <2>2
  <1>3. ASSUME minted' = {}, revoked' = revoked \cup {m.id : m \in minted},
               UNCHANGED lastToken
        PROVE  TokenInv'
    BY <1>1, <1>3
  <1>4. ASSUME UNCHANGED <<minted, lastToken, revoked>>
        PROVE  TokenInv'
    BY <1>1, <1>4
  <1>. QED
    BY <1>2, <1>3, <1>4 DEF TokenStep

-----------------------------------------------------------------------------
(* Notes *)

NoteInv ==
  /\ notes = [k \in Storable |-> notes[k]]
  /\ reported = [k \in Storable |-> reported[k]]
  /\ NotesAsReported

\* What is stored is under a key and of a content that the policy allows.
LEMMA StoredIsAllowed ==
  ASSUME NEW b \in Bodies, Stores(b)
  PROVE  /\ b.key \in Keys
         /\ b.key # BlockedKey
         /\ b.content \notin {"long", "blocked"}
  <1>1. b.form = "write_note"
    BY DEF Stores
  <1>2. b.key \in AnyKey
    BY <1>1 DEF Bodies, Broken, Stateless
  <1>3. b.content \notin {"long", "blocked"} /\ b.key # BlockedKey
    BY <1>1 DEF Stores, Denied
  <1>. QED
    BY <1>2, <1>3 DEF Stores, AnyKey

LEMMA BodyKeepsNotes ==
  ASSUME NoteInv, NEW r, NEW b \in Bodies, HandleBody(r, b)
  PROVE  NoteInv'
  <1>. USE DEF NoteInv, NotesAsReported
  <1>1. CASE ~Stores(b)
    <2>1. notes' = notes /\ reported' = reported /\ broken' = broken
      BY <1>1 DEF HandleBody, NotesAfter, Reports
    <2>. QED
      BY <2>1
  <1>2. CASE Stores(b)
    <2>1. /\ b.key \in Storable
          /\ b.key # BlockedKey
          /\ b.content \notin {"long", "blocked"}
      BY <1>2, StoredIsAllowed DEF Storable
    <2>2. notes' = [notes EXCEPT ![b.key] = b.content]
      BY <1>2 DEF HandleBody, NotesAfter
    <2>3. /\ notes' = [k \in Storable |-> notes'[k]]
          /\ notes'[b.key] = b.content
          /\ \A k \in Storable : k # b.key => notes'[k] = notes[k]
      BY <2>1, <2>2
    <2>4. BlockedKey \in Storable
      BY DEF Storable
    <2>5. CASE Reports(b)
      <3>1. /\ reported' = [reported EXCEPT ![b.key] = b.content]
            /\ broken' = broken \ {b.key}
        BY <2>5 DEF HandleBody
      <3>2. /\ reported' = [k \in Storable |-> reported'[k]]
            /\ reported'[b.key] = b.content
            /\ \A k \in Storable : k # b.key => reported'[k] = reported[k]
        BY <2>1, <3>1
      <3>. QED
        BY <2>1, <2>3, <2>4, <3>1, <3>2
    <2>6. CASE ~Reports(b)
      <3>1. reported' = reported /\ broken' = broken \cup {b.key}
        BY <1>2, <2>6 DEF HandleBody, Reports
      <3>. QED
        BY <2>1, <2>3, <2>4, <3>1
    <2>. QED
      BY <2>5, <2>6
  <1>. QED
    BY <1>1, <1>2

-----------------------------------------------------------------------------
(* All steps *)

NoteStep ==
  \/ \E r \in Requests, b \in Bodies : HandleBody(r, b)
  \/ UNCHANGED <<notes, reported, broken>>

BearerInv == ClockInv /\ FaultInv /\ TokenInv /\ NoteInv

LEMMA StepCases ==
  ASSUME [BearerNext]_bearerVars
  PROVE  ClockStep /\ FaultStep /\ TokenStep /\ RequestStep /\ NoteStep
  <1>. USE DEF ClockStep, FaultStep, TokenStep, RequestStep, NoteStep,
         clock, faultVars, Done
  <1>1. ASSUME NEW r \in Requests, NEW e \in Endpoints, NEW t,
               Arrive(r, e, t)
        PROVE  ClockStep /\ FaultStep /\ TokenStep /\ RequestStep /\ NoteStep
    <2>1. RequestStep
      BY <1>1 DEF Arrive
    <2>. QED
      BY <1>1, <2>1 DEF Arrive
  <1>2. ASSUME NEW r \in Requests, McpRequest(r)
        PROVE  ClockStep /\ FaultStep /\ TokenStep /\ RequestStep /\ NoteStep
    <2>1. CASE Authorize(r)
      <3>1. request' = [request EXCEPT ![r] =
                          [request[r] EXCEPT !.stage = "body"]]
        BY <2>1 DEF Authorize
      <3>2. RequestStep
        BY <3>1
      <3>. QED
        BY <2>1, <3>2 DEF Authorize
    <2>2. CASE Refuse(r)
      BY <2>2 DEF Refuse
    <2>3. ASSUME NEW b \in Bodies, HandleBody(r, b)
          PROVE  ClockStep /\ FaultStep /\ TokenStep /\ RequestStep
                   /\ NoteStep
      <3>1. /\ UNCHANGED <<clock, faultVars, minted, lastToken, revoked>>
            /\ request' = [request EXCEPT ![r] = Idle]
        BY <2>3 DEF HandleBody
      <3>. QED
        BY <2>3, <3>1
    <2>. QED
      BY <1>2, <2>1, <2>2, <2>3 DEF McpRequest
  <1>3. ASSUME NEW r \in Requests, Mint(r)
        PROVE  ClockStep /\ FaultStep /\ TokenStep /\ RequestStep /\ NoteStep
    <2>1. TokenStep
      BY <1>3 DEF Mint
    <2>. QED
      BY <1>3, <2>1 DEF Mint
  <1>4. ASSUME NEW r \in Requests, ControlRequest(r)
        PROVE  ClockStep /\ FaultStep /\ TokenStep /\ RequestStep /\ NoteStep
    <2>1. ASSUME NEW e \in Faulty, NEW b \in Behaviors, HandleFault(r, e, b)
          PROVE  ClockStep /\ FaultStep /\ TokenStep /\ RequestStep
                   /\ NoteStep
      BY <2>1 DEF HandleFault
    <2>2. CASE HandleClock(r)
      BY <2>2 DEF HandleClock
    <2>3. CASE HandleReset(r)
      BY <2>3 DEF HandleReset, MintedAfterReset
    <2>. QED
      BY <1>4, <2>1, <2>2, <2>3 DEF ControlRequest
  <1>5. CASE TimePasses
    BY <1>5 DEF TimePasses
  <1>6. CASE UNCHANGED bearerVars
    BY <1>6 DEF bearerVars
  <1>. QED
    BY <1>1, <1>2, <1>3, <1>4, <1>5, <1>6 DEF BearerNext

LEMMA InitInv == BearerInit => BearerInv
  <1>. SUFFICES ASSUME BearerInit PROVE BearerInv
    OBVIOUS
  <1>1. ClockInv
    BY ClockFacts DEF BearerInit, ControlsInit, ClockInv, Clocks
  <1>2. FaultInv
    BY DEF BearerInit, ControlsInit, FaultInv, NoFault
  <1>3. TokenInv
    BY DEF BearerInit, TokenInv
  <1>4. NoteInv
    BY DEF BearerInit, NoteInv, NotesAsReported, NoNote, Storable
  <1>. QED
    BY <1>1, <1>2, <1>3, <1>4 DEF BearerInv

LEMMA StepInv == BearerInv /\ [BearerNext]_bearerVars => BearerInv'
  <1>. SUFFICES ASSUME BearerInv, [BearerNext]_bearerVars PROVE BearerInv'
    OBVIOUS
  <1>1. ClockStep /\ FaultStep /\ TokenStep /\ RequestStep /\ NoteStep
    BY StepCases
  <1>2. ClockInv' /\ FaultInv' /\ TokenInv'
    BY <1>1, ClockPreserved, FaultPreserved, TokenPreserved DEF BearerInv
  <1>3. NoteInv'
    <2>1. CASE UNCHANGED <<notes, reported, broken>>
      BY <2>1 DEF BearerInv, NoteInv, NotesAsReported
    <2>2. ASSUME NEW r \in Requests, NEW b \in Bodies, HandleBody(r, b)
          PROVE  NoteInv'
      BY <2>2, BodyKeepsNotes DEF BearerInv
    <2>. QED
      BY <1>1, <2>1, <2>2 DEF NoteStep
  <1>. QED
    BY <1>2, <1>3 DEF BearerInv

LEMMA AlwaysInv == BearerSpec => []BearerInv
  BY InitInv, StepInv, PTL DEF BearerSpec

\* The server's time is what the tests set it to, plus all they advanced it
\* by, through any sequence of freezing, advancing and resets.
THEOREM ClockSettingsAddUp == BearerSpec => []ClockAddsUp
  BY AlwaysInv, ClockImplied, PTL DEF BearerInv

\* Every fault strikes one request at most, or none, however many are in
\* flight.
THEOREM FaultsAreOneShot == BearerSpec => []FaultsStrikeOnce
  BY AlwaysInv, FaultsImplied, PTL DEF BearerInv

\* The policy decides what gets among the notes, whatever bodies come in.
THEOREM NotesAreAllowed == BearerSpec => []NotesAsReported
  BY AlwaysInv, PTL DEF BearerInv, NoteInv

\* Nothing but the token check takes a request to its body.
LEMMA OnlyCheckPasses ==
  ASSUME TokenInv, [BearerNext]_bearerVars, NEW r \in Requests,
         request'[r].stage = "body", request[r].stage # "body"
  PROVE  Authorize(r)
  <1>. USE DEF TokenInv
  <1>1. ASSUME NEW q \in Requests, Done(q) PROVE FALSE
    <2>1. request'[r] = IF r = q THEN Idle ELSE request[r]
      BY <1>1 DEF Done
    <2>. QED
      BY <2>1 DEF Idle
  <1>2. ASSUME NEW q \in Requests, NEW e \in Endpoints, NEW t,
               Arrive(q, e, t)
        PROVE  FALSE
    <2>1. \/ request' = request
          \/ request' = [request EXCEPT ![q] =
                           [stage |-> "passed", endpoint |-> e, token |-> t]]
      BY <1>2 DEF Arrive
    <2>2. \/ request'[r] = request[r]
          \/ request'[r] = [stage |-> "passed", endpoint |-> e, token |-> t]
      BY <2>1
    <2>. QED
      BY <2>2
  <1>3. ASSUME NEW q \in Requests, Authorize(q) PROVE Authorize(r)
    <2>1. q # r => request'[r] = request[r]
      BY <1>3 DEF Authorize
    <2>. QED
      BY <1>3, <2>1
  <1>4. ~UNCHANGED request
    OBVIOUS
  <1>5. ASSUME NEW q \in Requests, McpRequest(q) PROVE Authorize(r)
    <2>1. CASE Refuse(q)
      BY <1>1, <2>1 DEF Refuse
    <2>2. ASSUME NEW b \in Bodies, HandleBody(q, b) PROVE Authorize(r)
      BY <1>1, <2>2 DEF HandleBody
    <2>. QED
      BY <1>3, <1>5, <2>1, <2>2 DEF McpRequest
  <1>6. ASSUME NEW q \in Requests, Mint(q) \/ ControlRequest(q)
        PROVE  FALSE
    <2>1. Done(q)
      BY <1>6 DEF Mint, ControlRequest, HandleFault, HandleClock, HandleReset
    <2>. QED
      BY <1>1, <2>1
  <1>7. ~TimePasses /\ ~UNCHANGED bearerVars
    BY <1>4 DEF TimePasses, bearerVars
  <1>. QED
    BY <1>2, <1>5, <1>6, <1>7 DEF BearerNext

LEMMA CheckRefusesRevoked ==
  ASSUME TokenInv, NEW r \in Requests, Authorize(r)
  PROVE  request[r].token \notin revoked
  BY DEF Authorize, ValidToken, StaticToken, TokenInv

\* A token minted before a reset never gets a request past the check after it,
\* delayed ones included.
THEOREM RevokedNeverPasses == BearerSpec => RevokedStaysRefused
  <1>1. BearerInv /\ [BearerNext]_bearerVars =>
          [\A r \in Requests :
             request'[r].stage = "body" /\ request[r].stage # "body"
               => request[r].token \notin revoked]_bearerVars
    BY OnlyCheckPasses, CheckRefusesRevoked DEF BearerInv
  <1>. QED
    BY <1>1, AlwaysInv, PTL DEF BearerSpec, RevokedStaysRefused
=============================================================================
