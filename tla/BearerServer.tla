---------------------------- MODULE BearerServer ----------------------------
(***************************************************************************)
(* The bearer-token endpoint, the tokens minted for it, its notes and the  *)
(* test controls, with several requests in flight.  Every request goes     *)
(* through the fault middleware (app.py), and the event loop may turn to   *)
(* others while it sleeps there, between the middleware and its handler,   *)
(* and while the MCP endpoint awaits a body.                               *)
(***************************************************************************)
EXTENDS TestControls, McpDispatch

CONSTANTS
  Requests,    \* that can be in flight at once
  TokenTTL,    \* MINTED_TOKEN_TTL_SECONDS
  MaxTokens    \* bound: tokens minted

ASSUME BearerAssumption ==
  /\ {"mcp", "mint", "faults", "clock", "reset"} = Endpoints
  /\ TokenTTL \in Nat
  /\ MaxTokens \in Nat

VARIABLES
  minted,      \* _minted_tokens
  lastToken,   \* number of the last token minted
  request,     \* where each request is
  notes,       \* _NOTE_STORAGE
  \* history
  revoked,     \* tokens minted before a reset
  reported,    \* the content each key got from the last request to succeed
  broken       \* keys written by a request that failed since

bearerVars == <<clock, faultVars, minted, lastToken, request, notes, revoked,
                reported, broken>>

StaticToken == 0

Idle == [stage |-> "idle"]

BearerInit ==
  /\ ControlsInit
  /\ minted = {}
  /\ lastToken = 0
  /\ request = [r \in Requests |-> Idle]
  /\ notes = [k \in Storable |-> NoNote]
  /\ revoked = {}
  /\ reported = notes
  /\ broken = {}

-----------------------------------------------------------------------------
(* The fault middleware *)

\* A request for an endpoint, with a token handed out before; the middleware
\* answers it or, perhaps after a delay, passes it on.
Arrive(r, e, t) ==
  /\ request[r].stage = "idle"
  /\ ApplyFault(e)
  /\ request' =
       IF Answers(FaultAt(e)) THEN request
       ELSE [request EXCEPT ![r] =
               [stage |-> "passed", endpoint |-> e, token |-> t]]
  /\ UNCHANGED <<clock, minted, lastToken, notes, revoked, reported, broken>>

At(r, e) == request[r].stage = "passed" /\ request[r].endpoint = e

Done(r) == request' = [request EXCEPT ![r] = Idle]

-----------------------------------------------------------------------------
(* POST /mcp/bearer-token *)

\* validate_bearer_token_header; a minted token is no longer good at the very
\* instant it expires.
ValidToken(t) ==
  \/ t = StaticToken
  \/ \E m \in minted : m.id = t /\ m.expires_at > CurrentTime

Authorize(r) ==
  /\ At(r, "mcp")
  /\ ValidToken(request[r].token)
  /\ request' = [request EXCEPT ![r].stage = "body"]
  /\ UNCHANGED <<clock, faultVars, minted, lastToken, notes, revoked,
                 reported, broken>>

Refuse(r) ==
  /\ At(r, "mcp")
  /\ ~ValidToken(request[r].token)
  /\ Done(r)
  /\ UNCHANGED <<clock, faultVars, minted, lastToken, notes, revoked,
                 reported, broken>>

\* The body has arrived.
HandleBody(r, b) ==
  /\ request[r].stage = "body"
  /\ Done(r)
  /\ notes' = NotesAfter(b, notes)
  /\ reported' = IF Reports(b) THEN [reported EXCEPT ![b.key] = b.content]
                               ELSE reported
  /\ broken' = IF Reports(b) THEN broken \ {b.key}
               ELSE IF Crashes(b) /\ Stores(b) THEN broken \cup {b.key}
               ELSE broken
  /\ UNCHANGED <<clock, faultVars, minted, lastToken, revoked>>

-----------------------------------------------------------------------------
(* POST /test-auth/bearer-token/mint and the test controls *)

\* mint_bearer_token
Mint(r) ==
  /\ At(r, "mint")
  /\ lastToken < MaxTokens
  /\ lastToken' = lastToken + 1
  /\ minted' = minted \cup {[id |-> lastToken + 1,
                             expires_at |-> CurrentTime + TokenTTL]}
  /\ Done(r)
  /\ UNCHANGED <<clock, faultVars, notes, revoked, reported, broken>>

HandleFault(r, e, b) ==
  /\ At(r, "faults")
  /\ ConfigureFault(e, b)
  /\ Done(r)
  /\ UNCHANGED <<clock, minted, lastToken, notes, revoked, reported, broken>>

\* configure_clock
HandleClock(r) ==
  /\ At(r, "clock")
  /\ \/ \E i \in Instants : Freeze(i)
     \/ \E n \in Intervals : Advance(n)
  /\ Done(r)
  /\ UNCHANGED <<faultVars, minted, lastToken, notes, revoked, reported,
                 broken>>

\* Slip: a reset of the store and the controls only.
MintedKept == minted

\* reset_minted_tokens
MintedAfterReset == {}

\* reset_state; the notes stay.
HandleReset(r) ==
  /\ At(r, "reset")
  /\ ResetControls
  /\ minted' = MintedAfterReset
  /\ revoked' = revoked \cup {m.id : m \in minted}
  /\ Done(r)
  /\ UNCHANGED <<lastToken, notes, reported, broken>>

TimePasses ==
  /\ Tick
  /\ UNCHANGED <<faultVars, minted, lastToken, request, notes, revoked,
                 reported, broken>>

-----------------------------------------------------------------------------
(* The specification *)

McpRequest(r) ==
  Authorize(r) \/ Refuse(r) \/ \E b \in Bodies : HandleBody(r, b)

ControlRequest(r) ==
  \/ \E e \in Faulty, b \in Behaviors : HandleFault(r, e, b)
  \/ HandleClock(r)
  \/ HandleReset(r)

BearerNext ==
  \/ \E r \in Requests :
       \/ \E e \in Endpoints, t \in 0..lastToken :
            Arrive(r, e, IF e = "mcp" THEN t ELSE StaticToken)
       \/ McpRequest(r)
       \/ Mint(r)
       \/ ControlRequest(r)
  \/ TimePasses

BearerSpec == BearerInit /\ [][BearerNext]_bearerVars

-----------------------------------------------------------------------------
(* Properties *)

\* A token minted before a reset never gets a request past the check after
\* it, not even one that was sent before the reset and delayed across it
\* (reset_minted_tokens, validate_bearer_token_header).
RevokedStaysRefused ==
  [][\A r \in Requests :
       request'[r].stage = "body" /\ request[r].stage # "body"
         => request[r].token \notin revoked]_bearerVars

\* A note holds what the last request to succeed wrote, unless one failed with
\* an exception after it had stored: no denied request changes it, in whatever
\* order the bodies of several requests come in; and no text gets in that the
\* policy forbids, under no key (README: "Policy denials return JSON-RPC errors
\* before the tool handler executes"; check_argument_policy, write_note_tool).
NotesAsReported ==
  /\ \A k \in Storable : notes[k] = reported[k] \/ k \in broken
  /\ \A k \in Storable : notes[k] \notin {"long", "blocked"}
  /\ notes[BlockedKey] = NoNote
=============================================================================
