# Verification of mcp-auth-test-server

TLA+ models of the mock OAuth/MCP server in `src/src/mcp_auth_test_server` and
of the `mcp-auth` CLI in `src/src/mcp_auth_cli`, model-checked with TLC and, in
part, proved with TLAPS for every value of the constants. Paths below are
relative to these two packages unless they say otherwise.

## 1. The system

The server is one FastAPI process on one asyncio event loop. Its state is a
handful of dicts and lists in module-level singletons; there are no worker
threads and nothing is persisted. A handler that awaits nothing but its body is
atomic, and almost all of them read the body before they touch the store. The
CLI is a separate program, one process per command, that talks to the server
over HTTP, keeps its profiles in one JSON file and, in one login mode, runs a
small HTTP server in a second thread.

| Component | Source | State it keeps | Operations | What makes it correct |
| --- | --- | --- | --- | --- |
| Token store, consent records | `auth/token_store.py`, `auth/approval.py`, `auth/audit.py` | clients, codes, access, refresh and device tokens, user codes, approvals, audit events | issue, get (drops what has expired), consume (pops), verify, record approval, reset | a code is used once; expiry is final; user codes lead somewhere; the audit log accounts for the store |
| Authorization, consent, token endpoints | `mcp/oauth_v2_3l.py`, `auth/oauth.py` | none of their own | authorize, consent, token (4 grants), device authorization, device verification | what a flow leaves is backed by a consent; tokens are usable under one origin; no half-done exchange can be repeated |
| MCP resources, JSON-RPC dispatch | `mcp/oauth_v2_3l.py`, `mcp/base.py`, `mcp/policy.py`, `mcp/tools.py` | requests past token validation, the notes | validate token, await body, check the policy, call a tool | only issued tokens are served; notes are what was reported as written and nothing the policy forbids |
| Client registration | `auth/dynamic_registration.py` | - (writes clients) | `POST /oauth/register`, client checks of the endpoints | what is admitted can be used later |
| Client metadata documents | `auth/cimd*.py` | - (writes clients) | resolve, fetch with redirects, validate, admit | the record is that of a document that names the client and was reached over allowed URLs; it does not change |
| Test controls | `test_endpoints.py` | clock, scope override, one-shot faults, policy flag | configure, advance, freeze, mint expired token, reset | the clock adds up; a fault strikes one request; the rest stays correct when time jumps and the store is reset |
| Minted bearer tokens | `auth/bearer.py`, `mcp/bearer_token.py` | dict of tokens | mint, validate, reset | nothing minted before a reset is accepted after it |
| Alternate routers | `auth/oauth_v21.py`, `mcp/oauth_v21.py`, `mcp/device_flow.py`, `mcp/oauth_v2_2l.py` | none of their own: they share the token store, and keep no approvals | authorize, consent, token, MCP resources; not mounted by `app.py` | a code gets one attempt at either router; consent is not bypassed for the other resource; refreshed tokens are usable |
| Trace logger, debug views | `auth/trace_logger.py`, `debug.py` | bounded deque under a lock | record, read, clear | bound, order |
| Discovery, app assembly | `discovery/`, `app.py`, `openapi_examples.py` | none | rendering | - |
| CLI device login | `auth/device_code.py` | one poll loop | authorize, poll up to 30 times | ends; does not miss an approval |
| CLI code login | `auth/auth_code.py` | two threads, a listening port | start server, wait 180 s, close, check, exchange | exchanges only its own redirect; ends |
| CLI profile store | `profiles/store.py`, `cli/commands.py` | `profiles.json`, `profiles.tmp` | load, save, activate, delete | the file is whole; active profiles exist; what is removed stays removed |
| CLI token manager, models | `auth/token_manager.py`, `models.py`, `cli/commands.py` | tokens of a profile | judge, refresh, reacquire, give up, save, call | never loses a refresh token; a call comes too late only by more than the skew |
| CLI discovery, strategies | `auth/discovery.py`, `auth/strategies.py`, `mcp/client.py` | none | choose an auth mode | - |

How they interact: the endpoints call the store directly; the client checks of
the authorization and token endpoints may first admit a URL client; the store
reads the clock of the test controls at every issue and every get; a test reset
clears the store under requests in flight. The CLI polls and redirects over
HTTP; two logins share a callback port, and all commands share one file.

What is hard here: several parties (person, browser, two clients, tests) drive
one store in any order; the clock can be turned back; the MCP endpoint validates
before it awaits; a fault delays one request across others; user codes collide;
the callback server's two threads race; CLI processes overlap or die between two
file operations, or between the server's answer and the save; CLI and server
judge expiry by different clocks. `PROJECT.json` lists
each such hazard at its line, with the properties that would catch it.

## 2. Modules

`EXTENDS` goes downwards; `-->` is refinement by `INSTANCE ... WITH`.

    TokenStore                  clients, access and refresh tokens, clock, audit
      |-- OAuthServer  --> GrantLedger        code, refresh, service grants, MCP
      |     |-- MCOAuthServer
      |     `-- AlternateRouters              the unmounted routers beside it
      |           `-- MCAlternateRouters
      `-- DeviceGrant  --> GrantLedger        device grant and the CLI that polls
            `-- ObservedLogins                ... and who meddled with it
                  `-- MCDeviceGrant
    TestControls, McpDispatch   clock and faults; bodies, policy, notes
      `-- BearerServer                        bearer endpoint, requests in flight
            `-- MCBearerServer
    LoopbackCallback            code login of the CLI: two threads and a port
      `-- MCLoopbackCallback
    ClientAdmission             registration and metadata documents
      `-- MCClientAdmission
    ProfileStore  --> ProfileLedger           the CLI's file, step by step
      `-- MCProfileStore
    CliTokens                   the CLI's tokens against the server's, two clocks
      `-- MCCliTokens

    TokenStoreProofs, OAuthServerProofs (also of AlternateRouters),
    DeviceProofs, BearerProofs, LoopbackProofs, AdmissionProofs,
    ProfileProofs, CliProofs

**TokenStore** holds the tables both grants share and the operators that issue,
get and expire tokens. A record is a TLA+ record with the fields decisions
depend on; handles are numbers drawn from a counter (the code draws random
strings, so a handle is never drawn twice - except the user codes, which are
short, and the handle of a minted token, which is deterministic: both are
modelled as such). The clock is abstract: a test may set it to any instant of
`Time`, backwards included.

**OAuthServer** has one action per handler outcome that changes state:
`AuthorizeAutoApprove`, `AuthorizeConsent`, ..., the exchange of a code and the
ways it can fail after the code was popped (`TokenAuthorizationCodeFails`), the
refresh and service grants, and the MCP endpoint split at its `await` into
validation (`McpAuthorize`) and dispatch (`McpDispatch`). A refusal
that changes nothing is a stuttering step and has no action.

**AlternateRouters** adds the actions of the OAuth 2.1 router to `OAuthServer`:
codes without approvals, exchange and failed exchange of *any* code in the shared
table, refresh of any token, and the token checks of the resources of one grant.
What tells the routers apart is only the resource a code or token was made for.
`app.py` mounts none of them; the module is the server of whoever does.

**DeviceGrant** composes the device endpoints with `mcp-auth login --auth-mode
device`. A login is a bounded poller; a poll and what the login makes of the
answer are one action, as the login waits for it. Lost answers are foreign
polls followed by the end of the login; so are polls of other clients.
**ObservedLogins** adds a history variable, `meddled`, set by resets, foreign
polls, lost answers and a clock set by a test: what a login is promised holds as
long as nobody meddled.

**GrantLedger** is what both grants promise of their codes and of the tokens these
buy. Codes and tokens get handles that were never drawn before, for this grant
or any other (`used`); a code is redeemed or voided and stays out of `pending`;
tokens come into being by redeeming a code or by a refresh, so that an exchange
which fails voids its code and issues nothing; what was dropped is not in force
again. `OAuthServer` and `DeviceGrant` both implement it, with `used` mapped to
the handles drawn from the store (`token_urlsafe`, which does not repeat).

**TestControls** has the clock of `test_endpoints.py` as it is (frozen instant,
offset, wall clock) and the one-shot faults; **McpDispatch** what a body comes to:
refused, crashed, stored, reported. A body is an abstract record: its form, the
class of key and of content that the rules of `mcp/policy.py` tell apart.
**BearerServer** puts them under requests in flight: the middleware pops a fault
and passes the request on, perhaps later (`Arrive`), the endpoint checks the token
(`Authorize`, `Refuse`) and awaits the body (`HandleBody`); mint, reset and
the controls go through the same middleware.

**LoopbackCallback** models main thread and server thread of every login, one
action per access to what they share (`_received_url`, `_event`, the shutdown
flag, the port). Connections are queued, accepted one at a time, and may send a
redirect, another GET, something else, or nothing. Several logins may use the
same `--listen-port`, one after another.

**ClientAdmission** has the rules of `register_dynamic_client`, the URL rules,
the redirect loop and the document rules of the resolver, over a web that
changes at any time. Hosts are classes of addresses. The resolver blocks the
loop and each call makes a resolver of its own, so an admission is one action
and the resolver's cache is never hit (`auth/cimd_integration.py:24`).

**ProfileStore** models every file operation of every command as a step: the
loads of `get_active_profile` and `get_profile`, the load of the change, open
with truncation, write, rename. A file that is renamed or replaced while another
process has it open goes on under its new name or none. **ProfileLedger** is the
store that changes in one go which the file has to look like.

**CliTokens** follows one profile through commands that overlap: `StartCall`
judges the saved token by the CLI's clock, a refresh or reacquisition runs at the
server, the answer is received, saved, and used. The server judges by its own
clock, which is `offset` ahead and may be moved at any time; processes are killed
and answers lost between any two steps (`BreakOff`). The file is written in one
step here; what happens inside is ProfileStore's. Access and refresh tokens are
apart, in the server's tables and in the history of what it dropped
(`goneAccess`, `goneRefresh`): that an access token was refused as expired
excuses nothing that happens to the refresh token of its login.

## 3. Runs

| Run | Shows | States |
| --- | --- | --- |
| `oauth_lifetimes` | a token refused as expired stays refused although the clock goes back; tokens issued or refreshed under either of two origins are accepted somewhere; minted expired tokens are never served, also with a request between validation and dispatch; the audit log accounts for what is stored, through scope overrides and resets | 502,176 |
| `oauth_routers` | both routers on one store: codes get one attempt at either, whatever goes wrong after the pop; every code and token for the mounted resource has its consent, admin scopes a manual and confirmed one; tokens refreshed at the other router stay usable; codes and their tokens implement `GrantLedger`: fresh handles, one redemption, nothing issued by a failed exchange, nothing back | 143,010 |
| `oauth_auto_admin` | finding 1 | violation |
| `device_logins` | colliding user codes resolve; tokens only for who asked and was approved; `expired_token` is final; codes and their tokens implement `GrantLedger`; every login ends; one approved before its last poll keeps its approved code and succeeds, unless its code expires first or somebody meddled | 119,428 |
| `device_denied` | finding 2 | violation |
| `bearer_requests` | the clock is what tests made of it; a fault strikes one request; tokens from before a reset get nobody in after it, not even a delayed request; notes hold what was reported and nothing the policy forbids | 292,008 |
| `loopback_prompt` | only the login's own redirect is exchanged; no timeout is reported when an answer was signalled; no thread serves another login's port; logins end; a signalled redirect that is not overtaken is not lost and is exchanged | 126,697 |
| `loopback_idle` | finding 3 | violation |
| `client_admission` | no client is admitted that can never act; the fetch loop finds exactly the documents the web leads to; URL clients come in as such a document says, and stay vouched for; records never change | 163,840 |
| `profiles_attended` | the file is always whole; active profiles exist; removed profiles stay removed; the file implements `ProfileLedger` | 618,044 |
| `profiles_concurrent` | finding 4 | violation |
| `cli_tokens` | the refresh token of a profile survives commands that overlap, die or lose answers, also after its access token expired; a call is refused as expired only if it lost more time than the skew | 1,216,316 |

Every passing run explores its whole state space, and every property of it has
a mutant in `PROJECT.json`: a slip in a mapped definition (the operators with a
comment "Slip") that makes TLC report the property.

### Bounds, and why they are enough

- OAuth runs: one client or two (of the kinds the seeds, URLs and registration
  make), a plain and an admin scope, two verifiers (one that cannot be encoded),
  `MaxHandles = 4`: a code, its access token and its refresh token, and a
  refreshed token or a second code that competes with the first. Lifetimes of 0
  and 1 over the instants of `Time` contain "before", "at" and "after" expiry, and
  turning back from each. The routers run stands still in time: what expiry does
  is the same for both routers, and the other run's subject.
- `MaxApprovals`, `MaxMinted`, `MaxCalls` cap sets that only grow; equal
  approvals are one.
- Device runs: two logins, one user code for both so that they must collide,
  2 polls for the code's 30: one answered "pending" and one that may be the last.
  `MaxHandles = 6` is two logins with code, access and refresh token each, and
  never binds.
- Bearer run: two requests in flight, so that one can be delayed across any
  sequence of the other's; one note key beside the blocked one; a wall clock that
  ticks once (`MaxWall`), advances of one either way up to one in all
  (`MaxShift`), two faults (`MaxFaults`: one replaced, popped or reset while
  another stands), one minted token (`MaxTokens`: tokens do not influence each
  other) that lives for one second, so that it is before, at and after expiry.
- Loopback runs: two logins on one port, one or two connections; a third
  connection would do what one of the two has done before it.
- Admission: four URLs (two public, one plain http on loopback, one private),
  three documents, `MaxRedirects = 1` for the code's 3: chains of 0, 1 and 2
  redirects and cycles are below, at and above the bound. One admitted client
  beside the seeds (`MaxAdmitted`): clients do not influence each other except
  by id.
- Profiles: two processes, two profiles, two resources; each process runs any
  number of commands, as nothing is counted.
- CLI tokens: two commands on one profile; the server on time or two seconds
  ahead; a skew of 2 below a lifetime of 3 for access tokens and of 4 for refresh
  tokens, and three ticks (`MaxTime`), so that an access token is good with skew
  to spare, good only for the server, at the instant of its expiry, and expired,
  the last while the refresh token lives and after it expired too; one login
  (`MaxLogin`) and two tokens refreshed after it (`MaxHandles = 3`), one per
  command.

`CHECK_DEADLOCK FALSE` is said where the system may stop: handles are used up,
or all logins have ended.

### Fairness

Safety runs have none. `DeviceSpec` has weak fairness of each login's next poll:
the process runs and its requests return or fail. `LoopbackSpec` has weak
fairness of both threads, which includes that `Event.wait(180)` returns and that
the exchange returns or raises; `PromptSpec` adds that whoever connects sends
something or closes - browsers do, but nothing in the code enforces it, which is
what `loopback_idle` shows. People, browsers otherwise, other clients, clocks
and resets are never fair. `ObservedSpec` has the steps and the fairness of
`DeviceSpec`.

## 4. Findings

1. `oauth_auto_admin`: auto-approval of an admin scope is to fall back to the
   consent page, but the page renderer is called without one of its required
   arguments (`mcp/oauth_v2_3l.py:279`): the request ends in an exception.
2. `device_denied`: denying at the verification page changes nothing
   (`mcp/oauth_v2_3l.py:894`): the device code stays, and a login that was
   denied may succeed.
3. `loopback_idle`: when the wait has timed out, `close()` waits for a server
   thread that reads from an idle connection without a timeout
   (`auth/auth_code.py:229`): the login never ends.
4. `profiles_concurrent`: load-modify-save without a lock and around network
   requests: a profile that was logged out comes back when an overlapping
   command saves what it had loaded (`profiles/store.py:45`).

## 5. Proofs

All hold for any sets of clients, scopes, URLs, logins, connections, requests,
any clock, lifetimes and bounds, under the named assumptions of each module
(`StoreAssumption`, `ServerAssumption` and the like, the types of the constants,
which TLC evaluates on every run; `SeedsAssumption` says the seeded clients can
act, `LoginAssumption` that a client with a device grant has no secret, which
registration enforces). `PROJECT.json` lists them under `theorems`, each with the property it proves.

- **Types** (`TypeCorrect`, `DeviceTypeCorrect`, `LoopbackTypeCorrect`). Action
  by action. For `DeviceTypeOK`, which bounds the polls, `PollsLeft` is added: a
  login that still waits has a poll left.
- **`SingleAttempt`** (`CodeGetsOneAttempt`). Inductive invariant `CodeInv`:
  codes in the table were drawn from the counter, are alone with their handle
  and were not attempted; attempts and redemptions are of drawn handles. Without
  the first part a new code could bear an attempted handle.
- **`LedgerRefinement`**, **`OneExchangePerCode`**, **`NothingComesBack`**. Each
  step of the server is a step or a stutter of `GrantLedger`: a grant under a
  fresh handle, a redemption, a refresh, a voiding, or a handle drawn for a token
  of another grant. Given `CodeInv`, the lemmas on handles in `TokenStoreProofs`
  (`FreshHandle`, `FreshHandles`) say that what the store draws was not used.
  What the ledger guarantees is proved of its steps alone and carries over: no
  two redemptions share a code or a token (`LedgerInv`), and a handle that was
  used and is not in force stays out (`LedgerStaysGone`).
- **`ConsentBehindTokens`** (`TokensBackedByConsent`). The property is inductive
  by itself, given types; the lemmas say that consent is inherited from code to
  tokens and from refresh to access token, and that approvals are only lost when
  everything is.
- **`TokensUsable`**, **`MintedNeverServed`**. The lemmas under "What a step does
  to the tables of tokens" say that a step adds at most one pair of tokens, made
  with an audience, a grant and an issuer that fit, or drops some; the minted
  token has a handle that is never drawn, and an issuer no endpoint accepts, so
  it is refused even when the clock is turned back.
- **`ExpiryFinal`**. What was refused as expired was dropped from its table, and
  handles are drawn once: a dropped one is never issued again.
- **`AuditAccounts`**. Steps only add events, and one for each thing they store;
  approvals and their events go together in both directions.
- **Alternate routers** (`RoutersSingleAttempt`, `RoutersLedger`,
  `RoutersConsent`, `RoutersTokensUsable`, `RoutersAudit`, `RoutersExpiryFinal`,
  `RoutersMintedNeverServed`, `RoutersOneExchange`, `RoutersNothingBack`,
  `RoutersTypeCorrect`): the same
  invariants under the steps of the second router, so that every safety theorem
  about the server alone is one about both. What the second router does to
  handles and tables is said once (`V21Handles`: it draws an access token, or a
  pair, or nothing) in the terms the lemmas about the first are stated in. Consent is claimed for the mounted
  resource; the other router cannot disturb it since it makes codes for its own
  resource only, and a refresh keeps the audience.
- **Device grant**: `UserCodesResolve` is inductive by itself, given types, since
  consuming a device code unlists the user code it bears, whichever code that
  leads to; `ExpiredStaysExpired` and
  `DeviceLedgerRefinement` use `HandleInv` (the device counterpart of `CodeInv`);
  `ApprovalBehindDeviceTokens` uses `AskedInv` (records say what happened), and
  `OneTokenPerDeviceCode` and `NoDeviceCodeReturns` say what the ledger gives.
  They are of `DeviceSpec`;
  `ObservedImplements` carries them over to `ObservedSpec`, which the runs check.
- **`ApprovalStays`** (`ApprovalIsKept`) is the part of `ApprovedLoginSucceeds`
  that a step can break: an approved, undisturbed login keeps polling with its
  approved code until it is logged in or told that its own code ran out. Its
  invariants are `CodesInv` (each login has a device code of its own, which its
  client asked for, so nobody else's poll takes it) and `CalmInv` (while nobody
  meddled, a login that polls passes the client checks). What is left to
  fairness is only that it does poll.
- **Bearer server**: `StepCases` reduces each step to what it does to the clock,
  the faults, the tokens and the notes. `ClockSettingsAddUp` uses `ClockInv` (a
  frozen clock moved from where it was frozen, a running one is ahead by the
  offset), `FaultsAreOneShot` uses `FaultInv` (serial numbers are alone with
  their path), `RevokedNeverPasses` uses `TokenInv` (what is minted is not
  revoked, what is revoked was handed out before), `NotesAreAllowed` uses
  `NoteInv`.
- **Loopback**: `ThreadsServeTheirLogin` is inductive with types;
  `TimeoutsAreReal` uses `AnswerInv` (the event is set only when the URL is
  there), `ExchangesOwnRedirect` uses `ExchangeInv` (what was exchanged passed the
  checks and is the result its login ended with). `RedirectsAreKept`
  (`RedirectIsKept`) is likewise the part of `RedirectGoesThrough` that a step can
  break: neither thread loses a signalled redirect between signal and exchange;
  given types, the claim is preserved by each access to what the threads share.
- **Admission**: `AdmissionInv` is `NoDeadClients`, `UrlClientsVouched`, and that
  the seeds are still in the store unchanged, which `RecordsStayFixed` needs for
  resets. The core are `AcceptedCanAct` and `ValidCanAct`: what registration
  accepts, or a valid document says, can act.
- **The fetch of a document** (`FetchFindsAll`, `AdmissionsAreLed`). `Fetch` is a
  recursive function, that is a choice among the functions that satisfy its
  equation (`FetchDefined`). That there is one is shown with a witness that is not
  recursive (`FetchExists`: what paths of redirects reach), so `Fetch` satisfies
  its equation; that it finds just what is reached (`FetchReaches`) is by
  induction over the redirects left, done by hand: the set of numbers for which it
  fails has a smallest one (`SmallestOfSet`), and its predecessor makes it hold.
  `FirstStep` and `StepBack` take a path apart at its first redirect and put it
  together again. `AdmissionsAreLed` says that a URL client comes in only as a
  document says that the web leads to in that state.
- **Profile store** (`FilesAreWhole`, `ActiveOnesExist`, `RemovedStaysOut`,
  `ProfileLedgerRefinement`), all under the hypothesis `OneAtATime`, without
  which finding 4 refutes them. `ProfileInv` says what the one process that
  changes profiles has done so far: it chose a profile the change may be made for
  (`Chosen`), what it loaded is still in the file, and the temporary file has
  what it wrote (`Loaded`). So the rename puts in place what the command makes of
  the present file (`ReplaceEffect`), and that is a step of the ledger; all other
  steps stutter.
- **CLI tokens** (`RefreshTokensSurvive`, `CallsComeInTime`). `CliInv`: the
  profiles in the file and in the commands hold access tokens that the server
  issued, and refresh tokens it has or had reason of their own to drop - expiry or
  a reset -, which both only grow (`ProfileStaysGood`); a command that calls holds a token it got itself or
  judged good with the skew to spare. What is lost against the server's clock
  then adds up to more than the skew if the server finds the token expired.

Only model-checked: liveness (`LoginEnds` of both logins,
`ApprovedLoginSucceeds`, `RedirectGoesThrough`), which with `ENABLED` is out of
the prover's reach; the steps these rely on are proved, as said above. Every
other property of a passing run is the subject of a theorem. No module declares a
`RECURSIVE` operator.

## 6. Not modelled, and the plan

Built in this order: the store with the code flow, its ledger and proofs; the
device grant with its CLI; the callback of the code login; client admission;
the profile store; the alternate routers; the bearer endpoint with the test
controls and the dispatch; the CLI's tokens; the proofs of the profile store; the proofs of the fetch, of
both routers, and of what the liveness properties rely on.

What could still be added is small:

- the device endpoints of `mcp/device_flow.py` repeat those of
  `mcp/oauth_v2_3l.py` (`DeviceGrant`) without URL clients, on the same store;
- the scope policy (`mcp/policy.py`, the policy flag of the test controls) has no
  effect: no endpoint passes `token_scope` (`mcp/base.py:140`);
- `revoke_access_token` (`auth/token_store.py:412`) is called by nothing;
- the trace logger is a bounded deque under a lock that is never held over an
  await, and nothing reads it back into a decision;
- a profile of mode `bearer` is never judged or refreshed.

Left out for good: rendering of pages, metadata and OpenAPI examples, discovery
and the choice of an auth mode (stateless decision lists), argument parsing and
terminal output; the wire formats; a crash of the machine under the CLI, which
syncs nothing; a blocked event loop while a metadata document of the server
itself is fetched, which ends in the fetch's timeout and changes no state.

Observations in code that is modelled, about single answers rather than states,
which no run claims: the policy skips an absent or null argument
(`mcp/policy.py:66`, `:79`), so `dangerous_delete` with `confirm: null` passes although
README.md:160 wants it true; length and patterns are looked for in strings only
(`McpDispatch.Denied`); a body that is not an object, an unhashable key and content
without a length end in an exception (`McpDispatch.Crashes`), the last after the
note was stored; and a reset leaves the notes.
