---------------------------- MODULE DeviceGrant ----------------------------
(***************************************************************************)
(* The device authorization grant of mcp/oauth_v2_3l.py over the device    *)
(* tables of the store, and the runs of `mcp-auth login --auth-mode        *)
(* device` (auth/device_code.py) that poll it while a person decides at    *)
(* the verification page.                                                  *)
(*                                                                         *)
(* Every handler runs to its end without awaiting anything but its body,   *)
(* so it is one action.  A login waits for each answer and does nothing    *)
(* else, so a poll and what the login makes of its answer are one action.  *)
(* An answer that is lost is a poll by the client itself, outside any      *)
(* login, followed by the end of the login.                                *)
(***************************************************************************)
EXTENDS TokenStore

CONSTANTS
  UserCodes,    \* user codes that may be drawn: short, so they may collide
  DeviceTTL,
  Logins,       \* runs of the CLI
  LoginClient,  \* the client id each run is given or registers
  LoginScope,   \* the scope each run asks for
  MaxPolls      \* polls a run makes before it gives up: 30 in the code

ASSUME DeviceAssumption ==
  /\ DeviceTTL \in Int
  /\ LoginClient \in [Logins -> Clients]
  /\ LoginScope \in [Logins -> Scopes]
  /\ MaxPolls \in Nat \ {0}

VARIABLES
  deviceCodes,  \* device codes in the store
  userCodes,    \* the device code each user code leads to, 0 for none
  login,        \* state of each run of the CLI
  \* History, read by no action:
  asked,        \* <<device code, client, scope>> of every device request
  approved,     \* device codes the page reported as verified
  denied,       \* device codes a person denied at the page
  lapsed,       \* device codes answered with expired_token
  redeemed      \* pairs <<device code, access token>>

deviceHistory == <<asked, approved, denied, lapsed, redeemed>>
deviceVars == <<storeVars, deviceCodes, userCodes, login, deviceHistory>>

DeviceCodeRecord ==
  [id: Nat, user_code: UserCodes, client: Clients, scope: Scopes,
   verified: BOOLEAN, exp: Int]

\* "error": the login ended with any other error.
Phases == {"idle", "registered", "polling", "loggedIn", "expired",
           "timedOut", "error"}

\* code and token are 0 until the login has one.
LoginState ==
  [phase: Phases, code: Nat, token: Nat, polls: 0..MaxPolls]

DeviceTypeOK ==
  /\ StoreTypeOK
  /\ deviceCodes \subseteq DeviceCodeRecord
  /\ userCodes \in [UserCodes -> Nat]
  /\ login \in [Logins -> LoginState]
  /\ asked \subseteq Nat \X Clients \X Scopes
  /\ approved \subseteq Nat
  /\ denied \subseteq Nat
  /\ lapsed \subseteq Nat
  /\ redeemed \subseteq Nat \X Nat

NoUserCodes == [u \in UserCodes |-> 0]

DeviceInit ==
  /\ StoreInit
  /\ deviceCodes = {}
  /\ userCodes = NoUserCodes
  /\ login = [l \in Logins |->
                [phase |-> "idle", code |-> 0, token |-> 0, polls |-> 0]]
  /\ asked = {}
  /\ approved = {}
  /\ denied = {}
  /\ lapsed = {}
  /\ redeemed = {}

-----------------------------------------------------------------------------
(* POST /oauth/device/authorize and POST /oauth/device/verify/consent *)

NewDeviceCode(c, s, u) ==
  [id |-> lastHandle + 1, user_code |-> u, client |-> c, scope |-> s,
   verified |-> FALSE, exp |-> now + DeviceTTL]

\* Unlike the other endpoints it does not resolve a client named by a URL.  A
\* user code drawn again now leads to the new device code.
DeviceAuthorize(c, s, u) ==
  /\ c \in registered
  /\ "device_code" \in Metadata[c].grants
  /\ ValidateScope(s)
  /\ lastHandle + 1 <= MaxHandles
  /\ deviceCodes' = deviceCodes \cup {NewDeviceCode(c, s, u)}
  /\ userCodes' = [userCodes EXCEPT ![u] = lastHandle + 1]
  /\ lastHandle' = lastHandle + 1
  /\ asked' = asked \cup {<<lastHandle + 1, c, s>>}
  /\ UNCHANGED <<registered, accessTokens, refreshTokens, audit, supported,
                 now, approved, denied, lapsed, redeemed>>

\* verify_device_code, behind the page that says "Device Verified".  Neither
\* an approval nor an audit event is recorded.
DeviceApprove(u) ==
  \E d \in deviceCodes :
    /\ d.id = userCodes[u]
    /\ ~Expired(d)
    /\ deviceCodes' = (deviceCodes \ {d}) \cup {[d EXCEPT !.verified = TRUE]}
    /\ approved' = approved \cup {d.id}
    /\ UNCHANGED <<storeVars, userCodes, login, asked, denied, lapsed,
                   redeemed>>

\* The page that says "Device Denied" changes nothing.
DeviceDeny(u) ==
  /\ userCodes[u] # 0
  /\ denied' = denied \cup {userCodes[u]}
  /\ UNCHANGED <<storeVars, deviceCodes, userCodes, login, asked, approved,
                 lapsed, redeemed>>

-----------------------------------------------------------------------------
(* The device grant of POST /oauth/token *)

ValidDeviceClient(c, secret) ==
  ValidTokenClient(c, "device_code", secret, {})

\* Slip: an expired code is refused but kept.
DeviceCodesUnlessExpired(d) ==
  IF Expired(d) THEN deviceCodes ELSE deviceCodes \ {d}

\* Slip: reads the code and leaves it in the table.
DeviceCodesAfterRead(d) == deviceCodes

\* Slip: drops every device code that bears the user code.
DeviceCodesByUserCode(d) ==
  {e \in deviceCodes : e.user_code # d.user_code}

\* Slip: the user code stays listed.
UserCodesKept(d) == userCodes

\* Slip: whoever presents a verified code gets the token.
AnyonesCode(d, c) == TRUE

\* consume_device_code pops the device code and its user code, to whichever
\* device code that leads by now, before it looks at the record.
DeviceCodesAfterConsume(d) == deviceCodes \ {d}
UserCodesAfterConsume(d) == [userCodes EXCEPT ![d.user_code] = 0]

OwnCode(d, c) == d.client = c

ConsumeDeviceCode(d) ==
  /\ deviceCodes' = DeviceCodesAfterConsume(d)
  /\ userCodes' = UserCodesAfterConsume(d)

\* authorization_pending, whoever asks.
TokenDevicePending(c, secret, d) ==
  /\ ValidDeviceClient(c, secret)
  /\ ~Expired(d)
  /\ ~d.verified
  /\ registered' = RegisteredAfter(c)
  /\ UNCHANGED <<tables, deviceCodes, userCodes, deviceHistory>>

\* expired_token: the code has expired, or was verified for another client.
TokenDeviceExpired(c, secret, d) ==
  /\ ValidDeviceClient(c, secret)
  /\ Expired(d) \/ (d.verified /\ ~OwnCode(d, c))
  /\ registered' = RegisteredAfter(c)
  /\ ConsumeDeviceCode(d)
  /\ lapsed' = lapsed \cup {d.id}
  /\ UNCHANGED <<tables, asked, approved, denied, redeemed>>

TokenDeviceGranted(c, secret, d, o) ==
  /\ ValidDeviceClient(c, secret)
  /\ ~Expired(d)
  /\ d.verified
  /\ OwnCode(d, c)
  /\ registered' = RegisteredAfter(c)
  /\ ConsumeDeviceCode(d)
  /\ IssuePair(c, d.scope, "device_code", OAuthResource(o), o)
  /\ redeemed' = redeemed \cup {<<d.id, lastHandle + 1>>}
  /\ UNCHANGED <<supported, now, asked, approved, denied, lapsed>>

\* A poll by any client, outside a login.
DevicePoll(c, secret, d, o) ==
  /\ \/ TokenDevicePending(c, secret, d)
     \/ TokenDeviceExpired(c, secret, d)
     \/ TokenDeviceGranted(c, secret, d, o)
  /\ UNCHANGED login

-----------------------------------------------------------------------------
(* login_with_device_code *)

EndLogin(l, phase) == login' = [login EXCEPT ![l].phase = phase]

LoginRegister(l) ==
  /\ login[l].phase = "idle"
  /\ RegisterClient(LoginClient[l])
  /\ EndLogin(l, "registered")
  /\ UNCHANGED <<deviceCodes, userCodes, deviceHistory>>

LoginAuthorize(l, u) ==
  /\ login[l].phase \in {"idle", "registered"}
  /\ DeviceAuthorize(LoginClient[l], LoginScope[l], u)
  /\ login' = [login EXCEPT ![l].phase = "polling",
                            ![l].code = lastHandle + 1]

\* Slip: a pending answer is not counted.
PendingUncounted(st) == st

\* Slip: counts on and never gives up.
PendingForever(st) == [st EXCEPT !.polls = @ + 1]

\* Slip: gives up one poll early.
PendingGivesUpEarly(st) ==
  [st EXCEPT !.polls = @ + 1,
             !.phase = IF st.polls + 2 >= MaxPolls THEN "timedOut" ELSE @]

\* The loop sleeps, and after its last round raises.
AfterPending(st) ==
  [st EXCEPT !.polls = @ + 1,
             !.phase = IF st.polls + 1 = MaxPolls THEN "timedOut" ELSE @]

\* The device code of the login, if the store still has it.
CodeOf(l) == {d \in deviceCodes : d.id = login[l].code}

\* A poll of the login; the CLI is a public client and sends no secret.  A
\* device code the store has forgotten is answered like an expired one.
LoginPoll(l) ==
  /\ login[l].phase = "polling"
  /\ LET c == LoginClient[l] IN
     \/ \E d \in CodeOf(l) :
          /\ TokenDevicePending(c, "absent", d)
          /\ login' = [login EXCEPT ![l] = AfterPending(@)]
     \/ \E d \in CodeOf(l) :
          /\ TokenDeviceExpired(c, "absent", d)
          /\ EndLogin(l, "expired")
     \/ \E d \in CodeOf(l), o \in Origins :
          /\ TokenDeviceGranted(c, "absent", d, o)
          /\ login' = [login EXCEPT ![l].phase = "loggedIn",
                                    ![l].token = lastHandle + 1]
     \/ /\ ValidDeviceClient(c, "absent")
        /\ CodeOf(l) = {}
        /\ registered' = RegisteredAfter(c)
        /\ EndLogin(l, "expired")
        /\ UNCHANGED <<tables, deviceCodes, userCodes, deviceHistory>>
     \/ /\ ~ValidDeviceClient(c, "absent")
        /\ registered' = RegisteredAfter(c)
        /\ EndLogin(l, "error")
        /\ UNCHANGED <<tables, deviceCodes, userCodes, deviceHistory>>

\* A request of the login is refused or gets no answer, or it is interrupted.
LoginBreaksOff(l) ==
  /\ login[l].phase \in {"idle", "registered", "polling"}
  /\ EndLogin(l, "error")
  /\ UNCHANGED <<storeVars, deviceCodes, userCodes, deviceHistory>>

-----------------------------------------------------------------------------
(* Test controls *)

DeviceReset ==
  /\ StoreReset
  /\ deviceCodes' = {}
  /\ userCodes' = NoUserCodes
  /\ UNCHANGED <<login, deviceHistory>>

DeviceClock(move) ==
  /\ move
  /\ UNCHANGED <<registered, accessTokens, refreshTokens, audit, supported,
                 lastHandle, deviceCodes, userCodes, login, deviceHistory>>

-----------------------------------------------------------------------------
(* The specification *)

PersonStep == \E u \in UserCodes : DeviceApprove(u) \/ DeviceDeny(u)

LoginStep ==
  \E l \in Logins :
    \/ LoginRegister(l)
    \/ \E u \in UserCodes : LoginAuthorize(l, u)
    \/ LoginPoll(l)

PollStep ==
  \E c \in Clients, secret \in Secrets, d \in deviceCodes,
     o \in Origins :
    DevicePoll(c, secret, d, o)

BreakOffStep == \E l \in Logins : LoginBreaksOff(l)

DeviceNext ==
  \/ PersonStep
  \/ LoginStep
  \/ PollStep
  \/ BreakOffStep
  \/ DeviceReset
  \/ DeviceClock(ConfigureClock)

\* A login between two polls only sleeps, and its requests return or raise.
LoginFairness == \A l \in Logins : WF_deviceVars(LoginPoll(l))

DeviceSpec == DeviceInit /\ [][DeviceNext]_deviceVars /\ LoginFairness

\* Nobody meddles: no reset, no foreign poll, no lost answer, and the clock
\* only goes forward.
UndisturbedNext == PersonStep \/ LoginStep \/ DeviceClock(Tick)

-----------------------------------------------------------------------------
(* Properties *)

\* A user code that can still be entered at the page leads to a device code
\* in the store that bears it, although user codes may be drawn twice and the
\* end of either device code unlists the other's (issue_device_code,
\* consume_device_code).
UserCodesResolve ==
  \A u \in UserCodes :
    userCodes[u] # 0 =>
      \E d \in deviceCodes : d.id = userCodes[u] /\ d.user_code = u

\* A token of the device grant goes back to a device request of the same
\* client for the same scope, approved at the page before the exchange,
\* whoever else polled with its device code.
DeviceTokensApproved ==
  \A p \in redeemed :
    /\ p[1] \in approved
    /\ \A t \in accessTokens : t.id = p[2] =>
         <<p[1], t.client, t.scope>> \in asked

\* A device code once answered with expired_token is gone for good: neither a
\* clock turned back nor a late approval brings the login back (the token
\* endpoint consumes what it finds expired).
ExpiredAnswerIsFinal == \A d \in deviceCodes : d.id \notin lapsed

DeviceTokens(tokens) == {t \in tokens : t.grant = "device_code"}

\* Device codes and what they buy are a ledger of grants too: a device code
\* buys one access token, never returns once it was consumed or forgotten, and
\* nothing but a consumed code leads to a token (issue_device_code,
\* consume_device_code, token).
DeviceLedger == INSTANCE GrantLedger WITH
  Handle   <- 1..MaxHandles,
  used     <- 1..lastHandle,
  pending  <- {d.id : d \in deviceCodes},
  redeemed <- redeemed,
  access   <- {t.id : t \in DeviceTokens(accessTokens)},
  refresh  <- {t.id : t \in DeviceTokens(refreshTokens)}

ImplementsDeviceLedger == DeviceLedger!LedgerSpec

Ended == {"loggedIn", "expired", "timedOut", "error"}

\* A login that waits for its approval ends, whatever becomes of its device
\* code: the loop of login_with_device_code is bounded.
LoginEnds ==
  \A l \in Logins : login[l].phase = "polling" ~> login[l].phase \in Ended

\* "Authorization was denied. Please try again on your device."
\* (oauth_v2_3l.py:219): a login that was denied needs a new device code.
DenialIsFinal == \A p \in redeemed : p[1] \notin denied
=============================================================================
