----------------------------- MODULE CliTokens -----------------------------
(***************************************************************************)
(* How the commands of the CLI keep a profile's tokens good                *)
(* (token_manager.py, models.py, _handle_call, _handle_logout), against a  *)
(* server that judges expiry by a clock of its own: commands that overlap, *)
(* requests that take time, answers that are lost, processes that are      *)
(* killed, a server clock that tests move, and resets.                     *)
(*                                                                         *)
(* One profile and one resource.  The profile file is read and written in  *)
(* one step here; ProfileStore has what happens inside.  A device profile  *)
(* is like one of an authorization code.                                   *)
(***************************************************************************)
EXTENDS Integers

CONSTANTS
  Commands,    \* processes
  Skew,        \* skew_seconds
  AccessTTL,   \* ACCESS_TOKEN_TTL_SECONDS, told as expires_in
  RefreshTTL,  \* REFRESH_TOKEN_TTL_SECONDS
  Offsets,     \* of the server's clock, the tests' or its own
  MaxTime,     \* bound: the CLI's clock stops here
  MaxHandles,  \* bound: tokens issued
  MaxLogin     \* bound: no login once so many are

ASSUME CliAssumption ==
  /\ Skew \in Nat
  /\ AccessTTL \in Nat
  /\ RefreshTTL \in Nat
  /\ Offsets \subseteq Int
  /\ 0 \in Offsets
  /\ MaxTime \in Nat
  /\ MaxHandles \in Nat
  /\ MaxLogin \in Nat

VARIABLES
  now,         \* utcnow of the CLI
  offset,      \* the server's clock minus the CLI's
  access,      \* _access_tokens: handle, and both clocks when it was issued
  refresh,     \* _refresh_tokens
  lastHandle,
  clients,     \* _clients the profile can be of
  file,        \* the profile, as saved
  command,     \* where each process is
  \* History, read by no action; a handle may be in one and not in the other:
  goneAccess,  \* access tokens the server dropped as expired or by a reset
  goneRefresh  \* refresh tokens it dropped so

gone == <<goneAccess, goneRefresh>>
serverVars == <<access, refresh, lastHandle, clients, gone>>
cliVars == <<now, offset, serverVars, file, command>>

NoToken == 0

\* Of a Profile: auth_mode, client_id, access_token, refresh_token, expires_at;
\* what is absent is NoToken or {}.
NoProfile ==
  [mode |-> "none", client |-> NoToken, access |-> NoToken,
   refresh |-> NoToken, expires |-> {}]

Modes == {"auth-code", "client-creds"}

Idle == [stage |-> "idle"]

CliInit ==
  /\ now = 0
  /\ offset \in Offsets
  /\ access = {}
  /\ refresh = {}
  /\ lastHandle = 0
  /\ clients = {}
  /\ file = NoProfile
  /\ command = [c \in Commands |-> Idle]
  /\ goneAccess = {}
  /\ goneRefresh = {}

Goto(c, state) == command' = [command EXCEPT ![c] = state]

-----------------------------------------------------------------------------
(* The server *)

ServerTime == now + offset

ExpiresAt(t) == t.at + t.off + AccessTTL

\* get_access_token, get_refresh_token
GoodAccess(h) == \E t \in access : t.id = h /\ ~(ExpiresAt(t) < ServerTime)
GoodRefresh(h) == \E t \in refresh : t.id = h /\ ~(t.exp < ServerTime)

\* issue_access_token
IssueAccess ==
  /\ lastHandle < MaxHandles
  /\ lastHandle' = lastHandle + 1
  /\ access' =
       access \cup {[id |-> lastHandle + 1, at |-> now, off |-> offset]}

\* A login's tokens: an access token and, unless it is one of client
\* credentials, a refresh token.  Both bear the login's number, as handles of
\* two tables: neither goes because the other does.
IssueTokens(mode) ==
  /\ IssueAccess
  /\ refresh' =
       IF mode = "client-creds" THEN refresh
       ELSE refresh \cup
              {[id |-> lastHandle + 1, exp |-> ServerTime + RefreshTTL]}
  /\ UNCHANGED gone

-----------------------------------------------------------------------------
(* The profile *)

\* Slip: a token is good for the CLI until the very end.
UnexpiredAccessToken(p) ==
  p.access # NoToken /\ \A e \in p.expires : e > now

\* is_access_token_valid
IsAccessTokenValid(p) ==
  p.access # NoToken /\ \A e \in p.expires : e > now + Skew

\* set_token_response
SetTokenResponse(p, answer) ==
  [p EXCEPT
     !.access  = answer.access,
     !.refresh = IF answer.refresh = NoToken THEN p.refresh
                 ELSE answer.refresh,
     !.expires = {now + AccessTTL}]

-----------------------------------------------------------------------------
(* login *)

\* The token request of a login, with a client of its own, named by the handle
\* too; the logins themselves are in OAuthServer, DeviceGrant and
\* LoopbackCallback.
Login(c, mode) ==
  /\ command[c].stage = "idle"
  /\ lastHandle < MaxLogin
  /\ IssueTokens(mode)
  /\ clients' = clients \cup {lastHandle + 1}
  /\ Goto(c, [stage |-> "answered", login |-> TRUE, checked |-> {},
              profile |-> [NoProfile EXCEPT !.mode = mode,
                                            !.client = lastHandle + 1],
              answer |-> [access |-> lastHandle + 1,
                          refresh |-> IF mode = "client-creds" THEN NoToken
                                      ELSE lastHandle + 1]])
  /\ UNCHANGED <<now, offset, file>>

-----------------------------------------------------------------------------
(* call *)

NoAnswer == [access |-> NoToken, refresh |-> NoToken]

Loaded(stage, checked) ==
  [stage |-> stage, login |-> FALSE, checked |-> checked, profile |-> file,
   answer |-> NoAnswer]

\* ensure_valid_access_token, up to its request; without a valid token, a
\* refresh token or client credentials the command ends: "Run login again."
StartCall(c) ==
  /\ command[c].stage = "idle"
  /\ file # NoProfile
  /\ \/ /\ IsAccessTokenValid(file)
        /\ Goto(c, Loaded("saving", {now}))
     \/ /\ ~IsAccessTokenValid(file)
        /\ file.refresh # NoToken
        /\ Goto(c, Loaded("refreshing", {}))
     \/ /\ ~IsAccessTokenValid(file)
        /\ file.refresh = NoToken
        /\ file.mode = "client-creds"
        /\ Goto(c, Loaded("reacquiring", {}))
  /\ UNCHANGED <<now, offset, serverVars, file>>

Answered(c) ==
  Goto(c, [command[c] EXCEPT
             !.stage = "answered",
             !.answer = [access  |-> lastHandle + 1,
                         refresh |-> command[c].profile.refresh]])

\* Slip: a refresh token is good for one refresh.
RefreshTokensAfterUse(h) == {t \in refresh : t.id # h}

RefreshTokensAfterGet(h) ==
  {t \in refresh : t.id # h \/ ~(t.exp < ServerTime)}

Known(c) == command[c].profile.client \in clients

\* The token endpoint refreshes, and sends the refresh token back.
HandleRefresh(c) ==
  /\ command[c].stage = "refreshing"
  /\ Known(c)
  /\ GoodRefresh(command[c].profile.refresh)
  /\ refresh' = RefreshTokensAfterGet(command[c].profile.refresh)
  /\ IssueAccess
  /\ Answered(c)
  /\ UNCHANGED <<now, offset, clients, gone, file>>

\* "Token request failed" ends the command.
RefuseRefresh(c) ==
  /\ command[c].stage = "refreshing"
  /\ ~(Known(c) /\ GoodRefresh(command[c].profile.refresh))
  /\ IF Known(c)
     THEN /\ refresh' = RefreshTokensAfterGet(command[c].profile.refresh)
          /\ goneRefresh' =
               goneRefresh \cup {t.id : t \in refresh \ refresh'}
     ELSE UNCHANGED <<refresh, goneRefresh>>
  /\ Goto(c, Idle)
  /\ UNCHANGED <<now, offset, access, lastHandle, clients, goneAccess, file>>

HandleReacquire(c) ==
  /\ command[c].stage = "reacquiring"
  /\ \/ /\ Known(c)
        /\ IssueAccess
        /\ Answered(c)
     \/ /\ ~Known(c)
        /\ Goto(c, Idle)
        /\ UNCHANGED <<access, lastHandle>>
  /\ UNCHANGED <<now, offset, refresh, clients, gone, file>>

Receive(c) ==
  /\ command[c].stage = "answered"
  /\ Goto(c, [command[c] EXCEPT
                !.stage = "saving",
                !.profile = SetTokenResponse(@, command[c].answer)])
  /\ UNCHANGED <<now, offset, serverVars, file>>

\* upsert_active_profile; a login ends here.
Save(c) ==
  /\ command[c].stage = "saving"
  /\ file' = command[c].profile
  /\ Goto(c, IF command[c].login THEN Idle
             ELSE [command[c] EXCEPT !.stage = "calling"])
  /\ UNCHANGED <<now, offset, serverVars>>

\* call_mcp reaches the resource, which drops an expired token; a refusal is
\* not tried again.
HandleCall(c) ==
  /\ command[c].stage = "calling"
  /\ access' = {t \in access : \/ t.id # command[c].profile.access
                               \/ GoodAccess(t.id)}
  /\ goneAccess' = goneAccess \cup {t.id : t \in access \ access'}
  /\ Goto(c, Idle)
  /\ UNCHANGED <<now, offset, refresh, lastHandle, clients, goneRefresh, file>>

\* The process is killed, or a request or an answer is lost.
BreakOff(c) ==
  /\ command[c].stage # "idle"
  /\ Goto(c, Idle)
  /\ UNCHANGED <<now, offset, serverVars, file>>

-----------------------------------------------------------------------------
(* logout *)

Logout ==
  /\ file # NoProfile
  /\ file' = NoProfile
  /\ UNCHANGED <<now, offset, serverVars, command>>

LogoutKeepClient ==
  /\ file # NoProfile
  /\ file' = [NoProfile EXCEPT !.mode = file.mode, !.client = file.client]
  /\ UNCHANGED <<now, offset, serverVars, command>>

-----------------------------------------------------------------------------
(* Clocks and resets *)

Tick ==
  /\ now < MaxTime
  /\ now' = now + 1
  /\ UNCHANGED <<offset, serverVars, file, command>>

\* configure_clock, or clocks that drift.
Drift(o) ==
  /\ offset' = o
  /\ UNCHANGED <<now, serverVars, file, command>>

\* reset_state; of the clients, those are left that are seeded again.
Reset ==
  /\ access' = {}
  /\ refresh' = {}
  /\ offset' = 0
  /\ clients' \in SUBSET clients
  /\ goneAccess' = goneAccess \cup {t.id : t \in access}
  /\ goneRefresh' = goneRefresh \cup {t.id : t \in refresh}
  /\ UNCHANGED <<now, lastHandle, file, command>>

-----------------------------------------------------------------------------
(* The specification *)

CommandStep(c) ==
  \/ \E mode \in Modes : Login(c, mode)
  \/ StartCall(c)
  \/ HandleRefresh(c)
  \/ RefuseRefresh(c)
  \/ HandleReacquire(c)
  \/ Receive(c)
  \/ Save(c)
  \/ HandleCall(c)
  \/ BreakOff(c)

CliNext ==
  \/ \E c \in Commands : CommandStep(c)
  \/ Logout
  \/ LogoutKeepClient
  \/ Tick
  \/ \E o \in Offsets : Drift(o)
  \/ Reset

CliSpec == CliInit /\ [][CliNext]_cliVars

-----------------------------------------------------------------------------
(* Properties *)

Profiles == {file} \cup
  {command[c].profile : c \in {x \in Commands : command[x].stage # "idle"}}

\* A refresh token that a profile holds is on record at the server until it
\* expires there or the server is reset, whatever becomes of the access tokens
\* of the login: commands that overlap, are killed or lose an answer between
\* the server's step and the save never cost the login (_handle_call,
\* set_token_response, get_refresh_token).
RefreshTokenSurvives ==
  \A p \in Profiles :
    \/ p.refresh \in {NoToken} \cup goneRefresh
    \/ \E t \in refresh : t.id = p.refresh

\* What a call lost against the server's clock since the token was judged
\* good: the time its request took, the time the token's own answer took, and
\* what the server's clock gained.  Without a judgement, a new token's age.
Lost(x, t) ==
  IF x.checked = {} THEN now - t.at + offset - t.off
  ELSE LET e == CHOOSE e \in x.profile.expires : TRUE
           judged == CHOOSE i \in x.checked : TRUE
       IN  (now - judged) + (e - AccessTTL - t.at) + (offset - t.off)

\* A call is refused as expired only if it lost more than the skew allows for
\* (more than the lifetime, with a token just obtained), or the server was
\* reset or had refused the token before (is_access_token_valid,
\* get_access_token).
CallsInTime ==
  \A c \in {x \in Commands : command[x].stage = "calling"} :
    LET x == command[c] IN
    \/ GoodAccess(x.profile.access)
    \/ x.profile.access \in goneAccess
    \/ \E t \in access :
         /\ t.id = x.profile.access
         /\ Lost(x, t) > (IF x.checked = {} THEN AccessTTL ELSE Skew)
=============================================================================
