---------------------------- MODULE DeviceProofs ----------------------------
(***************************************************************************)
(* Proofs about DeviceGrant for every value of its constants.              *)
(***************************************************************************)
EXTENDS ObservedLogins, TokenStoreProofs

(* Type correctness *)

\* DeviceTypeOK of everything but the logins.
ServerTypeOK ==
  /\ StoreTypeOK
  /\ deviceCodes \subseteq DeviceCodeRecord
  /\ userCodes \in [UserCodes -> Nat]
  /\ asked \subseteq Nat \X Clients \X Scopes
  /\ approved \subseteq Nat
  /\ denied \subseteq Nat
  /\ lapsed \subseteq Nat
  /\ redeemed \subseteq Nat \X Nat

LEMMA DeviceInitType == DeviceInit => DeviceTypeOK
  BY StoreAssumption, DeviceAssumption
  DEF DeviceInit, DeviceTypeOK, StoreInit, StoreTypeOK, NoUserCodes,
    LoginState, Phases

LEMMA AuthorizeType ==
  ASSUME ServerTypeOK, NEW c \in Clients, NEW s \in Scopes,
         NEW u \in UserCodes, DeviceAuthorize(c, s, u)
  PROVE  ServerTypeOK'
  <1>1. NewDeviceCode(c, s, u) \in DeviceCodeRecord
    BY StoreAssumption, DeviceAssumption
    DEF NewDeviceCode, DeviceCodeRecord, ServerTypeOK, StoreTypeOK
  <1>2. <<lastHandle + 1, c, s>> \in Nat \X Clients \X Scopes
    BY DEF ServerTypeOK, StoreTypeOK
  <1>3. userCodes' \in [UserCodes -> Nat]
    BY DEF DeviceAuthorize, ServerTypeOK, StoreTypeOK
  <1>4. StoreTypeOK'
    BY DEF DeviceAuthorize, ServerTypeOK, StoreTypeOK
  <1>. QED
    BY <1>1, <1>2, <1>3, <1>4 DEF DeviceAuthorize, ServerTypeOK

LEMMA ApproveDeviceType ==
  ASSUME ServerTypeOK, NEW u \in UserCodes, DeviceApprove(u)
  PROVE  ServerTypeOK'
  <1>1. PICK d \in deviceCodes :
          /\ deviceCodes' =
               (deviceCodes \ {d}) \cup {[d EXCEPT !.verified = TRUE]}
          /\ approved' = approved \cup {d.id}
    BY DEF DeviceApprove
  <1>2. d \in DeviceCodeRecord
    BY DEF ServerTypeOK
  <1>3. [d EXCEPT !.verified = TRUE] \in DeviceCodeRecord /\ d.id \in Nat
    BY <1>2 DEF DeviceCodeRecord
  <1>4. UNCHANGED <<storeVars, userCodes, asked, denied, lapsed, redeemed>>
    BY DEF DeviceApprove
  <1>5. StoreTypeOK'
    BY <1>4 DEF ServerTypeOK, StoreTypeOK, storeVars, tables
  <1>. QED
    BY <1>1, <1>3, <1>4, <1>5 DEF ServerTypeOK

LEMMA DenyDeviceType ==
  ASSUME ServerTypeOK, NEW u \in UserCodes, DeviceDeny(u)
  PROVE  ServerTypeOK'
  <1>1. userCodes[u] \in Nat
    BY DEF ServerTypeOK
  <1>2. StoreTypeOK'
    BY DEF DeviceDeny, ServerTypeOK, StoreTypeOK, storeVars, tables
  <1>. QED
    BY <1>1, <1>2 DEF DeviceDeny, ServerTypeOK

\* A step that leaves the server alone but for the client it resolves.
LEMMA ResolvedType ==
  ASSUME ServerTypeOK, NEW c \in Clients, registered' = RegisteredAfter(c),
         UNCHANGED <<tables, deviceCodes, userCodes, deviceHistory>>
  PROVE  ServerTypeOK'
  <1>1. StoreTypeOK'
    BY RegisteredType DEF ServerTypeOK, StoreTypeOK, tables
  <1>. QED
    BY <1>1 DEF ServerTypeOK, deviceHistory

LEMMA ConsumeType ==
  ASSUME ServerTypeOK, NEW d \in deviceCodes, ConsumeDeviceCode(d)
  PROVE  /\ deviceCodes' \subseteq DeviceCodeRecord
         /\ userCodes' \in [UserCodes -> Nat]
  BY DEF ConsumeDeviceCode, DeviceCodesAfterConsume, UserCodesAfterConsume,
    ServerTypeOK, DeviceCodeRecord

LEMMA ExpiredType ==
  ASSUME ServerTypeOK, NEW c \in Clients, NEW secret, NEW d \in deviceCodes,
         TokenDeviceExpired(c, secret, d)
  PROVE  ServerTypeOK'
  <1>1. StoreTypeOK'
    BY RegisteredType DEF TokenDeviceExpired, ServerTypeOK, StoreTypeOK, tables
  <1>2. d.id \in Nat
    BY DEF ServerTypeOK, DeviceCodeRecord
  <1>. QED
    BY <1>1, <1>2, ConsumeType DEF TokenDeviceExpired, ServerTypeOK

LEMMA GrantedType ==
  ASSUME ServerTypeOK, NEW c \in Clients, NEW secret, NEW d \in deviceCodes,
         NEW o \in Origins, TokenDeviceGranted(c, secret, d, o)
  PROVE  ServerTypeOK'
  <1>. StoreTypeOK
    BY DEF ServerTypeOK
  <1>1. d.scope \in Scopes /\ d.id \in Nat
    BY DEF ServerTypeOK, DeviceCodeRecord
  <1>2. OAuthResource(o) \in Resources
    BY StoreAssumption DEF OAuthResource, Resources
  <1>3. /\ accessTokens' \subseteq AccessTokenRecord
        /\ refreshTokens' \subseteq RefreshTokenRecord
        /\ audit' \subseteq AuditEvent
        /\ lastHandle' \in Nat
    BY <1>1, <1>2, IssuePairType DEF TokenDeviceGranted, GrantTypes
  <1>4. StoreTypeOK'
    BY <1>3, RegisteredType DEF TokenDeviceGranted, StoreTypeOK
  <1>5. <<d.id, lastHandle + 1>> \in Nat \X Nat
    BY <1>1 DEF StoreTypeOK
  <1>. QED
    BY <1>4, <1>5, ConsumeType DEF TokenDeviceGranted, ServerTypeOK

\* The strengthening the poll counters need: a login still under way has a
\* poll left.
Waiting == {"idle", "registered", "polling"}

PollsLeft ==
  \A l \in Logins :
    login[l].phase \in Waiting => login[l].polls < MaxPolls

TypeInv == DeviceTypeOK /\ PollsLeft

LoginsOK == login \in [Logins -> LoginState] /\ PollsLeft

LEMMA InitPolls == DeviceInit => PollsLeft
  BY DeviceAssumption DEF DeviceInit, PollsLeft, Waiting

\* One login moves on.
LEMMA OneLoginOK ==
  ASSUME LoginsOK, NEW l \in Logins, NEW st \in LoginState,
         st.phase \in Waiting => st.polls < MaxPolls,
         login' = [login EXCEPT ![l] = st]
  PROVE  LoginsOK'
  BY DEF LoginsOK, PollsLeft

\* A login ends with its counters as they are, or has just registered.
LEMMA EndLoginOK ==
  ASSUME LoginsOK, NEW l \in Logins,
         NEW phase \in Phases, EndLogin(l, phase),
         phase \in Waiting => login[l].phase \in Waiting
  PROVE  LoginsOK'
  <1>. DEFINE st == [login[l] EXCEPT !.phase = phase]
  <1>1. login[l] \in LoginState
    BY DEF LoginsOK
  <1>2. /\ st \in LoginState
        /\ st.phase = phase
        /\ st.polls = login[l].polls
    BY <1>1 DEF LoginState
  <1>3. login' = [login EXCEPT ![l] = st]
    BY DEF EndLogin
  <1>. HIDE DEF st
  <1>. QED
    BY <1>2, <1>3, OneLoginOK DEF LoginsOK, PollsLeft

LEMMA PollType ==
  ASSUME ServerTypeOK, LoginsOK, NEW l \in Logins, LoginPoll(l)
  PROVE  ServerTypeOK' /\ LoginsOK'
  <1>. DEFINE c == LoginClient[l]
  <1>. c \in Clients
    BY DeviceAssumption
  <1>1. /\ login[l] \in LoginState
        /\ login[l].polls < MaxPolls
        /\ login[l].polls \in Nat
    BY DEF LoginsOK, PollsLeft, LoginPoll, Waiting, LoginState
  <1>2. ASSUME NEW d \in deviceCodes, TokenDevicePending(c, "absent", d),
               login' = [login EXCEPT ![l] = AfterPending(@)]
        PROVE  ServerTypeOK' /\ LoginsOK'
    <2>1. ServerTypeOK'
      BY <1>2, ResolvedType DEF TokenDevicePending
    <2>2. /\ AfterPending(login[l]) \in LoginState
          /\ AfterPending(login[l]).phase \in Waiting =>
               AfterPending(login[l]).polls < MaxPolls
      <3>1. CASE login[l].polls + 1 = MaxPolls
        <4>1. AfterPending(login[l]) =
                [login[l] EXCEPT !.polls = login[l].polls + 1,
                                 !.phase = "timedOut"]
          BY <1>1, <3>1 DEF AfterPending, LoginState
        <4>2. login[l].polls + 1 \in 0..MaxPolls
          BY <1>1, <3>1, DeviceAssumption
        <4>3. /\ AfterPending(login[l]) \in LoginState
              /\ AfterPending(login[l]).phase = "timedOut"
          BY <1>1, <4>1, <4>2 DEF LoginState, Phases
        <4>. QED
          BY <4>3 DEF Waiting
      <3>2. CASE login[l].polls + 1 # MaxPolls
        <4>1. login[l].polls + 1 \in 0..MaxPolls
              /\ login[l].polls + 1 < MaxPolls
          BY <1>1, <3>2, DeviceAssumption
        <4>2. /\ AfterPending(login[l]).polls = login[l].polls + 1
              /\ AfterPending(login[l]).phase = login[l].phase
              /\ AfterPending(login[l]).code = login[l].code
              /\ AfterPending(login[l]).token = login[l].token
          BY <1>1, <3>2 DEF AfterPending, LoginState
        <4>3. AfterPending(login[l]) =
                [login[l] EXCEPT !.polls = login[l].polls + 1]
          BY <1>1, <3>2 DEF AfterPending, LoginState
        <4>4. AfterPending(login[l]) \in LoginState
          BY <1>1, <4>1, <4>3 DEF LoginState
        <4>. QED
          BY <4>1, <4>2, <4>4
      <3>. QED
        BY <3>1, <3>2
    <2>3. login' = [login EXCEPT ![l] = AfterPending(login[l])]
      BY <1>2
    <2>. QED
      BY <2>1, <2>2, <2>3, OneLoginOK
  <1>3. ASSUME NEW d \in deviceCodes, TokenDeviceExpired(c, "absent", d),
               EndLogin(l, "expired")
        PROVE  ServerTypeOK' /\ LoginsOK'
    BY <1>3, ExpiredType, EndLoginOK DEF Phases, Waiting
  <1>4. ASSUME NEW d \in deviceCodes, NEW o \in Origins,
               TokenDeviceGranted(c, "absent", d, o),
               login' = [login EXCEPT ![l].phase = "loggedIn",
                                      ![l].token = lastHandle + 1]
        PROVE  ServerTypeOK' /\ LoginsOK'
    <2>1. ServerTypeOK'
      BY <1>4, GrantedType
    <2>. DEFINE st == [login[l] EXCEPT !.phase = "loggedIn",
                                       !.token = lastHandle + 1]
    <2>2. lastHandle + 1 \in Nat
      BY DEF ServerTypeOK, StoreTypeOK
    <2>3. st \in LoginState /\ st.phase \notin Waiting
      BY <1>1, <2>2 DEF LoginState, Phases, Waiting
    <2>4. login' = [login EXCEPT ![l] = st]
      BY <1>4
    <2>. HIDE DEF st
    <2>5. PICK s : s = st
      OBVIOUS
    <2>6. LoginsOK'
      BY <2>3, <2>4, <2>5, OneLoginOK
    <2>. QED
      BY <2>1, <2>6
  <1>5. ASSUME registered' = RegisteredAfter(c),
               UNCHANGED <<tables, deviceCodes, userCodes, deviceHistory>>,
               NEW phase \in {"expired", "error"}, EndLogin(l, phase)
        PROVE  ServerTypeOK' /\ LoginsOK'
    BY <1>5, ResolvedType, EndLoginOK DEF Phases, Waiting
  <1>. QED
    BY <1>2, <1>3, <1>4, <1>5 DEF LoginPoll, CodeOf

\* A step that leaves every login alone.
LEMMA LoginsUntouched ==
  ASSUME LoginsOK, UNCHANGED login
  PROVE  LoginsOK'
  BY DEF LoginsOK, PollsLeft

LEMMA DeviceStepType == TypeInv /\ [DeviceNext]_deviceVars => TypeInv'
  <1>. SUFFICES ASSUME ServerTypeOK, LoginsOK, [DeviceNext]_deviceVars
                PROVE  ServerTypeOK' /\ LoginsOK'
    BY DEF TypeInv, DeviceTypeOK, ServerTypeOK, LoginsOK
  <1>1. CASE PersonStep
    BY <1>1, ApproveDeviceType, DenyDeviceType, LoginsUntouched
    DEF PersonStep, DeviceApprove, DeviceDeny
  <1>2. CASE LoginStep
    <2>. PICK l \in Logins : \/ LoginRegister(l)
                             \/ \E u \in UserCodes : LoginAuthorize(l, u)
                             \/ LoginPoll(l)
      BY <1>2 DEF LoginStep
    <2>. LoginClient[l] \in Clients /\ LoginScope[l] \in Scopes
      BY DeviceAssumption
    <2>. login[l] \in LoginState
      BY DEF LoginsOK
    <2>1. CASE LoginRegister(l)
      <3>1. StoreTypeOK'
        BY <2>1, RegisterClientType DEF LoginRegister, ServerTypeOK
      <3>2. ServerTypeOK'
        BY <2>1, <3>1 DEF LoginRegister, ServerTypeOK, deviceHistory
      <3>. QED
        BY <2>1, <3>2, EndLoginOK DEF LoginRegister, Phases, Waiting
    <2>2. ASSUME NEW u \in UserCodes, LoginAuthorize(l, u)
          PROVE  ServerTypeOK' /\ LoginsOK'
      <3>1. ServerTypeOK'
        BY <2>2, AuthorizeType DEF LoginAuthorize
      <3>2. lastHandle + 1 \in Nat
        BY DEF ServerTypeOK, StoreTypeOK
      <3>3. PICK st : st = [login[l] EXCEPT !.phase = "polling",
                                            !.code = lastHandle + 1]
        OBVIOUS
      <3>4. st \in LoginState /\ st.polls = login[l].polls
        BY <3>2, <3>3 DEF LoginState, Phases
      <3>5. login' = [login EXCEPT ![l] = st]
        BY <2>2, <3>3 DEF LoginAuthorize
      <3>6. login[l].polls < MaxPolls
        BY <2>2 DEF LoginAuthorize, LoginsOK, PollsLeft, Waiting
      <3>7. LoginsOK'
        BY <3>4, <3>5, <3>6, OneLoginOK
      <3>. QED
        BY <3>1, <3>7
    <2>. QED
      BY <2>1, <2>2, PollType
  <1>3. CASE PollStep
    <2>. PICK c \in Clients, secret \in Secrets, d \in deviceCodes,
             o \in Origins : DevicePoll(c, secret, d, o)
      BY <1>3 DEF PollStep
    <2>1. ServerTypeOK'
      BY ResolvedType, ExpiredType, GrantedType
      DEF DevicePoll, TokenDevicePending
    <2>. QED
      BY <2>1, LoginsUntouched DEF DevicePoll
  <1>4. CASE BreakOffStep
    <2>. PICK l \in Logins : LoginBreaksOff(l)
      BY <1>4 DEF BreakOffStep
    <2>1. ServerTypeOK'
      BY DEF LoginBreaksOff, ServerTypeOK, StoreTypeOK, storeVars, tables,
        deviceHistory
    <2>. QED
      BY <2>1, EndLoginOK DEF LoginBreaksOff, Phases, Waiting
  <1>5. CASE DeviceReset
    <2>1. StoreTypeOK'
      BY <1>5, StoreResetType DEF DeviceReset, ServerTypeOK
    <2>2. ServerTypeOK'
      BY <1>5, <2>1 DEF DeviceReset, ServerTypeOK, NoUserCodes, deviceHistory
    <2>. QED
      BY <1>5, <2>2, LoginsUntouched DEF DeviceReset
  <1>6. CASE DeviceClock(ConfigureClock)
    <2>1. ServerTypeOK'
      BY <1>6
      DEF DeviceClock, ConfigureClock, ServerTypeOK, StoreTypeOK,
        deviceHistory
    <2>. QED
      BY <1>6, <2>1, LoginsUntouched DEF DeviceClock
  <1>7. CASE UNCHANGED deviceVars
    <2>1. ServerTypeOK'
      BY <1>7
      DEF deviceVars, deviceHistory, storeVars, tables, ServerTypeOK,
        StoreTypeOK
    <2>. QED
      BY <1>7, <2>1, LoginsUntouched DEF deviceVars
  <1>. QED
    BY <1>1, <1>2, <1>3, <1>4, <1>5, <1>6, <1>7 DEF DeviceNext

\* The device tables keep their types and no login polls more than MaxPolls
\* times, whoever else polls, approves or resets.
THEOREM DeviceTypeCorrect == DeviceSpec => []DeviceTypeOK
  <1>1. DeviceInit => TypeInv
    BY DeviceInitType, InitPolls DEF TypeInv
  <1>2. TypeInv => DeviceTypeOK
    BY DEF TypeInv
  <1>. QED
    BY <1>1, <1>2, DeviceStepType, PTL DEF DeviceSpec

-----------------------------------------------------------------------------
(* What a step does to the device tables *)

\* The steps of DeviceNext, told apart by what they do to the device codes,
\* the user codes and their histories.
Issued ==
  \E c \in Clients, s \in Scopes, u \in UserCodes : DeviceAuthorize(c, s, u)

Verified == \E u \in UserCodes : DeviceApprove(u)

Voided ==
  \E c \in Clients, secret \in Secrets, d \in deviceCodes :
    TokenDeviceExpired(c, secret, d)

Granted ==
  \E c \in Clients, secret \in Secrets, d \in deviceCodes, o \in Origins :
    TokenDeviceGranted(c, secret, d, o)

Untouched ==
  UNCHANGED <<accessTokens, refreshTokens, lastHandle, deviceCodes,
              userCodes, asked, approved, lapsed, redeemed>>

LEMMA DeviceCases ==
  ASSUME [DeviceNext]_deviceVars
  PROVE  \/ Issued
         \/ Verified
         \/ Voided
         \/ Granted
         \/ DeviceReset
         \/ Untouched
  <1>1. CASE PersonStep
    BY <1>1
    DEF PersonStep, Verified, DeviceDeny, Untouched, storeVars, tables
  <1>2. CASE LoginStep
    <2>. PICK l \in Logins : \/ LoginRegister(l)
                             \/ \E u \in UserCodes : LoginAuthorize(l, u)
                             \/ LoginPoll(l)
      BY <1>2 DEF LoginStep
    <2>. /\ LoginClient[l] \in Clients
         /\ LoginScope[l] \in Scopes
         /\ "absent" \in Secrets
      BY DeviceAssumption DEF Secrets
    <2>1. CASE LoginRegister(l)
      BY <2>1
      DEF LoginRegister, RegisterClient, Untouched, deviceHistory
    <2>2. ASSUME NEW u \in UserCodes, LoginAuthorize(l, u)
          PROVE  Issued
      BY <2>2 DEF LoginAuthorize, Issued
    <2>3. CASE LoginPoll(l)
      BY <2>3
      DEF LoginPoll, CodeOf, TokenDevicePending, Voided, Granted, Untouched,
        tables, deviceHistory
    <2>. QED
      BY <2>1, <2>2, <2>3
  <1>3. CASE PollStep
    BY <1>3
    DEF PollStep, DevicePoll, TokenDevicePending, Voided, Granted, Untouched,
      tables, deviceHistory
  <1>4. CASE BreakOffStep \/ DeviceClock(ConfigureClock)
    BY <1>4
    DEF BreakOffStep, LoginBreaksOff, DeviceClock, Untouched, storeVars,
      tables, deviceHistory
  <1>5. CASE UNCHANGED deviceVars
    BY <1>5 DEF deviceVars, Untouched, storeVars, tables, deviceHistory
  <1>. QED
    BY <1>1, <1>2, <1>3, <1>4, <1>5 DEF DeviceNext

-----------------------------------------------------------------------------
(* User codes *)

\* A user code that is listed resolves: inductive by itself, since consuming a
\* device code unlists the user code it bears, whichever code that leads to.
LEMMA StepUserCodes ==
  ASSUME TypeInv, UserCodesResolve, [DeviceNext]_deviceVars
  PROVE  UserCodesResolve'
  <1>0. userCodes \in [UserCodes -> Nat] /\ lastHandle \in Nat
    BY DEF TypeInv, DeviceTypeOK, StoreTypeOK
  <1>1. CASE Issued
    <2>. PICK c \in Clients, s \in Scopes, u \in UserCodes :
           DeviceAuthorize(c, s, u)
      BY <1>1 DEF Issued
    <2>1. PICK new : new = NewDeviceCode(c, s, u)
      OBVIOUS
    <2>2. new.id = lastHandle + 1 /\ new.user_code = u
      BY <2>1 DEF NewDeviceCode
    <2>3. /\ deviceCodes' = deviceCodes \cup {new}
          /\ userCodes' = [userCodes EXCEPT ![u] = lastHandle + 1]
      BY <2>1 DEF DeviceAuthorize
    <2>4. userCodes'[u] = new.id
      BY <1>0, <2>2, <2>3
    <2>5. ASSUME NEW w \in UserCodes, w # u
          PROVE  userCodes'[w] = userCodes[w]
      BY <1>0, <2>3, <2>5
    <2>. QED
      BY <2>2, <2>3, <2>4, <2>5 DEF UserCodesResolve
  <1>2. CASE Verified
    <2>1. PICK d \in deviceCodes :
            /\ deviceCodes' =
                 (deviceCodes \ {d}) \cup {[d EXCEPT !.verified = TRUE]}
            /\ userCodes' = userCodes
      BY <1>2 DEF Verified, DeviceApprove
    <2>2. d \in DeviceCodeRecord
      BY DEF TypeInv, DeviceTypeOK
    <2>3. PICK e : e = [d EXCEPT !.verified = TRUE]
      OBVIOUS
    <2>4. e.id = d.id /\ e.user_code = d.user_code
      BY <2>2, <2>3 DEF DeviceCodeRecord
    <2>5. \A x \in deviceCodes :
            \E y \in deviceCodes' :
              y.id = x.id /\ y.user_code = x.user_code
      BY <2>1, <2>3, <2>4
    <2>. QED
      BY <2>1, <2>5 DEF UserCodesResolve
  <1>3. CASE Voided \/ Granted
    <2>1. PICK d \in deviceCodes :
            /\ deviceCodes' = deviceCodes \ {d}
            /\ userCodes' = [userCodes EXCEPT ![d.user_code] = 0]
      BY <1>3
      DEF Voided, Granted, TokenDeviceExpired, TokenDeviceGranted,
        ConsumeDeviceCode, DeviceCodesAfterConsume, UserCodesAfterConsume
    <2>2. ASSUME NEW u \in UserCodes, userCodes'[u] # 0
          PROVE  u # d.user_code /\ userCodes'[u] = userCodes[u]
      BY <1>0, <2>1, <2>2
    <2>. QED
      BY <2>1, <2>2 DEF UserCodesResolve
  <1>4. CASE DeviceReset
    BY <1>4 DEF DeviceReset, NoUserCodes, UserCodesResolve
  <1>5. CASE Untouched
    BY <1>5 DEF Untouched, UserCodesResolve
  <1>. QED
    BY <1>1, <1>2, <1>3, <1>4, <1>5, DeviceCases

\* A user code that can still be entered at the page leads to a device code of
\* the store that bears it, however often user codes collide.
THEOREM UserCodesAlwaysResolve == DeviceSpec => []UserCodesResolve
  <1>1. DeviceInit => TypeInv /\ UserCodesResolve
    BY DeviceInitType, InitPolls
    DEF TypeInv, DeviceInit, NoUserCodes, UserCodesResolve
  <1>2. TypeInv /\ UserCodesResolve /\ [DeviceNext]_deviceVars
        => TypeInv' /\ UserCodesResolve'
    BY DeviceStepType, StepUserCodes
  <1>. QED
    BY <1>1, <1>2, PTL DEF DeviceSpec

-----------------------------------------------------------------------------
(* Handles of device codes and tokens *)

\* Inductive: handles in use were drawn from the counter, a device code is
\* named by one record, and what was lapsed or redeemed is not in the table.
HandleInv ==
  /\ \A d \in deviceCodes : d.id <= lastHandle /\ d.id \notin lapsed
  /\ \A d, e \in deviceCodes : d.id = e.id => d = e
  /\ \A h \in lapsed : h <= lastHandle
  /\ \A p \in redeemed :
       /\ p[1] <= lastHandle /\ p[2] <= lastHandle
       /\ \A d \in deviceCodes : d.id # p[1]
  /\ \A t \in accessTokens : t.id <= lastHandle

LEMMA HandleTypes ==
  ASSUME TypeInv
  PROVE  /\ lastHandle \in Nat
         /\ \A d \in deviceCodes : d.id \in Nat
         /\ \A t \in accessTokens : t.id \in Nat
         /\ \A h \in lapsed : h \in Nat
         /\ \A p \in redeemed : p[1] \in Nat /\ p[2] \in Nat
  BY DEF TypeInv, DeviceTypeOK, StoreTypeOK, DeviceCodeRecord,
    AccessTokenRecord

\* Consuming a device code, whatever tokens come of it.
LEMMA ConsumeHandles ==
  ASSUME TypeInv, HandleInv, lastHandle' \in Nat, lastHandle <= lastHandle',
         NEW d \in deviceCodes, NEW h,
         deviceCodes' = deviceCodes \ {d},
         lapsed' \subseteq lapsed \cup {d.id},
         h \in Nat, h <= lastHandle',
         redeemed' \subseteq redeemed \cup {<<d.id, h>>},
         \A t \in accessTokens' : t \in accessTokens \/ t.id <= lastHandle'
  PROVE  HandleInv'
  <1>1. /\ \A x \in deviceCodes : x.id <= lastHandle'
        /\ \A x \in lapsed : x <= lastHandle'
        /\ \A t \in accessTokens : t.id <= lastHandle'
        /\ \A p \in redeemed : p[1] <= lastHandle' /\ p[2] <= lastHandle'
    BY HandleTypes DEF HandleInv
  <1>2. \A x \in deviceCodes' : x \in deviceCodes /\ x.id # d.id
    BY DEF HandleInv
  <1>3. \A x, y \in deviceCodes' : x.id = y.id => x = y
    BY <1>2 DEF HandleInv
  <1>4. \A p \in redeemed' :
          /\ p[1] <= lastHandle' /\ p[2] <= lastHandle'
          /\ \A x \in deviceCodes' : x.id # p[1]
    <2>. TAKE p \in redeemed'
    <2>1. CASE p \in redeemed
      BY <2>1, <1>1, <1>2 DEF HandleInv
    <2>2. CASE p = <<d.id, h>>
      BY <2>2, <1>1, <1>2
    <2>. QED
      BY <2>1, <2>2
  <1>5. \A x \in deviceCodes' : x.id \notin lapsed'
    BY <1>2 DEF HandleInv
  <1>. QED
    BY <1>1, <1>2, <1>3, <1>4, <1>5 DEF HandleInv

LEMMA StepHandles ==
  ASSUME TypeInv, HandleInv, [DeviceNext]_deviceVars
  PROVE  HandleInv'
  <1>1. CASE Issued
    <2>. PICK c \in Clients, s \in Scopes, u \in UserCodes :
           DeviceAuthorize(c, s, u)
      BY <1>1 DEF Issued
    <2>1. PICK new : new = NewDeviceCode(c, s, u)
      OBVIOUS
    <2>2. new.id = lastHandle + 1
      BY <2>1 DEF NewDeviceCode
    <2>3. /\ deviceCodes' = deviceCodes \cup {new}
          /\ lastHandle' = lastHandle + 1
          /\ UNCHANGED <<lapsed, redeemed, accessTokens>>
      BY <2>1 DEF DeviceAuthorize
    <2>4. /\ \A d \in deviceCodes : d.id # new.id /\ d.id <= lastHandle'
          /\ \A h \in lapsed : h # new.id /\ h <= lastHandle'
          /\ \A t \in accessTokens : t.id <= lastHandle'
          /\ \A p \in redeemed : /\ p[1] # new.id
                                  /\ p[1] <= lastHandle'
                                  /\ p[2] <= lastHandle'
          /\ new.id <= lastHandle'
      BY <2>2, <2>3, HandleTypes DEF HandleInv
    <2>. QED
      BY <2>3, <2>4 DEF HandleInv
  <1>2. CASE Verified
    <2>1. PICK d \in deviceCodes :
            /\ deviceCodes' =
                 (deviceCodes \ {d}) \cup {[d EXCEPT !.verified = TRUE]}
            /\ UNCHANGED <<lapsed, redeemed, accessTokens, lastHandle>>
      BY <1>2 DEF Verified, DeviceApprove, storeVars, tables
    <2>2. d \in DeviceCodeRecord
      BY DEF TypeInv, DeviceTypeOK
    <2>3. PICK e : e = [d EXCEPT !.verified = TRUE]
      OBVIOUS
    <2>4. e.id = d.id
      BY <2>2, <2>3 DEF DeviceCodeRecord
    <2>. QED
      BY <2>1, <2>3, <2>4 DEF HandleInv
  <1>3. CASE Voided
    <2>1. PICK d \in deviceCodes :
            /\ deviceCodes' = deviceCodes \ {d}
            /\ lapsed' = lapsed \cup {d.id}
            /\ UNCHANGED <<redeemed, accessTokens, lastHandle>>
      BY <1>3
      DEF Voided, TokenDeviceExpired, ConsumeDeviceCode,
        DeviceCodesAfterConsume, tables
    <2>2. 0 \in Nat /\ 0 <= lastHandle' /\ lastHandle <= lastHandle'
      BY <2>1, HandleTypes
    <2>. QED
      BY <2>1, <2>2, HandleTypes, ConsumeHandles
  <1>4. CASE Granted
    <2>. PICK c \in Clients, secret \in Secrets, d \in deviceCodes,
             o \in Origins : TokenDeviceGranted(c, secret, d, o)
      BY <1>4 DEF Granted
    <2>1. /\ deviceCodes' = deviceCodes \ {d}
          /\ UNCHANGED lapsed
          /\ redeemed' = redeemed \cup {<<d.id, lastHandle + 1>>}
      BY DEF TokenDeviceGranted, ConsumeDeviceCode, DeviceCodesAfterConsume
    <2>2. PICK t : t = NewAccessToken(c, d.scope, "device_code",
                                      OAuthResource(o), o)
      OBVIOUS
    <2>3. t.id = lastHandle + 1
      BY <2>2 DEF NewAccessToken
    <2>4. /\ accessTokens' = accessTokens \cup {t}
          /\ lastHandle' = lastHandle + 1 \/ lastHandle' = lastHandle + 2
      BY <2>2 DEF TokenDeviceGranted, IssuePair, IssueOne, IssueAccessToken
    <2>5. /\ lastHandle' \in Nat
          /\ lastHandle <= lastHandle'
          /\ lastHandle + 1 \in Nat
          /\ lastHandle + 1 <= lastHandle'
      BY <2>4, HandleTypes
    <2>6. PICK h : h = lastHandle + 1
      OBVIOUS
    <2>. QED
      BY <2>1, <2>3, <2>4, <2>5, <2>6, ConsumeHandles
  <1>5. CASE DeviceReset
    BY <1>5
    DEF DeviceReset, StoreReset, deviceHistory, HandleInv
  <1>6. CASE Untouched
    BY <1>6 DEF Untouched, HandleInv
  <1>. QED
    BY <1>1, <1>2, <1>3, <1>4, <1>5, <1>6, DeviceCases

LEMMA InitHandles == DeviceInit => TypeInv /\ HandleInv
  BY DeviceInitType, InitPolls
  DEF TypeInv, DeviceInit, StoreInit, HandleInv

LEMMA HandlesInvariant == DeviceSpec => [](TypeInv /\ HandleInv)
  <1>1. TypeInv /\ HandleInv /\ [DeviceNext]_deviceVars
        => TypeInv' /\ HandleInv'
    BY DeviceStepType, StepHandles
  <1>. QED
    BY <1>1, InitHandles, PTL DEF DeviceSpec

\* Once expired_token was the answer for a device code, the code never comes
\* back into the store, whatever becomes of the clock.
THEOREM ExpiredStaysExpired == DeviceSpec => []ExpiredAnswerIsFinal
  <1>1. HandleInv => ExpiredAnswerIsFinal
    BY DEF HandleInv, ExpiredAnswerIsFinal
  <1>. QED
    BY <1>1, HandlesInvariant, PTL

-----------------------------------------------------------------------------
(* Tokens of the device grant *)

\* Inductive with HandleInv: what the records say is what happened.
AskedInv ==
  /\ \A d \in deviceCodes :
       /\ <<d.id, d.client, d.scope>> \in asked
       /\ d.verified => d.id \in approved
  /\ DeviceTokensApproved

\* A step that issues nothing and forgets no request and no approval.
LEMMA AskedKept ==
  ASSUME AskedInv, asked \subseteq asked', approved \subseteq approved',
         deviceCodes' \subseteq deviceCodes,
         accessTokens' \subseteq accessTokens, redeemed' = redeemed
  PROVE  AskedInv'
  BY DEF AskedInv, DeviceTokensApproved

LEMMA StepAsked ==
  ASSUME TypeInv, HandleInv, AskedInv, [DeviceNext]_deviceVars
  PROVE  AskedInv'
  <1>1. CASE Issued
    <2>. PICK c \in Clients, s \in Scopes, u \in UserCodes :
           DeviceAuthorize(c, s, u)
      BY <1>1 DEF Issued
    <2>1. PICK new : new = NewDeviceCode(c, s, u)
      OBVIOUS
    <2>2. /\ new.id = lastHandle + 1
          /\ new.client = c /\ new.scope = s
          /\ ~new.verified
      BY <2>1 DEF NewDeviceCode
    <2>3. /\ deviceCodes' = deviceCodes \cup {new}
          /\ asked' = asked \cup {<<lastHandle + 1, c, s>>}
          /\ UNCHANGED <<approved, redeemed, accessTokens>>
      BY <2>1 DEF DeviceAuthorize
    <2>4. DeviceTokensApproved'
      BY <2>3 DEF AskedInv, DeviceTokensApproved
    <2>. QED
      BY <2>2, <2>3, <2>4 DEF AskedInv
  <1>2. CASE Verified
    <2>1. PICK d \in deviceCodes :
            /\ deviceCodes' =
                 (deviceCodes \ {d}) \cup {[d EXCEPT !.verified = TRUE]}
            /\ approved' = approved \cup {d.id}
            /\ UNCHANGED <<asked, redeemed, accessTokens>>
      BY <1>2 DEF Verified, DeviceApprove, storeVars, tables
    <2>2. d \in DeviceCodeRecord
      BY DEF TypeInv, DeviceTypeOK
    <2>3. PICK e : e = [d EXCEPT !.verified = TRUE]
      OBVIOUS
    <2>4. e.id = d.id /\ e.client = d.client /\ e.scope = d.scope
      BY <2>2, <2>3 DEF DeviceCodeRecord
    <2>5. DeviceTokensApproved'
      BY <2>1 DEF AskedInv, DeviceTokensApproved
    <2>. QED
      BY <2>1, <2>3, <2>4, <2>5 DEF AskedInv
  <1>3. CASE Voided
    BY <1>3, AskedKept
    DEF Voided, TokenDeviceExpired, ConsumeDeviceCode,
      DeviceCodesAfterConsume, tables
  <1>4. CASE Granted
    <2>. PICK c \in Clients, secret \in Secrets, d \in deviceCodes,
             o \in Origins : TokenDeviceGranted(c, secret, d, o)
      BY <1>4 DEF Granted
    <2>1. PICK t : t = NewAccessToken(c, d.scope, "device_code",
                                      OAuthResource(o), o)
      OBVIOUS
    <2>2. t.id = lastHandle + 1 /\ t.client = d.client /\ t.scope = d.scope
      BY <2>1 DEF NewAccessToken, TokenDeviceGranted, OwnCode
    <2>3. /\ accessTokens' = accessTokens \cup {t}
          /\ deviceCodes' = deviceCodes \ {d}
          /\ redeemed' = redeemed \cup {<<d.id, lastHandle + 1>>}
          /\ UNCHANGED <<asked, approved>>
      BY <2>1
      DEF TokenDeviceGranted, ConsumeDeviceCode, DeviceCodesAfterConsume,
        IssuePair, IssueOne, IssueAccessToken
    <2>4. /\ d.id \in approved
          /\ <<d.id, t.client, t.scope>> \in asked
      BY <2>2 DEF TokenDeviceGranted, AskedInv
    <2>5. /\ \A x \in accessTokens : x.id # t.id
          /\ \A p \in redeemed : p[2] # t.id
      BY <2>2, HandleTypes DEF HandleInv
    <2>6. DeviceTokensApproved'
      <3>. SUFFICES ASSUME NEW p \in redeemed'
                    PROVE  /\ p[1] \in approved
                           /\ \A x \in accessTokens' : x.id = p[2] =>
                                <<p[1], x.client, x.scope>> \in asked
        BY <2>3 DEF DeviceTokensApproved
      <3>1. CASE p \in redeemed
        BY <3>1, <2>3, <2>5 DEF AskedInv, DeviceTokensApproved
      <3>2. CASE p = <<d.id, lastHandle + 1>>
        <4>1. p[1] = d.id /\ p[2] = t.id
          BY <3>2, <2>2
        <4>2. \A x \in accessTokens' : x.id = p[2] => x = t
          BY <4>1, <2>3, <2>5
        <4>. QED
          BY <4>1, <4>2, <2>4
      <3>. QED
        BY <2>3, <3>1, <3>2
    <2>. QED
      BY <2>3, <2>6 DEF AskedInv
  <1>5. CASE DeviceReset
    BY <1>5, AskedKept DEF DeviceReset, StoreReset, deviceHistory
  <1>6. CASE Untouched
    BY <1>6, AskedKept DEF Untouched
  <1>. QED
    BY <1>1, <1>2, <1>3, <1>4, <1>5, <1>6, DeviceCases

\* No device code is turned into a token unless a person approved it, and the
\* token is for the client and scope the device code was asked for.
THEOREM ApprovalBehindDeviceTokens == DeviceSpec => []DeviceTokensApproved
  <1>1. DeviceInit => AskedInv
    BY DEF DeviceInit, AskedInv, DeviceTokensApproved
  <1>2. TypeInv /\ HandleInv /\ AskedInv /\ [DeviceNext]_deviceVars
        => AskedInv'
    BY StepAsked
  <1>3. AskedInv => DeviceTokensApproved
    BY DEF AskedInv
  <1>. QED
    BY <1>1, <1>2, <1>3, HandlesInvariant, PTL DEF DeviceSpec

-----------------------------------------------------------------------------
(* The ledger of grants *)

Pending == {d.id : d \in deviceCodes}
DeviceIds(tokens) == IdsOf("device_code", tokens)

LEMMA DeviceLedgerVoids ==
  ASSUME Pending' \subseteq Pending,
         accessTokens' \subseteq accessTokens,
         refreshTokens' \subseteq refreshTokens,
         UNCHANGED <<redeemed, lastHandle>>
  PROVE  DeviceLedger!Void
  BY DEF Pending, DeviceTokens, DeviceLedger!Void

LEMMA StepDeviceLedger ==
  ASSUME TypeInv, HandleInv, [DeviceNext]_deviceVars
  PROVE  [DeviceLedger!LedgerNext]_(DeviceLedger!ledgerVars)
  <1>. StoreTypeOK
    BY DEF TypeInv, DeviceTypeOK
  <1>1. CASE Issued
    <2>. PICK c \in Clients, s \in Scopes, u \in UserCodes :
           DeviceAuthorize(c, s, u)
      BY <1>1 DEF Issued
    <2>. PICK new : new = NewDeviceCode(c, s, u)
      OBVIOUS
    <2>. PICK h : h = lastHandle + 1
      OBVIOUS
    <2>1. new.id = h
      BY DEF NewDeviceCode
    <2>2. /\ deviceCodes' = deviceCodes \cup {new}
          /\ UNCHANGED <<redeemed, accessTokens, refreshTokens>>
          /\ lastHandle + 1 <= MaxHandles
          /\ lastHandle' = h
      BY DEF DeviceAuthorize
    <2>3. h \in (1..MaxHandles) \ Used /\ 1..lastHandle' = Used \cup {h}
      BY <2>2, FreshHandle
    <2>4. Pending' = Pending \cup {h}
      BY <2>1, <2>2 DEF Pending
    <2>5. DeviceLedger!Grant
      BY <2>2, <2>3, <2>4
      DEF DeviceLedger!Grant, Pending, Used, DeviceTokens
    <2>. QED
      BY <2>5 DEF DeviceLedger!LedgerNext
  <1>2. CASE Verified
    <2>1. PICK d \in deviceCodes :
            /\ deviceCodes' =
                 (deviceCodes \ {d}) \cup {[d EXCEPT !.verified = TRUE]}
            /\ UNCHANGED <<redeemed, lastHandle, accessTokens,
                           refreshTokens>>
      BY <1>2 DEF Verified, DeviceApprove, storeVars, tables
    <2>2. d \in DeviceCodeRecord
      BY DEF TypeInv, DeviceTypeOK
    <2>3. PICK e : e = [d EXCEPT !.verified = TRUE]
      OBVIOUS
    <2>4. e.id = d.id
      BY <2>2, <2>3 DEF DeviceCodeRecord
    <2>5. Pending' = Pending
      BY <2>1, <2>3, <2>4 DEF Pending
    <2>. QED
      BY <2>1, <2>5 DEF DeviceLedger!ledgerVars, Pending, DeviceTokens
  <1>3. CASE Voided \/ DeviceReset
    <2>1. /\ Pending' \subseteq Pending
          /\ accessTokens' \subseteq accessTokens
          /\ refreshTokens' \subseteq refreshTokens
          /\ UNCHANGED <<redeemed, lastHandle>>
      BY <1>3
      DEF Voided, TokenDeviceExpired, ConsumeDeviceCode,
        DeviceCodesAfterConsume, DeviceReset, StoreReset, tables,
        deviceHistory, Pending
    <2>. QED
      BY <2>1, DeviceLedgerVoids DEF DeviceLedger!LedgerNext
  <1>4. CASE Granted
    <2>. PICK c \in Clients, secret \in Secrets, d \in deviceCodes,
             o \in Origins : TokenDeviceGranted(c, secret, d, o)
      BY <1>4 DEF Granted
    <2>. PICK t : t = lastHandle + 1
      OBVIOUS
    <2>. PICK u : u = lastHandle + 2
      OBVIOUS
    <2>1. /\ deviceCodes' = deviceCodes \ {d}
          /\ redeemed' = redeemed \cup {<<d.id, t>>}
          /\ IssuePair(c, d.scope, "device_code", OAuthResource(o), o)
      BY DEF TokenDeviceGranted, ConsumeDeviceCode, DeviceCodesAfterConsume
    <2>2. /\ t \in (1..MaxHandles) \ Used
          /\ DeviceIds(accessTokens') = DeviceIds(accessTokens) \cup {t}
          /\ \/ /\ 1..lastHandle' = Used \cup {t}
                /\ DeviceIds(refreshTokens') = DeviceIds(refreshTokens)
             \/ /\ u \in (1..MaxHandles) \ (Used \cup {t})
                /\ 1..lastHandle' = Used \cup {t, u}
                /\ DeviceIds(refreshTokens') =
                     DeviceIds(refreshTokens) \cup {u}
      BY <2>1, PairLists DEF DeviceIds
    <2>3. Pending' = Pending \ {d.id} /\ d.id \in Pending
      BY <2>1 DEF HandleInv, Pending
    <2>4. DeviceLedger!Buy(d.id, t)
      BY <2>1, <2>2, <2>3
      DEF DeviceLedger!Buy, Pending, Used, DeviceIds, IdsOf, DeviceTokens
    <2>5. DeviceLedger!Redeem
      BY <2>2, <2>3, <2>4 DEF DeviceLedger!Redeem, Pending, Used
    <2>. QED
      BY <2>5 DEF DeviceLedger!LedgerNext
  <1>5. CASE Untouched
    BY <1>5 DEF Untouched, DeviceLedger!ledgerVars, DeviceTokens
  <1>. QED
    BY <1>1, <1>2, <1>3, <1>4, <1>5, DeviceCases

LEMMA InitDeviceLedger == DeviceInit => DeviceLedger!LedgerInit
  <1>. SUFFICES ASSUME DeviceInit PROVE DeviceLedger!LedgerInit
    OBVIOUS
  <1>1. 1..lastHandle = {}
    BY DEF DeviceInit, StoreInit
  <1>. QED
    BY <1>1 DEF DeviceInit, StoreInit, DeviceTokens, DeviceLedger!LedgerInit

\* Device codes and what they buy implement the ledger of grants: a device
\* code is redeemed at most once and does not return, and nothing else leads
\* to a token of the device grant.
THEOREM DeviceLedgerRefinement == DeviceSpec => ImplementsDeviceLedger
  <1>1. TypeInv /\ HandleInv /\ [DeviceNext]_deviceVars
        => [DeviceLedger!LedgerNext]_(DeviceLedger!ledgerVars)
    BY StepDeviceLedger
  <1>. QED
    BY <1>1, InitDeviceLedger, HandlesInvariant, PTL
    DEF DeviceSpec, ImplementsDeviceLedger, DeviceLedger!LedgerSpec

\* Whatever happens to the clock and the tables, a device code buys one token,
\* and a token is bought with one device code.
THEOREM OneTokenPerDeviceCode == DeviceSpec => []DeviceLedger!OneTokenPerCode
  <1>1. ASSUME TypeInv, HandleInv, DeviceLedger!OneTokenPerCode,
               [DeviceNext]_deviceVars
        PROVE  DeviceLedger!OneTokenPerCode'
    <2>1. CASE Granted
      <3>1. PICK d \in deviceCodes :
              redeemed' = redeemed \cup {<<d.id, lastHandle + 1>>}
        BY <2>1 DEF Granted, TokenDeviceGranted
      <3>2. \A p \in redeemed : p[1] # d.id /\ p[2] # lastHandle + 1
        BY <1>1, HandleTypes DEF HandleInv
      <3>. QED
        BY <1>1, <3>1, <3>2 DEF DeviceLedger!OneTokenPerCode
    <2>2. CASE redeemed' = redeemed
      BY <1>1, <2>2 DEF DeviceLedger!OneTokenPerCode
    <2>. QED
      BY <1>1, <2>1, <2>2, DeviceCases
      DEF Issued, DeviceAuthorize, Verified, DeviceApprove, Voided,
        TokenDeviceExpired, DeviceReset, deviceHistory, Untouched
  <1>2. DeviceInit => DeviceLedger!OneTokenPerCode
    BY DEF DeviceInit, DeviceLedger!OneTokenPerCode
  <1>3. TypeInv /\ HandleInv /\ DeviceLedger!OneTokenPerCode
        /\ [DeviceNext]_deviceVars => DeviceLedger!OneTokenPerCode'
    BY <1>1
  <1>. QED
    BY <1>2, <1>3, HandlesInvariant, PTL DEF DeviceSpec

\* A device code that was consumed or forgotten is never in the store again,
\* nor is a token it bought (consume_device_code, reset).
THEOREM NoDeviceCodeReturns == DeviceSpec => DeviceLedger!NothingReturns
  <1>1. ASSUME [DeviceLedger!LedgerNext]_(DeviceLedger!ledgerVars)
        PROVE  [DeviceLedger!StaysGone]_(DeviceLedger!ledgerVars)
    <2>1. CASE DeviceLedger!Redeem
      <3>1. PICK h \in Pending, t \in (1..MaxHandles) \ Used :
              DeviceLedger!Buy(h, t)
        BY <2>1 DEF DeviceLedger!Redeem, Pending, Used
      <3>. QED
        BY <3>1 DEF DeviceLedger!Buy, DeviceLedger!StaysGone, Used
    <2>2. CASE \/ DeviceLedger!Grant \/ DeviceLedger!Refresh
               \/ DeviceLedger!Void \/ DeviceLedger!DrawElsewhere
      BY <2>2
      DEF DeviceLedger!Grant, DeviceLedger!Refresh, DeviceLedger!Void,
        DeviceLedger!DrawElsewhere, DeviceLedger!StaysGone
    <2>. QED
      BY <1>1, <2>1, <2>2 DEF DeviceLedger!LedgerNext
  <1>2. [DeviceLedger!LedgerNext]_(DeviceLedger!ledgerVars)
        => [DeviceLedger!StaysGone]_(DeviceLedger!ledgerVars)
    BY <1>1
  <1>. QED
    BY <1>2, DeviceLedgerRefinement, PTL
    DEF ImplementsDeviceLedger, DeviceLedger!LedgerSpec,
      DeviceLedger!NothingReturns

-----------------------------------------------------------------------------
(* Observed logins *)

LEMMA ObservedStep == [ObservedNext]_observedVars => [DeviceNext]_deviceVars
  BY DEF ObservedNext, observedVars, UndisturbedNext, MeddlingNext,
    DeviceNext, DeviceClock, Tick, ConfigureClock

\* The history variable meddled restricts nothing: what is proved of DeviceSpec
\* holds of the specification the logins are checked under.
THEOREM ObservedImplements == ObservedSpec => DeviceSpec
  BY ObservedStep, PTL DEF ObservedSpec, ObservedInit, DeviceSpec

-----------------------------------------------------------------------------
(* What a login that was approved can count on *)

\* Inductive, meddled or not: a login has a device code of its own, which was
\* asked for by its client.
CodesInv ==
  /\ \A d \in deviceCodes : d.id > 0
  /\ \A l \in Logins : /\ login[l].code <= lastHandle
                       /\ \A d \in CodeOf(l) : d.client = LoginClient[l]
  /\ \A l, k \in Logins :
       login[l].code = login[k].code => l = k \/ login[l].code = 0

\* While nobody meddled: a login that polls passes the client checks, and one
\* whose device code is in the store and that has polls left is polling.
CalmInv ==
  ~meddled =>
    \A l \in Logins :
      /\ login[l].phase = "polling" =>
           ValidDeviceClient(LoginClient[l], "absent")
      /\ CodeOf(l) # {} /\ login[l].polls < MaxPolls =>
           login[l].phase = "polling"

LEMMA LoginTypes ==
  ASSUME TypeInv
  PROVE  /\ lastHandle \in Nat
         /\ \A l \in Logins : /\ login[l] \in LoginState
                              /\ login[l].code \in Nat
                              /\ login[l].polls \in Nat
         /\ \A d \in deviceCodes : d.id \in Nat
  BY HandleTypes DEF TypeInv, DeviceTypeOK, LoginState

\* A step leaves the device codes of all logins as they are, but for that of
\* a login that asks for one.
CodesKept == \A l \in Logins : login'[l].code = login[l].code

\* Every device code after the step was there before, and its record only
\* changes from unverified to verified.
NoNewCodes ==
  \A e \in deviceCodes' : \E d \in deviceCodes :
    /\ e.id = d.id /\ e.client = d.client

LEMMA CodeCases ==
  ASSUME TypeInv, [DeviceNext]_deviceVars
  PROVE  \/ \E l \in Logins, u \in UserCodes : LoginAuthorize(l, u)
         \/ CodesKept /\ NoNewCodes /\ lastHandle' >= lastHandle
  <1>0. /\ login \in [Logins -> LoginState]
        /\ lastHandle \in Nat
        /\ deviceCodes \subseteq DeviceCodeRecord
    BY DEF TypeInv, DeviceTypeOK, StoreTypeOK
  <1>1. CASE PersonStep
    <2>1. UNCHANGED <<login, lastHandle>>
      BY <1>1 DEF PersonStep, DeviceApprove, DeviceDeny, storeVars, tables
    <2>2. NoNewCodes
      <3>1. ASSUME NEW u \in UserCodes, DeviceApprove(u)
            PROVE  NoNewCodes
        <4>1. PICK d \in deviceCodes :
                deviceCodes' =
                  (deviceCodes \ {d}) \cup {[d EXCEPT !.verified = TRUE]}
          BY <3>1 DEF DeviceApprove
        <4>2. PICK e : e = [d EXCEPT !.verified = TRUE]
          OBVIOUS
        <4>3. e.id = d.id /\ e.client = d.client
          BY <1>0, <4>2 DEF DeviceCodeRecord
        <4>. QED
          BY <4>1, <4>2, <4>3 DEF NoNewCodes
      <3>2. ASSUME NEW u \in UserCodes, DeviceDeny(u)
            PROVE  NoNewCodes
        BY <3>2 DEF DeviceDeny, NoNewCodes
      <3>. QED
        BY <1>1, <3>1, <3>2 DEF PersonStep
    <2>. QED
      BY <1>0, <2>1, <2>2 DEF CodesKept
  <1>2. ASSUME NEW l \in Logins, LoginRegister(l) \/ LoginBreaksOff(l)
        PROVE  CodesKept /\ NoNewCodes /\ lastHandle' >= lastHandle
    <2>1. UNCHANGED <<deviceCodes, lastHandle>>
      BY <1>2
      DEF LoginRegister, RegisterClient, LoginBreaksOff, storeVars, tables
    <2>2. CodesKept
      BY <1>0, <1>2
      DEF LoginRegister, LoginBreaksOff, EndLogin, CodesKept, LoginState
    <2>. QED
      BY <1>0, <2>1, <2>2 DEF NoNewCodes
  <1>3. ASSUME NEW l \in Logins, LoginPoll(l)
        PROVE  CodesKept /\ NoNewCodes /\ lastHandle' >= lastHandle
    <2>1. \/ login' = [login EXCEPT ![l] = AfterPending(@)]
          \/ EndLogin(l, "expired") \/ EndLogin(l, "error")
          \/ login' = [login EXCEPT ![l].phase = "loggedIn",
                                    ![l].token = lastHandle + 1]
      BY <1>3 DEF LoginPoll
    <2>2. AfterPending(login[l]).code = login[l].code
      <3>1. login[l] \in LoginState
        BY <1>0
      <3>. QED
        BY <3>1 DEF AfterPending, LoginState
    <2>3. CodesKept
      BY <1>0, <2>1, <2>2 DEF EndLogin, CodesKept, LoginState
    <2>4. deviceCodes' \subseteq deviceCodes
      BY <1>3
      DEF LoginPoll, TokenDevicePending, TokenDeviceExpired,
        TokenDeviceGranted, ConsumeDeviceCode, DeviceCodesAfterConsume
    <2>5. lastHandle' \in {lastHandle, lastHandle + 1, lastHandle + 2}
      BY <1>3
      DEF LoginPoll, TokenDevicePending, TokenDeviceExpired,
        TokenDeviceGranted, IssuePair, IssueOne, tables
    <2>. QED
      BY <1>0, <2>3, <2>4, <2>5 DEF NoNewCodes
  <1>4. CASE PollStep
    <2>1. /\ deviceCodes' \subseteq deviceCodes
          /\ login' = login
      BY <1>4
      DEF PollStep, DevicePoll, TokenDevicePending, TokenDeviceExpired,
        TokenDeviceGranted, ConsumeDeviceCode, DeviceCodesAfterConsume
    <2>2. lastHandle' \in {lastHandle, lastHandle + 1, lastHandle + 2}
      BY <1>4
      DEF PollStep, DevicePoll, TokenDevicePending, TokenDeviceExpired,
        TokenDeviceGranted, IssuePair, IssueOne, tables
    <2>. QED
      BY <1>0, <2>1, <2>2 DEF NoNewCodes, CodesKept
  <1>5. CASE \/ DeviceReset \/ DeviceClock(ConfigureClock)
             \/ UNCHANGED deviceVars
    <2>1. /\ deviceCodes' \subseteq deviceCodes
          /\ UNCHANGED <<login, lastHandle>>
      BY <1>5
      DEF DeviceReset, StoreReset, DeviceClock, deviceVars, storeVars, tables
    <2>. QED
      BY <1>0, <2>1 DEF NoNewCodes, CodesKept
  <1>. QED
    BY <1>1, <1>2, <1>3, <1>4, <1>5
    DEF DeviceNext, LoginStep, BreakOffStep

LEMMA StepCodes ==
  ASSUME TypeInv, TypeInv', HandleInv, CodesInv, [DeviceNext]_deviceVars
  PROVE  CodesInv'
  <1>1. ASSUME NEW l \in Logins, NEW u \in UserCodes, LoginAuthorize(l, u)
        PROVE  CodesInv'
    <2>. DEFINE h == lastHandle + 1
    <2>1. PICK new : new = NewDeviceCode(LoginClient[l], LoginScope[l], u)
      OBVIOUS
    <2>2. /\ new.id = h /\ new.client = LoginClient[l]
          /\ deviceCodes' = deviceCodes \cup {new}
          /\ lastHandle' = h
      BY <1>1, <2>1 DEF LoginAuthorize, DeviceAuthorize, NewDeviceCode
    <2>3. /\ login'[l].code = h
          /\ \A k \in Logins : k # l => login'[k] = login[k]
      BY <1>1 DEF LoginAuthorize, TypeInv, DeviceTypeOK, LoginState
    <2>4. /\ h \in Nat /\ h > 0 /\ h > lastHandle /\ lastHandle \in Nat
          /\ \A k \in Logins : login[k].code \in Nat
      BY LoginTypes
    <2>. HIDE DEF h
    <2>5. \A k \in Logins : login'[k].code <= lastHandle'
      BY <2>2, <2>3, <2>4 DEF CodesInv
    <2>6. ASSUME NEW k \in Logins, NEW d \in CodeOf(k)'
          PROVE  d.client = LoginClient[k]
      <3>1. CASE k = l
        <4>1. d \in deviceCodes => d.id <= lastHandle /\ d.id \in Nat
          BY LoginTypes DEF HandleInv
        <4>2. d = new
          BY <2>2, <2>3, <2>4, <2>6, <3>1, <4>1 DEF CodeOf
        <4>. QED
          BY <2>2, <3>1, <4>2
      <3>2. CASE k # l
        <4>1. login'[k].code # h
          BY <2>3, <2>4, <3>2 DEF CodesInv
        <4>. QED
          BY <2>2, <2>3, <2>6, <3>2, <4>1 DEF CodesInv, CodeOf
      <3>. QED
        BY <3>1, <3>2
    <2>7. \A k, m \in Logins :
            login'[k].code = login'[m].code => k = m \/ login'[k].code = 0
      BY <2>3, <2>4 DEF CodesInv
    <2>8. \A d \in deviceCodes' : d.id > 0
      BY <2>2, <2>4 DEF CodesInv
    <2>. QED
      BY <2>5, <2>6, <2>7, <2>8 DEF CodesInv
  <1>2. CASE CodesKept /\ NoNewCodes /\ lastHandle' >= lastHandle
    <2>1. \A l \in Logins : login'[l].code <= lastHandle'
      <3>1. lastHandle \in Nat /\ lastHandle' \in Nat
        BY DEF TypeInv, DeviceTypeOK, StoreTypeOK
      <3>. QED
        BY <1>2, <3>1, LoginTypes DEF CodesInv, CodesKept
    <2>2. \A l \in Logins : \A d \in CodeOf(l)' : d.client = LoginClient[l]
      BY <1>2 DEF CodesInv, CodesKept, NoNewCodes, CodeOf
    <2>3. \A d \in deviceCodes' : d.id > 0
      BY <1>2 DEF CodesInv, NoNewCodes
    <2>. QED
      BY <1>2, <2>1, <2>2, <2>3 DEF CodesInv, CodesKept
  <1>. QED
    BY <1>1, <1>2, CodeCases

\* A step that nobody meddled with leaves the codes, records and checks of a
\* login alone, unless the login itself takes the step.
LEMMA OthersKeep ==
  ASSUME TypeInv, HandleInv, CodesInv, NEW l \in Logins,
         NEW k \in Logins, k # l,
         \/ LoginRegister(k) \/ LoginPoll(k)
         \/ \E u \in UserCodes : LoginAuthorize(k, u)
  PROVE  /\ login'[l] = login[l]
         /\ CodeOf(l)' = CodeOf(l)
         /\ registered \subseteq registered'
         /\ UNCHANGED now
  <1>0. login \in [Logins -> LoginState]
    BY DEF TypeInv, DeviceTypeOK
  <1>1. CASE LoginRegister(k)
    BY <1>0, <1>1 DEF LoginRegister, RegisterClient, EndLogin, CodeOf
  <1>2. ASSUME NEW u \in UserCodes, LoginAuthorize(k, u)
        PROVE  /\ login'[l] = login[l]
               /\ CodeOf(l)' = CodeOf(l)
               /\ registered \subseteq registered'
               /\ UNCHANGED now
    <2>1. PICK new : new = NewDeviceCode(LoginClient[k], LoginScope[k], u)
      OBVIOUS
    <2>2. /\ deviceCodes' = deviceCodes \cup {new}
          /\ new.id = lastHandle + 1
          /\ UNCHANGED <<registered, now>>
      BY <1>2, <2>1 DEF LoginAuthorize, DeviceAuthorize, NewDeviceCode
    <2>3. login'[l] = login[l]
      BY <1>0, <1>2 DEF LoginAuthorize
    <2>4. new.id # login[l].code
      BY <2>2, LoginTypes DEF CodesInv
    <2>. QED
      BY <2>2, <2>3, <2>4 DEF CodeOf
  <1>3. CASE LoginPoll(k)
    <2>1. login'[l] = login[l]
      BY <1>0, <1>3 DEF LoginPoll, EndLogin
    <2>2. /\ registered' = RegisteredAfter(LoginClient[k])
          /\ UNCHANGED now
      BY <1>3
      DEF LoginPoll, TokenDevicePending, TokenDeviceExpired,
        TokenDeviceGranted, tables
    <2>3. registered \subseteq registered'
      BY <2>2 DEF RegisteredAfter
    <2>4. \/ UNCHANGED deviceCodes
          \/ \E d \in CodeOf(k) : deviceCodes' = deviceCodes \ {d}
      BY <1>3
      DEF LoginPoll, CodeOf, TokenDevicePending, TokenDeviceExpired,
        TokenDeviceGranted, ConsumeDeviceCode, DeviceCodesAfterConsume
    <2>5. ASSUME NEW d \in CodeOf(k), NEW e \in CodeOf(l)
          PROVE  d # e
      BY <2>5 DEF CodesInv, CodeOf
    <2>6. CodeOf(l)' = CodeOf(l)
      BY <2>1, <2>4, <2>5 DEF CodeOf
    <2>. QED
      BY <2>1, <2>2, <2>3, <2>6
  <1>. QED
    BY <1>1, <1>2, <1>3

\* What a poll of its own makes of a login.
LEMMA OwnPoll ==
  ASSUME TypeInv, HandleInv, NEW l \in Logins, LoginPoll(l)
  PROVE  \/ /\ \A d \in CodeOf(l) : ~d.verified
            /\ login'[l] = AfterPending(login[l])
            /\ UNCHANGED deviceCodes
         \/ /\ \/ login'[l].phase = "loggedIn"
               \/ /\ login'[l].phase = "expired"
                  /\ \A d \in CodeOf(l) :
                       Expired(d) \/ ~OwnCode(d, LoginClient[l])
            /\ CodeOf(l)' = {}
         \/ ~ValidDeviceClient(LoginClient[l], "absent")
  <1>0. /\ login \in [Logins -> LoginState]
        /\ login[l] \in LoginState
    BY DEF TypeInv, DeviceTypeOK
  <1>5. \A d, e \in CodeOf(l) : d = e
    BY DEF CodeOf, HandleInv
  <1>6. ASSUME NEW d \in CodeOf(l), deviceCodes' = deviceCodes \ {d},
               login'[l].code = login[l].code
        PROVE  CodeOf(l)' = {}
    BY <1>5, <1>6 DEF CodeOf
  <1>1. ASSUME NEW d \in CodeOf(l),
               TokenDevicePending(LoginClient[l], "absent", d),
               login' = [login EXCEPT ![l] = AfterPending(@)]
        PROVE  /\ \A e \in CodeOf(l) : ~e.verified
               /\ login'[l] = AfterPending(login[l])
               /\ UNCHANGED deviceCodes
    BY <1>0, <1>5, <1>1 DEF TokenDevicePending
  <1>2. ASSUME NEW d \in CodeOf(l),
               TokenDeviceExpired(LoginClient[l], "absent", d),
               EndLogin(l, "expired")
        PROVE  /\ login'[l].phase = "expired"
               /\ \A e \in CodeOf(l) :
                    Expired(e) \/ ~OwnCode(e, LoginClient[l])
               /\ CodeOf(l)' = {}
    <2>1. login'[l].phase = "expired" /\ login'[l].code = login[l].code
      BY <1>0, <1>2 DEF EndLogin, LoginState
    <2>2. /\ deviceCodes' = deviceCodes \ {d}
          /\ Expired(d) \/ ~OwnCode(d, LoginClient[l])
      BY <1>2
      DEF TokenDeviceExpired, ConsumeDeviceCode, DeviceCodesAfterConsume
    <2>3. \A e \in CodeOf(l) : e = d
      BY <1>5
    <2>. QED
      BY <1>6, <2>1, <2>2, <2>3
  <1>3. ASSUME NEW d \in CodeOf(l), NEW o \in Origins,
               TokenDeviceGranted(LoginClient[l], "absent", d, o),
               login' = [login EXCEPT ![l].phase = "loggedIn",
                                      ![l].token = lastHandle + 1]
        PROVE  login'[l].phase = "loggedIn" /\ CodeOf(l)' = {}
    <2>1. login'[l].phase = "loggedIn" /\ login'[l].code = login[l].code
      BY <1>0, <1>3 DEF LoginState
    <2>2. deviceCodes' = deviceCodes \ {d}
      BY <1>3
      DEF TokenDeviceGranted, ConsumeDeviceCode, DeviceCodesAfterConsume
    <2>. QED
      BY <1>6, <2>1, <2>2
  <1>4. ASSUME CodeOf(l) = {}, UNCHANGED deviceCodes, EndLogin(l, "expired")
        PROVE  login'[l].phase = "expired" /\ CodeOf(l)' = {}
    <2>1. login'[l].phase = "expired" /\ login'[l].code = login[l].code
      BY <1>0, <1>4 DEF EndLogin, LoginState
    <2>. QED
      BY <1>4, <2>1 DEF CodeOf
  <1>. QED
    BY <1>1, <1>2, <1>3, <1>4 DEF LoginPoll

LEMMA AfterPendingIs ==
  ASSUME TypeInv, NEW l \in Logins, login[l].phase = "polling"
  PROVE  /\ AfterPending(login[l]).code = login[l].code
         /\ AfterPending(login[l]).polls < MaxPolls =>
              AfterPending(login[l]).phase = "polling"
  <1>1. login[l] \in LoginState /\ login[l].polls \in Nat
    BY LoginTypes
  <1>2. CASE login[l].polls + 1 = MaxPolls
    <2>1. AfterPending(login[l]) =
            [login[l] EXCEPT !.polls = login[l].polls + 1,
                             !.phase = "timedOut"]
      BY <1>1, <1>2 DEF AfterPending, LoginState
    <2>2. /\ AfterPending(login[l]).polls = login[l].polls + 1
          /\ AfterPending(login[l]).code = login[l].code
      BY <1>1, <2>1 DEF LoginState
    <2>3. ~(MaxPolls < MaxPolls)
      BY DeviceAssumption
    <2>. QED
      BY <1>2, <2>2, <2>3
  <1>3. CASE login[l].polls + 1 # MaxPolls
    <2>1. AfterPending(login[l]) =
            [login[l] EXCEPT !.polls = login[l].polls + 1]
      BY <1>1, <1>3 DEF AfterPending, LoginState
    <2>. QED
      BY <1>1, <2>1 DEF LoginState
  <1>. QED
    BY <1>2, <1>3

\* Resolving and registering clients takes no client away.
LEMMA ValidKept ==
  ASSUME registered \subseteq registered', NEW c, NEW secret,
         ValidDeviceClient(c, secret)
  PROVE  ValidDeviceClient(c, secret)'
  BY DEF ValidDeviceClient, ValidTokenClient, Known

\* A step that nobody meddled with is of a login, approves a device code, or
\* concerns neither.
LEMMA UndisturbedCases ==
  ASSUME [ObservedNext]_observedVars, ~meddled'
  PROVE  /\ ~meddled
         /\ \/ LoginStep
            \/ Verified
            \/ UNCHANGED <<registered, deviceCodes, login>>
  <1>1. ~meddled
    BY DEF ObservedNext, observedVars
  <1>2. UndisturbedNext \/ UNCHANGED deviceVars
    BY <1>1 DEF ObservedNext, observedVars
  <1>3. CASE PersonStep
    BY <1>1, <1>3 DEF PersonStep, Verified, DeviceDeny, storeVars
  <1>4. CASE DeviceClock(Tick)
    BY <1>1, <1>4 DEF DeviceClock
  <1>5. CASE UNCHANGED deviceVars
    BY <1>1, <1>5 DEF deviceVars, storeVars
  <1>. QED
    BY <1>1, <1>2, <1>3, <1>4, <1>5 DEF UndisturbedNext

\* An approval leaves each login its device codes, and their approvals.
LEMMA VerifiedKeeps ==
  ASSUME TypeInv, Verified, NEW l \in Logins
  PROVE  /\ UNCHANGED <<registered, login>>
         /\ CodeOf(l)' = {} <=> CodeOf(l) = {}
         /\ (\E d \in CodeOf(l) : d.verified) =>
              \E d \in CodeOf(l)' : d.verified
  <1>1. PICK d \in deviceCodes :
          /\ deviceCodes' =
               (deviceCodes \ {d}) \cup {[d EXCEPT !.verified = TRUE]}
          /\ UNCHANGED <<registered, login>>
    BY DEF Verified, DeviceApprove, storeVars
  <1>2. d \in DeviceCodeRecord
    BY DEF TypeInv, DeviceTypeOK
  <1>3. PICK e : e = [d EXCEPT !.verified = TRUE]
    OBVIOUS
  <1>4. e.id = d.id /\ e.verified
    BY <1>2, <1>3 DEF DeviceCodeRecord
  <1>. QED
    BY <1>1, <1>3, <1>4 DEF CodeOf

LEMMA StepCalm ==
  ASSUME TypeInv, HandleInv, CodesInv, CalmInv, [ObservedNext]_observedVars
  PROVE  CalmInv'
  <1>. SUFFICES ASSUME ~meddled', NEW l \in Logins
                PROVE  /\ login'[l].phase = "polling" =>
                            ValidDeviceClient(LoginClient[l], "absent")'
                       /\ CodeOf(l)' # {} /\ login'[l].polls < MaxPolls =>
                            login'[l].phase = "polling"
    BY DEF CalmInv
  <1>0. /\ login[l].phase = "polling" =>
             ValidDeviceClient(LoginClient[l], "absent")
        /\ CodeOf(l) # {} /\ login[l].polls < MaxPolls =>
             login[l].phase = "polling"
    BY UndisturbedCases DEF CalmInv
  <1>5. login \in [Logins -> LoginState]
    BY DEF TypeInv, DeviceTypeOK
  <1>1. ASSUME login'[l] = login[l], CodeOf(l)' = {} <=> CodeOf(l) = {},
               registered \subseteq registered'
        PROVE  /\ login'[l].phase = "polling" =>
                    ValidDeviceClient(LoginClient[l], "absent")'
               /\ CodeOf(l)' # {} /\ login'[l].polls < MaxPolls =>
                    login'[l].phase = "polling"
    BY <1>0, <1>1, ValidKept
  <1>2. CASE LoginStep
    <2>1. ASSUME NEW k \in Logins, k # l,
                 \/ LoginRegister(k) \/ LoginPoll(k)
                 \/ \E u \in UserCodes : LoginAuthorize(k, u)
          PROVE  /\ login'[l].phase = "polling" =>
                      ValidDeviceClient(LoginClient[l], "absent")'
                 /\ CodeOf(l)' # {} /\ login'[l].polls < MaxPolls =>
                      login'[l].phase = "polling"
      BY <1>1, <2>1, OthersKeep
    <2>2. CASE LoginRegister(l)
      <3>1. /\ login[l].phase = "idle" /\ login[l].polls < MaxPolls
            /\ login' = [login EXCEPT ![l].phase = "registered"]
            /\ deviceCodes' = deviceCodes
        BY <2>2 DEF LoginRegister, EndLogin, TypeInv, PollsLeft, Waiting
      <3>2. /\ login'[l].phase = "registered"
            /\ login'[l].code = login[l].code
        BY <1>5, <3>1 DEF LoginState
      <3>3. CodeOf(l) = {}
        BY <1>0, <3>1
      <3>4. CodeOf(l)' = {}
        BY <3>1, <3>2, <3>3 DEF CodeOf
      <3>. QED
        BY <3>2, <3>4
    <2>3. ASSUME NEW u \in UserCodes, LoginAuthorize(l, u)
          PROVE  /\ login'[l].phase = "polling"
                 /\ ValidDeviceClient(LoginClient[l], "absent")'
      <3>1. login'[l].phase = "polling"
        BY <1>5, <2>3 DEF LoginAuthorize, LoginState
      <3>2. /\ LoginClient[l] \in registered
            /\ "device_code" \in Metadata[LoginClient[l]].grants
            /\ UNCHANGED registered
        BY <2>3 DEF LoginAuthorize, DeviceAuthorize
      <3>. QED
        BY <3>1, <3>2, LoginAssumption
        DEF ValidDeviceClient, ValidTokenClient, Known
    <2>4. CASE LoginPoll(l)
      <3>1. login[l].phase = "polling"
        BY <2>4 DEF LoginPoll
      <3>2. ValidDeviceClient(LoginClient[l], "absent")
        BY <1>0, <3>1
      <3>3. registered \subseteq registered'
        BY <2>4
        DEF LoginPoll, TokenDevicePending, TokenDeviceExpired,
          TokenDeviceGranted, RegisteredAfter
      <3>4. ValidDeviceClient(LoginClient[l], "absent")'
        BY <3>2, <3>3, ValidKept
      <3>. QED
        BY <2>4, <3>1, <3>2, <3>4, OwnPoll, AfterPendingIs
    <2>. QED
      BY <1>2, <2>1, <2>2, <2>3, <2>4 DEF LoginStep
  <1>3. CASE Verified
    BY <1>1, <1>3, VerifiedKeeps
  <1>4. CASE UNCHANGED <<registered, deviceCodes, login>>
    BY <1>1, <1>4 DEF CodeOf
  <1>. QED
    BY <1>2, <1>3, <1>4, UndisturbedCases

LoginsInv == TypeInv /\ HandleInv /\ CodesInv /\ CalmInv

LEMMA LoginsInvariant == ObservedSpec => []LoginsInv
  <1>1. ObservedInit => LoginsInv
    BY InitHandles
    DEF ObservedInit, DeviceInit, StoreInit, LoginsInv, CodesInv, CalmInv,
      CodeOf
  <1>2. LoginsInv /\ [ObservedNext]_observedVars => LoginsInv'
    BY ObservedStep, DeviceStepType, StepHandles, StepCodes, StepCalm
    DEF LoginsInv
  <1>. QED
    BY <1>1, <1>2, PTL DEF ObservedSpec

\* Undisturbed, no step takes from a login the approval it has, but the one
\* that logs it in or tells it that its own code has run out.
THEOREM ApprovalStays == ObservedSpec => ApprovalIsKept
  <1>. DEFINE Kept(l) ==
         \/ Approved(l)' /\ login'[l].phase = "polling"
         \/ login'[l].phase = "loggedIn"
         \/ login'[l].phase = "expired" /\ \E d \in CodeOf(l) : Expired(d)
         \/ meddled'
  <1>1. ASSUME LoginsInv, [ObservedNext]_observedVars, NEW l \in Logins,
               Approved(l), ~meddled'
        PROVE  Kept(l)
    <2>. TypeInv /\ HandleInv /\ CodesInv /\ CalmInv
      BY <1>1 DEF LoginsInv
    <2>0. PICK d \in CodeOf(l) : d.verified
      BY <1>1 DEF Approved
    <2>1. /\ login[l].phase = "polling" /\ login[l].polls < MaxPolls
          /\ ValidDeviceClient(LoginClient[l], "absent")
          /\ OwnCode(d, LoginClient[l])
      BY <1>1, <2>0, UndisturbedCases
      DEF CalmInv, CodesInv, Approved, OwnCode
    <2>2. ASSUME login'[l] = login[l], \E e \in CodeOf(l)' : e.verified
          PROVE  Kept(l)
      BY <2>1, <2>2 DEF Approved
    <2>3. CASE LoginStep
      <3>1. ASSUME NEW k \in Logins, k # l,
                   \/ LoginRegister(k) \/ LoginPoll(k)
                   \/ \E u \in UserCodes : LoginAuthorize(k, u)
            PROVE  Kept(l)
        BY <2>0, <2>2, <3>1, OthersKeep
      <3>2. ~LoginRegister(l) /\ \A u \in UserCodes : ~LoginAuthorize(l, u)
        BY <2>1 DEF LoginRegister, LoginAuthorize
      <3>3. CASE LoginPoll(l)
        <4>1. \/ login'[l].phase = "loggedIn"
              \/ /\ login'[l].phase = "expired"
                 /\ Expired(d) \/ ~OwnCode(d, LoginClient[l])
          BY <2>0, <2>1, <3>3, OwnPoll
        <4>. QED
          BY <2>1, <4>1
      <3>. QED
        BY <2>3, <3>1, <3>2, <3>3 DEF LoginStep
    <2>4. CASE Verified
      BY <2>0, <2>2, <2>4, VerifiedKeeps
    <2>5. CASE UNCHANGED <<registered, deviceCodes, login>>
      <3>1. CodeOf(l)' = CodeOf(l)
        BY <2>5 DEF CodeOf
      <3>. QED
        BY <2>0, <2>2, <2>5, <3>1
    <2>. QED
      BY <1>1, <2>3, <2>4, <2>5, UndisturbedCases
  <1>2. LoginsInv /\ [ObservedNext]_observedVars
        => (\A l \in Logins : Approved(l) => Kept(l))
    BY <1>1
  <1>3. LoginsInv /\ [ObservedNext]_observedVars
        => [\A l \in Logins : Approved(l) => Kept(l)]_observedVars
    BY <1>2
  <1>. QED
    BY <1>3, LoginsInvariant, PTL DEF ObservedSpec, ApprovalIsKept
=============================================================================
