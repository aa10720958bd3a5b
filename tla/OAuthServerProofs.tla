------------------------- MODULE OAuthServerProofs -------------------------
(***************************************************************************)
(* Proofs about OAuthServer for every value of its constants: types, codes *)
(* and the ledger they implement, consent behind codes and tokens, tokens  *)
(* that are usable and that stay refused once they have expired, and the   *)
(* audit log.  The last part has the same results for AlternateRouters: it *)
(* adds the steps of the OAuth 2.1 router to the lemmas about the others.  *)
(***************************************************************************)
EXTENDS AlternateRouters, TokenStoreProofs

(* Type correctness *)

LEMMA InitType == Init => TypeOK
  BY StoreAssumption DEF Init, TypeOK, StoreInit, StoreTypeOK

LEMMA DenyType ==
  ASSUME TypeOK, NEW c \in Clients, NEW s \in Scopes, NEW mode \in Modes,
         Deny(c, s, mode)
  PROVE  TypeOK'
  <1>1. Approval(c, s, "denied", mode, FALSE) \in ApprovalRecord
    BY DEF Approval, ApprovalRecord
  <1>2. ApprovalEvent(c, s, "denied") \in AuditEvent
    BY DEF ApprovalEvent, AuditEvent
  <1>. QED
    BY <1>1, <1>2, RegisteredType
    DEF Deny, RecordApproval, TypeOK, StoreTypeOK, history

LEMMA ApproveType ==
  ASSUME TypeOK, NEW c \in Clients, NEW r \in RedirectUris, NEW s \in Scopes,
         NEW o \in Origins, NEW ch \in Challenges, NEW mode \in Modes,
         NEW confirmed \in BOOLEAN,
         Approve(c, r, s, o, ch, mode, confirmed)
  PROVE  TypeOK'
  <1>1. NewAuthorizationCode(c, r, s, o, ch) \in AuthorizationCodeRecord
    BY StoreAssumption, ServerAssumption
    DEF NewAuthorizationCode, AuthorizationCodeRecord, OAuthResource,
      Resources, TypeOK, StoreTypeOK
  <1>2. Approval(c, s, "approved", mode, confirmed) \in ApprovalRecord
    BY DEF Approval, ApprovalRecord
  <1>3. /\ ApprovalEvent(c, s, "approved") \in AuditEvent
        /\ CodeIssuedEvent(c, s, lastHandle + 1) \in AuditEvent
    BY DEF ApprovalEvent, CodeIssuedEvent, AuditEvent, TypeOK, StoreTypeOK
  <1>. QED
    BY <1>1, <1>2, <1>3, RegisteredType
    DEF Approve, RecordApproval, TypeOK, StoreTypeOK, history

\* What an authorization or consent request may do: record a refusal, issue a
\* code for a decision that covers its scope, or raise.
LEMMA AuthorizationCases ==
  ASSUME AuthorizationStep
  PROVE  \/ \E c \in Clients, s \in Scopes, mode \in Modes : Deny(c, s, mode)
         \/ \E c \in Clients, r \in RedirectUris, s \in Scopes, o \in Origins,
               ch \in Challenges, mode \in Modes, confirmed \in BOOLEAN :
              /\ HasAdminScope(s) => mode = "manual" /\ confirmed
              /\ Approve(c, r, s, o, ch, mode, confirmed)
         \/ /\ \E c \in Clients : registered' = RegisteredAfter(c)
            /\ crashed' = crashed \cup {"authorize"}
            /\ UNCHANGED <<tables, codes, approvals, calls, attempted,
                           redeemed, lapsed>>
  <1>. DEFINE Denied == \E c \in Clients, s \in Scopes, mode \in Modes :
                          Deny(c, s, mode)
              Approved ==
                \E c \in Clients, r \in RedirectUris, s \in Scopes,
                   o \in Origins, ch \in Challenges, mode \in Modes,
                   confirmed \in BOOLEAN :
                  /\ HasAdminScope(s) => mode = "manual" /\ confirmed
                  /\ Approve(c, r, s, o, ch, mode, confirmed)
  <1>. PICK c \in Clients, r \in RedirectUris, s \in Scopes :
         \/ AuthorizeAutoDeny(c, r, s)
         \/ AuthorizeAutoApproveAdmin(c, r, s)
         \/ \E o \in Origins, ch \in Challenges :
              \/ AuthorizeAutoApprove(c, r, s, o, ch)
              \/ \E d \in {"approve", "deny"}, k \in BOOLEAN :
                   AuthorizeConsent(c, r, s, o, ch, d, k)
    BY DEF AuthorizationStep
  <1>1. CASE AuthorizeAutoDeny(c, r, s)
    <2>1. Denied
      BY <1>1 DEF AuthorizeAutoDeny, Modes
    <2>. QED
      BY <2>1
  <1>2. CASE AuthorizeAutoApproveAdmin(c, r, s)
    BY <1>2 DEF AuthorizeAutoApproveAdmin
  <1>3. ASSUME NEW o \in Origins, NEW ch \in Challenges,
               AuthorizeAutoApprove(c, r, s, o, ch)
        PROVE  Approved
    <2>1. /\ ~HasAdminScope(s)
          /\ Approve(c, r, s, o, ch, "auto_approve", FALSE)
      BY <1>3 DEF AuthorizeAutoApprove, AutoApproves
    <2>2. "auto_approve" \in Modes /\ FALSE \in BOOLEAN
      BY DEF Modes
    <2>. QED
      BY <2>1, <2>2
  <1>4. ASSUME NEW o \in Origins, NEW ch \in Challenges,
               NEW d, NEW k, AuthorizeConsent(c, r, s, o, ch, d, k)
        PROVE  Denied \/ Approved
    <2>1. CASE Approve(c, r, s, o, ch, "manual", HasAdminScope(s))
      <3>1. "manual" \in Modes /\ HasAdminScope(s) \in BOOLEAN
        BY DEF Modes, HasAdminScope
      <3>. QED
        BY <2>1, <3>1
    <2>2. CASE Deny(c, s, "manual")
      BY <2>2 DEF Modes
    <2>. QED
      BY <1>4, <2>1, <2>2 DEF AuthorizeConsent
  <1>. QED
    BY <1>1, <1>2, <1>3, <1>4

LEMMA StepType == TypeOK /\ [Next]_vars => TypeOK'
  <1>. SUFFICES ASSUME TypeOK, [Next]_vars PROVE TypeOK'
    OBVIOUS
  <1>. StoreTypeOK
    BY DEF TypeOK
  <1>1. CASE AuthorizationStep
    <2>1. CASE /\ \E c \in Clients : registered' = RegisteredAfter(c)
               /\ crashed' = crashed \cup {"authorize"}
               /\ UNCHANGED <<tables, codes, approvals, calls, attempted,
                              redeemed, lapsed>>
      BY <2>1, RegisteredType DEF TypeOK, StoreTypeOK, tables
    <2>. QED
      BY <1>1, <2>1, AuthorizationCases, DenyType, ApproveType
  <1>2. CASE TokenStep
    <2>. PICK c \in Clients, secret \in Secrets :
           \/ \E code \in codes, r \in RedirectUris, o \in Origins,
                 v \in Verifiers, res \in Resources \cup {NoResource} :
                \/ TokenAuthorizationCode(code, c, secret, r, o, res, v)
                \/ TokenAuthorizationCodeFails(code, c, secret, r, o, res, v)
           \/ \E t \in refreshTokens :
                \/ TokenRefreshExpired(t, c, secret)
                \/ \E o \in Origins, res \in Resources \cup {NoResource} :
                     TokenRefresh(t, c, secret, o, res)
      BY <1>2 DEF TokenStep
    <2>1. ASSUME NEW code \in codes, NEW r \in RedirectUris,
                 NEW o \in Origins, NEW v \in Verifiers,
                 NEW res \in Resources \cup {NoResource},
                 TokenAuthorizationCode(code, c, secret, r, o, res, v)
          PROVE  TypeOK'
      <3>1. /\ code.scope \in Scopes
            /\ code.id \in Nat
        BY DEF TypeOK, AuthorizationCodeRecord
      <3>2. res \in Resources
        BY <2>1, StoreAssumption
        DEF TokenAuthorizationCode, CodeExchangeSucceeds, ValidTokenResource,
          OAuthResource, Resources
      <3>3. /\ accessTokens' \subseteq AccessTokenRecord
            /\ refreshTokens' \subseteq RefreshTokenRecord
            /\ audit' \subseteq AuditEvent
            /\ lastHandle' \in Nat
        BY <2>1, <3>1, <3>2, IssuePairType
        DEF TokenAuthorizationCode, GrantTypes
      <3>4. <<code.id, lastHandle + 1>> \in Nat \X Nat
        BY <3>1 DEF TypeOK, StoreTypeOK
      <3>. QED
        BY <2>1, <3>1, <3>3, <3>4, RegisteredType
        DEF TokenAuthorizationCode, CodesAfterConsume, TypeOK, StoreTypeOK
    <2>2. ASSUME NEW code \in codes, NEW r, NEW o, NEW v, NEW res,
                 TokenAuthorizationCodeFails(code, c, secret, r, o, res, v)
          PROVE  TypeOK'
      <3>1. code.id \in Nat
        BY DEF TypeOK, AuthorizationCodeRecord
      <3>. QED
        BY <2>2, <3>1, RegisteredType
        DEF TokenAuthorizationCodeFails, CodesAfterConsume, TypeOK,
          StoreTypeOK, tables
    <2>3. ASSUME NEW t \in refreshTokens, TokenRefreshExpired(t, c, secret)
          PROVE  TypeOK'
      <3>1. t.id \in Nat
        BY DEF TypeOK, StoreTypeOK, RefreshTokenRecord
      <3>. QED
        BY <2>3, <3>1, RegisteredType
        DEF TokenRefreshExpired, RefreshTokensAfterGet, TypeOK, StoreTypeOK
    <2>4. ASSUME NEW t \in refreshTokens, NEW o \in Origins, NEW res,
                 TokenRefresh(t, c, secret, o, res)
          PROVE  TypeOK'
      <3>1. /\ t.scope \in Scopes
            /\ t.grant \in GrantTypes
            /\ t.audience \in Resources
            /\ t.issuer \in Origins
        BY DEF TypeOK, StoreTypeOK, RefreshTokenRecord
      <3>2. IssueOne(c, t.scope, t.grant, t.audience, t.issuer)
        BY <2>4 DEF TokenRefresh, RefreshedAudience, RefreshedIssuer
      <3>3. /\ accessTokens' \subseteq AccessTokenRecord
            /\ audit' \subseteq AuditEvent
            /\ lastHandle' \in Nat
        BY <3>1, <3>2, IssueOneType
      <3>. QED
        BY <2>4, <3>3, RegisteredType
        DEF TokenRefresh, TypeOK, StoreTypeOK, history
    <2>. QED
      BY <2>1, <2>2, <2>3, <2>4
  <1>3. CASE ServiceTokenStep
    <2>. PICK c \in Clients, s \in Scopes, o \in Origins :
           TokenClientCredentials(c, s, o)
      BY <1>3 DEF ServiceTokenStep
    <2>1. OAuthResource(o) \in Resources
      BY StoreAssumption DEF OAuthResource, Resources
    <2>2. /\ accessTokens' \subseteq AccessTokenRecord
          /\ audit' \subseteq AuditEvent
          /\ lastHandle' \in Nat
      BY <2>1, IssueOneType DEF TokenClientCredentials, GrantTypes
    <2>. QED
      BY <2>2, RegisteredType
      DEF TokenClientCredentials, TypeOK, StoreTypeOK, history
  <1>4. CASE McpStep
    <2>1. ASSUME NEW t \in accessTokens, McpTokenExpired(t)
          PROVE  TypeOK'
      <3>1. t.id \in Nat
        BY DEF TypeOK, StoreTypeOK, AccessTokenRecord
      <3>. QED
        BY <2>1, <3>1
        DEF McpTokenExpired, AccessTokensAfterGet, TypeOK, StoreTypeOK
    <2>2. ASSUME NEW t \in accessTokens, NEW o \in Origins,
                 McpAuthorize(t, o)
          PROVE  TypeOK'
      <3>1. [token |-> t, origin |-> o] \in Call
        BY DEF Call, TypeOK, StoreTypeOK
      <3>. QED
        BY <2>2, <3>1
        DEF McpAuthorize, TypeOK, StoreTypeOK, storeVars, tables, history
    <2>3. ASSUME NEW call \in calls, McpDispatch(call)
          PROVE  TypeOK'
      BY <2>3 DEF McpDispatch, TypeOK, StoreTypeOK, storeVars, tables, history
    <2>. QED
      BY <1>4, <2>1, <2>2, <2>3 DEF McpStep
  <1>5. CASE MintStep
    <2>. PICK c \in Clients, s \in Scopes, aud \in Resources :
           MintExpiredToken(c, s, aud)
      BY <1>5 DEF MintStep
    <2>1. [id |-> MintedHandle, client |-> c, scope |-> s,
           grant |-> "test_expired", audience |-> aud, issuer |-> TestIssuer,
           exp |-> now - 1] \in AccessTokenRecord
      BY StoreAssumption
      DEF AccessTokenRecord, MintedHandle, TypeOK, StoreTypeOK
    <2>2. TokenIssued(c, s, "issued_expired", MintedHandle) \in AuditEvent
      BY DEF TokenIssued, AuditEvent, MintedHandle
    <2>. QED
      BY <2>1, <2>2 DEF MintExpiredToken, TypeOK, StoreTypeOK, history
  <1>6. CASE ResetState
    BY <1>6, StoreResetType DEF ResetState, TypeOK, history
  <1>7. CASE Registration
    <2>1. ASSUME NEW c \in Clients, RegisterClient(c)
          PROVE  StoreTypeOK'
      BY <2>1, RegisterClientType DEF TypeOK
    <2>2. ASSUME NEW c \in Clients, ResolveUrlClient(c)
          PROVE  StoreTypeOK'
      BY <2>2, RegisteredType
      DEF ResolveUrlClient, TypeOK, StoreTypeOK, tables
    <2>. QED
      BY <1>7, <2>1, <2>2 DEF Registration, TypeOK, history
  <1>8. CASE ClockStep
    BY <1>8, StoreAssumption
    DEF ClockStep, Tick, ConfigureClock, TypeOK, StoreTypeOK, history
  <1>9. CASE ScopeStep
    BY <1>9, StoreAssumption
    DEF ScopeStep, ConfigureScopes, TypeOK, StoreTypeOK, history
  <1>10. CASE UNCHANGED vars
    BY <1>10 DEF vars, storeVars, tables, history, TypeOK, StoreTypeOK
  <1>. QED
    BY <1>1, <1>2, <1>3, <1>4, <1>5, <1>6, <1>7, <1>8, <1>9, <1>10 DEF Next

\* Every table of the server keeps its type, whatever the requests.
THEOREM TypeCorrect == Spec => []TypeOK
  BY InitType, StepType, PTL DEF Spec

-----------------------------------------------------------------------------
(* Authorization codes *)

\* The names of the steps that touch neither the codes nor their histories.
CodesUntouched == UNCHANGED <<codes, attempted, redeemed>>

\* Inductive: a code in the table was drawn from the counter, is the only one
\* of its name and was never attempted; whatever was redeemed was attempted.
CodeInv ==
  /\ \A code \in codes : code.id <= lastHandle /\ code.id \notin attempted
  /\ \A x, y \in codes : x.id = y.id => x = y
  /\ \A h \in attempted : h <= lastHandle
  /\ \A p \in redeemed : p[1] \in attempted

\* The counter of handles only grows.
LEMMA HandlesGrow ==
  ASSUME TypeOK, [Next]_vars
  PROVE  lastHandle <= lastHandle'
  <1>. lastHandle \in Nat
    BY DEF TypeOK, StoreTypeOK
  <1>1. CASE AuthorizationStep
    <2>1. ASSUME NEW c, NEW s, NEW mode, Deny(c, s, mode)
          PROVE  lastHandle' = lastHandle
      BY <2>1 DEF Deny
    <2>2. ASSUME NEW c, NEW r, NEW s, NEW o, NEW ch, NEW mode, NEW confirmed,
                 Approve(c, r, s, o, ch, mode, confirmed)
          PROVE  lastHandle' = lastHandle + 1
      BY <2>2 DEF Approve
    <2>3. UNCHANGED tables => lastHandle' = lastHandle
      BY DEF tables
    <2>4. lastHandle' = lastHandle \/ lastHandle' = lastHandle + 1
      BY <1>1, <2>1, <2>2, <2>3, AuthorizationCases
    <2>. QED
      BY <2>4
  <1>2. CASE TokenStep
    BY <1>2
    DEF TokenStep, TokenAuthorizationCode, TokenAuthorizationCodeFails,
      TokenRefresh, TokenRefreshExpired, IssuePair, IssueOne, tables
  <1>3. CASE ServiceTokenStep
    BY <1>3 DEF ServiceTokenStep, TokenClientCredentials, IssueOne
  <1>4. CASE McpStep
    BY <1>4
    DEF McpStep, McpTokenExpired, McpAuthorize, McpDispatch, storeVars,
      tables
  <1>5. CASE MintStep \/ ResetState \/ ClockStep \/ ScopeStep
    <2>1. lastHandle' = lastHandle
      BY <1>5
      DEF MintStep, MintExpiredToken, ResetState, StoreReset, ClockStep,
        ScopeStep
    <2>. QED
      BY <2>1
  <1>6. CASE Registration
    BY <1>6 DEF Registration, RegisterClient, ResolveUrlClient, tables
  <1>7. CASE UNCHANGED vars
    BY <1>7 DEF vars, storeVars, tables
  <1>. QED
    BY <1>1, <1>2, <1>3, <1>4, <1>5, <1>6, <1>7 DEF Next

LEMMA CodesUntouchedInv ==
  ASSUME TypeOK, TypeOK', CodeInv, lastHandle <= lastHandle', CodesUntouched
  PROVE  CodeInv'
  <1>1. /\ lastHandle \in Nat /\ lastHandle' \in Nat
        /\ \A code \in codes : code.id \in Nat
        /\ attempted \subseteq Nat
    BY DEF TypeOK, StoreTypeOK, AuthorizationCodeRecord
  <1>2. /\ \A code \in codes : code.id <= lastHandle'
        /\ \A h \in attempted : h <= lastHandle'
    BY <1>1 DEF CodeInv
  <1>. QED
    BY <1>2 DEF CodeInv, CodesUntouched

\* A code that is popped by an attempt, successful or not.
LEMMA CodeAttemptedInv ==
  ASSUME TypeOK, TypeOK', CodeInv, lastHandle <= lastHandle',
         NEW code \in codes, NEW c, NEW r, NEW t,
         codes' = CodesAfterConsume(code, c, r),
         attempted' = attempted \cup {code.id},
         redeemed' \subseteq redeemed \cup {<<code.id, t>>}
  PROVE  CodeInv'
  <1>1. /\ lastHandle \in Nat /\ lastHandle' \in Nat
        /\ \A x \in codes : x.id \in Nat
        /\ attempted \subseteq Nat
    BY DEF TypeOK, StoreTypeOK, AuthorizationCodeRecord
  <1>2. /\ \A x \in codes : x.id <= lastHandle'
        /\ \A h \in attempted : h <= lastHandle'
    BY <1>1 DEF CodeInv
  <1>3. \A x \in codes' : x \in codes /\ x.id # code.id
    BY DEF CodeInv, CodesAfterConsume
  <1>4. \A p \in redeemed' : p[1] \in attempted'
    BY DEF CodeInv
  <1>. QED
    BY <1>2, <1>3, <1>4 DEF CodeInv

\* A code that is issued, for whatever reason: its name is new.
LEMMA CodeIssuedInv ==
  ASSUME TypeOK, CodeInv, NEW new, new.id = lastHandle + 1,
         codes' = codes \cup {new},
         lastHandle' = lastHandle + 1,
         UNCHANGED <<attempted, redeemed>>
  PROVE  CodeInv'
  <1>1. /\ lastHandle \in Nat
        /\ \A code \in codes : code.id \in Nat
        /\ attempted \subseteq Nat
    BY DEF TypeOK, StoreTypeOK, AuthorizationCodeRecord
  <1>. QED
    BY <1>1 DEF CodeInv

LEMMA StepCodeInv == TypeOK /\ CodeInv /\ [Next]_vars => CodeInv'
  <1>. SUFFICES ASSUME TypeOK, CodeInv, [Next]_vars PROVE CodeInv'
    OBVIOUS
  <1>. TypeOK' /\ lastHandle <= lastHandle'
    BY StepType, HandlesGrow
  <1>1. CASE AuthorizationStep
    <2>1. ASSUME NEW c, NEW r, NEW s, NEW o, NEW ch, NEW mode, NEW confirmed,
                 Approve(c, r, s, o, ch, mode, confirmed)
          PROVE  CodeInv'
      BY <2>1, CodeIssuedInv DEF Approve, NewAuthorizationCode, history
    <2>2. CASE CodesUntouched
      BY <2>2, CodesUntouchedInv
    <2>3. ASSUME NEW c, NEW s, NEW mode, Deny(c, s, mode)
          PROVE  CodesUntouched
      BY <2>3 DEF Deny, CodesUntouched, history
    <2>4. UNCHANGED <<tables, codes, approvals, calls, attempted,
                      redeemed, lapsed>>
            => CodesUntouched
      BY DEF CodesUntouched
    <2>. QED
      BY <1>1, <2>1, <2>2, <2>3, <2>4, AuthorizationCases
  <1>2. CASE TokenStep
    <2>1. ASSUME NEW code \in codes, NEW c, NEW secret, NEW r, NEW o, NEW res,
                 NEW v, TokenAuthorizationCode(code, c, secret, r, o, res, v)
          PROVE  CodeInv'
      BY <2>1, CodeAttemptedInv DEF TokenAuthorizationCode
    <2>2. ASSUME NEW code \in codes, NEW c, NEW secret, NEW r, NEW o, NEW res,
                 NEW v,
                 TokenAuthorizationCodeFails(code, c, secret, r, o, res, v)
          PROVE  CodeInv'
      BY <2>2, CodeAttemptedInv DEF TokenAuthorizationCodeFails
    <2>3. ASSUME NEW t, NEW c, NEW secret,
                 \/ TokenRefreshExpired(t, c, secret)
                 \/ \E o, res : TokenRefresh(t, c, secret, o, res)
          PROVE  CodeInv'
      <3>1. CodesUntouched
        BY <2>3
        DEF TokenRefresh, TokenRefreshExpired, CodesUntouched, history
      <3>. QED
        BY <3>1, CodesUntouchedInv
    <2>. QED
      BY <1>2, <2>1, <2>2, <2>3 DEF TokenStep
  <1>3. CASE ResetState
    BY <1>3 DEF ResetState, StoreReset, CodeInv, history
  <1>4. CASE ServiceTokenStep \/ McpStep \/ MintStep
    BY <1>4, CodesUntouchedInv
    DEF ServiceTokenStep, TokenClientCredentials, McpStep, McpTokenExpired,
      McpAuthorize, McpDispatch, MintStep, MintExpiredToken, CodesUntouched,
      history
  <1>5. CASE Registration \/ ClockStep \/ ScopeStep \/ UNCHANGED vars
    BY <1>5, CodesUntouchedInv
    DEF Registration, ClockStep, ScopeStep, CodesUntouched, vars, history
  <1>. QED
    BY <1>1, <1>2, <1>3, <1>4, <1>5 DEF Next

LEMMA InitCodeInv == Init => CodeInv
  BY DEF Init, CodeInv

LEMMA CodeInvariant == Spec => [](TypeOK /\ CodeInv)
  BY InitType, StepType, InitCodeInv, StepCodeInv, PTL DEF Spec

\* A code that was tried once, with whatever outcome, is not in the store.
THEOREM SingleAttempt == Spec => []CodeGetsOneAttempt
  <1>1. CodeInv => CodeGetsOneAttempt
    BY DEF CodeInv, CodeGetsOneAttempt
  <1>. QED
    BY <1>1, CodeInvariant, PTL

-----------------------------------------------------------------------------
(* Codes and what they buy implement the ledger of grants *)

Pending == {code.id : code \in codes}
FlowIds(tokens) == IdsOf("authorization_code", tokens)

LEMMA LedgerUntouched ==
  ASSUME UNCHANGED <<codes, redeemed, lastHandle>>,
         FlowIds(accessTokens') = FlowIds(accessTokens),
         FlowIds(refreshTokens') = FlowIds(refreshTokens)
  PROVE  UNCHANGED Ledger!ledgerVars
  BY DEF FlowIds, IdsOf, CodeFlowTokens, Ledger!ledgerVars

LEMMA LedgerVoids ==
  ASSUME Pending' \subseteq Pending,
         accessTokens' \subseteq accessTokens,
         refreshTokens' \subseteq refreshTokens,
         UNCHANGED <<redeemed, lastHandle>>
  PROVE  Ledger!Void
  BY DEF Pending, CodeFlowTokens, Ledger!Void

LEMMA IssueGrants ==
  ASSUME TypeOK, NEW new, new.id = lastHandle + 1,
         lastHandle + 1 <= MaxHandles,
         codes' = codes \cup {new},
         lastHandle' = lastHandle + 1,
         UNCHANGED <<redeemed, accessTokens, refreshTokens>>
  PROVE  Ledger!Grant
  <1>. PICK h : h = lastHandle + 1
    OBVIOUS
  <1>1. Pending' = Pending \cup {h}
    BY DEF Pending
  <1>2. h \in (1..MaxHandles) \ Used /\ 1..lastHandle' = Used \cup {h}
    BY FreshHandle DEF TypeOK
  <1>. QED
    BY <1>1, <1>2 DEF Ledger!Grant, Pending, Used, CodeFlowTokens

LEMMA ApproveGrants ==
  ASSUME TypeOK,
         NEW c, NEW r, NEW s, NEW o, NEW ch, NEW mode, NEW confirmed,
         Approve(c, r, s, o, ch, mode, confirmed)
  PROVE  Ledger!Grant
  BY IssueGrants DEF Approve, NewAuthorizationCode, history

\* Popping a code removes its name from the pending ones: names are unique.
LEMMA ConsumeUnlists ==
  ASSUME CodeInv, NEW code \in codes, NEW c, NEW r,
         codes' = CodesAfterConsume(code, c, r)
  PROVE  Pending' = Pending \ {code.id}
  BY DEF CodeInv, CodesAfterConsume, Pending

LEMMA PairDrawsHandle ==
  ASSUME TypeOK, NEW c, NEW s, NEW g, NEW aud, NEW iss,
         IssuePair(c, s, g, aud, iss)
  PROVE  lastHandle + 1 <= MaxHandles /\ lastHandle <= lastHandle'
  BY PairLists, StoreAssumption DEF TypeOK, StoreTypeOK

LEMMA ConsumeRedeems ==
  ASSUME TypeOK, CodeInv, NEW code \in codes, NEW c, NEW r, NEW s, NEW aud,
         NEW iss, IssuePair(c, s, "authorization_code", aud, iss),
         codes' = CodesAfterConsume(code, c, r),
         redeemed' = redeemed \cup {<<code.id, lastHandle + 1>>}
  PROVE  Ledger!Redeem
  <1>. PICK t : t = lastHandle + 1
    OBVIOUS
  <1>. PICK u : u = lastHandle + 2
    OBVIOUS
  <1>1. Pending' = Pending \ {code.id} /\ code.id \in Pending
    BY ConsumeUnlists DEF Pending
  <1>2. /\ FlowIds(accessTokens') = FlowIds(accessTokens) \cup {t}
        /\ t \in (1..MaxHandles) \ Used
        /\ \/ /\ 1..lastHandle' = Used \cup {t}
              /\ FlowIds(refreshTokens') = FlowIds(refreshTokens)
           \/ /\ u \in (1..MaxHandles) \ (Used \cup {t})
              /\ 1..lastHandle' = Used \cup {t, u}
              /\ FlowIds(refreshTokens') = FlowIds(refreshTokens) \cup {u}
    BY PairLists DEF TypeOK, FlowIds
  <1>4. Ledger!Buy(code.id, t)
    BY <1>1, <1>2
    DEF Ledger!Buy, Pending, Used, FlowIds, IdsOf, CodeFlowTokens
  <1>. QED
    BY <1>1, <1>2, <1>4 DEF Ledger!Redeem, Pending, Used

LEMMA ExchangeRedeems ==
  ASSUME TypeOK, CodeInv,
         NEW code \in codes, NEW c, NEW secret, NEW r, NEW o, NEW res, NEW v,
         TokenAuthorizationCode(code, c, secret, r, o, res, v)
  PROVE  Ledger!Redeem
  BY ConsumeRedeems DEF TokenAuthorizationCode

\* An access token alone is one of a code flow only if there is a refresh
\* token of a code flow it comes from.
LEMMA IssueOneLedger ==
  ASSUME TypeOK, NEW c, NEW s, NEW g, NEW aud, NEW iss,
         IssueOne(c, s, g, aud, iss),
         g = "authorization_code" => FlowIds(refreshTokens) # {},
         UNCHANGED <<codes, redeemed, refreshTokens>>
  PROVE  Ledger!Refresh \/ Ledger!DrawElsewhere
  <1>. PICK h : h = lastHandle + 1
    OBVIOUS
  <1>. PICK a : a = NewAccessToken(c, s, g, aud, iss)
    OBVIOUS
  <1>1. /\ accessTokens' = accessTokens \cup {a}
        /\ a.id = h /\ a.grant = g
        /\ h <= MaxHandles
        /\ lastHandle' = h
        /\ StoreTypeOK
    BY DEF TypeOK, IssueOne, IssueAccessToken, NewAccessToken
  <1>2. h \in (1..MaxHandles) \ Used /\ 1..lastHandle' = Used \cup {h}
    BY <1>1, FreshHandle
  <1>3. CASE g = "authorization_code"
    <2>1. FlowIds(accessTokens') = FlowIds(accessTokens) \cup {h}
      <3>1. FlowIds(accessTokens \cup {a}) = FlowIds(accessTokens) \cup {a.id}
        BY <1>1, <1>3 DEF FlowIds, IdsOf
      <3>. QED
        BY <1>1, <3>1
    <2>2. Ledger!Refresh
      BY <1>2, <1>3, <2>1 DEF Ledger!Refresh, Used, FlowIds, IdsOf,
          CodeFlowTokens
    <2>. QED
      BY <2>2
  <1>4. CASE g # "authorization_code"
    <2>1. FlowIds(accessTokens') = FlowIds(accessTokens)
      BY <1>1, <1>4 DEF FlowIds, IdsOf
    <2>2. Ledger!DrawElsewhere
      BY <1>2, <2>1 DEF Ledger!DrawElsewhere, Used, FlowIds, IdsOf,
          CodeFlowTokens
    <2>. QED
      BY <2>2
  <1>. QED
    BY <1>3, <1>4

LEMMA RefreshLedger ==
  ASSUME TypeOK, NEW t \in refreshTokens, NEW c, NEW s, NEW aud, NEW iss,
         IssueOne(c, s, t.grant, aud, iss),
         UNCHANGED <<codes, redeemed, refreshTokens>>
  PROVE  Ledger!Refresh \/ Ledger!DrawElsewhere
  <1>1. t.grant = "authorization_code" => t.id \in FlowIds(refreshTokens)
    BY DEF FlowIds, IdsOf, CodeFlowTokens
  <1>. QED
    BY <1>1, IssueOneLedger

LEMMA StepLedger ==
  TypeOK /\ CodeInv /\ [Next]_vars => [Ledger!LedgerNext]_(Ledger!ledgerVars)
  <1>. SUFFICES ASSUME TypeOK, CodeInv, [Next]_vars
                PROVE  Ledger!LedgerNext \/ UNCHANGED Ledger!ledgerVars
    OBVIOUS
  <1>0. UNCHANGED <<codes, redeemed, lastHandle, accessTokens, refreshTokens>>
          => UNCHANGED Ledger!ledgerVars
    BY LedgerUntouched
  <1>1. CASE AuthorizationStep
    <2>1. ASSUME NEW c, NEW s, NEW mode, Deny(c, s, mode)
          PROVE  UNCHANGED Ledger!ledgerVars
      BY <1>0, <2>1 DEF Deny, history
    <2>2. UNCHANGED <<tables, codes, approvals, calls, attempted,
                      redeemed, lapsed>>
            => UNCHANGED Ledger!ledgerVars
      BY <1>0 DEF tables
    <2>. QED
      BY <1>1, <2>1, <2>2, AuthorizationCases, ApproveGrants
      DEF Ledger!LedgerNext
  <1>2. CASE TokenStep
    <2>1. ASSUME NEW code \in codes, NEW c, NEW secret, NEW r, NEW o, NEW res,
                 NEW v,
                 TokenAuthorizationCodeFails(code, c, secret, r, o, res, v)
          PROVE  Ledger!Void
      <3>1. Pending' = Pending \ {code.id}
        BY <2>1, ConsumeUnlists DEF TokenAuthorizationCodeFails
      <3>. QED
        BY <2>1, <3>1, LedgerVoids DEF TokenAuthorizationCodeFails, tables
    <2>2. ASSUME NEW t, NEW c, NEW secret, TokenRefreshExpired(t, c, secret)
          PROVE  Ledger!Void
      <3>1. refreshTokens' \subseteq refreshTokens
        BY <2>2 DEF TokenRefreshExpired, RefreshTokensAfterGet
      <3>. QED
        BY <2>2, <3>1, LedgerVoids DEF TokenRefreshExpired, Pending
    <2>3. ASSUME NEW t \in refreshTokens, NEW c, NEW secret, NEW o, NEW res,
                 TokenRefresh(t, c, secret, o, res)
          PROVE  Ledger!Refresh \/ Ledger!DrawElsewhere
      BY <2>3, RefreshLedger DEF TokenRefresh, history
    <2>. QED
      BY <1>2, <2>1, <2>2, <2>3, ExchangeRedeems
      DEF TokenStep, Ledger!LedgerNext
  <1>3. CASE ResetState
    <2>1. Ledger!Void
      BY <1>3, LedgerVoids DEF ResetState, StoreReset, history, Pending
    <2>. QED
      BY <2>1 DEF Ledger!LedgerNext
  <1>4. CASE ServiceTokenStep
    <2>1. PICK c \in Clients, s \in Scopes, o \in Origins :
            TokenClientCredentials(c, s, o)
      BY <1>4 DEF ServiceTokenStep
    <2>2. Ledger!Refresh \/ Ledger!DrawElsewhere
      BY <2>1, IssueOneLedger DEF TokenClientCredentials, history
    <2>. QED
      BY <2>2 DEF Ledger!LedgerNext
  <1>5. CASE McpStep
    <2>1. ASSUME NEW t, McpTokenExpired(t)
          PROVE  Ledger!Void
      <3>1. accessTokens' \subseteq accessTokens
        BY <2>1 DEF McpTokenExpired, AccessTokensAfterGet
      <3>. QED
        BY <2>1, <3>1, LedgerVoids DEF McpTokenExpired, Pending
    <2>2. ASSUME \/ \E t, o : McpAuthorize(t, o)
                 \/ \E call : McpDispatch(call)
          PROVE  UNCHANGED Ledger!ledgerVars
      BY <1>0, <2>2
      DEF McpAuthorize, McpDispatch, storeVars, tables, history
    <2>. QED
      BY <1>5, <2>1, <2>2 DEF McpStep, Ledger!LedgerNext
  <1>6. CASE MintStep
    <2>1. PICK c \in Clients, s \in Scopes, aud \in Resources :
            MintExpiredToken(c, s, aud)
      BY <1>6 DEF MintStep
    <2>. PICK m : m = [id |-> MintedHandle, client |-> c, scope |-> s,
                       grant |-> "test_expired", audience |-> aud,
                       issuer |-> TestIssuer, exp |-> now - 1]
      OBVIOUS
    <2>2. accessTokens' = accessTokens \cup {m} /\ m.grant = "test_expired"
      BY <2>1 DEF MintExpiredToken
    <2>3. FlowIds(accessTokens') = FlowIds(accessTokens)
      BY <2>2 DEF FlowIds, IdsOf
    <2>. QED
      BY <2>1, <2>3, LedgerUntouched DEF MintExpiredToken, history
  <1>7. CASE Registration \/ ClockStep \/ ScopeStep \/ UNCHANGED vars
    BY <1>0, <1>7
    DEF Registration, RegisterClient, ResolveUrlClient, ClockStep, ScopeStep,
      vars, storeVars, tables, history
  <1>. QED
    BY <1>1, <1>2, <1>3, <1>4, <1>5, <1>6, <1>7 DEF Next

LEMMA InitLedger == Init => Ledger!LedgerInit
  <1>. SUFFICES ASSUME Init PROVE Ledger!LedgerInit
    OBVIOUS
  <1>1. 1..lastHandle = {}
    BY DEF Init, StoreInit
  <1>. QED
    BY <1>1 DEF Init, StoreInit, CodeFlowTokens, Ledger!LedgerInit

\* The server implements the ledger of grants: seen through its tables, every
\* behaviour is one of grants under fresh handles, single redemptions,
\* refreshes and voidings.
THEOREM LedgerRefinement == Spec => ImplementsLedger
  BY InitLedger, StepLedger, CodeInvariant, PTL
  DEF Spec, ImplementsLedger, Ledger!LedgerSpec

\* What the ledger itself guarantees, inductively: a code was redeemed into at
\* most one token, a token bought with one code, and a redeemed code is
\* pending no more.
LedgerInv ==
  /\ Ledger!OneTokenPerCode
  /\ \A p \in redeemed : p[1] \in Used \ Pending /\ p[2] \in Used
  /\ Pending \subseteq Used

LEMMA LedgerStart == Ledger!LedgerInit => LedgerInv
  BY DEF Ledger!LedgerInit, LedgerInv, Ledger!OneTokenPerCode, Pending

LEMMA LedgerStep ==
  LedgerInv /\ [Ledger!LedgerNext]_(Ledger!ledgerVars) => LedgerInv'
  <1>. SUFFICES ASSUME LedgerInv, [Ledger!LedgerNext]_(Ledger!ledgerVars)
                PROVE  LedgerInv'
    OBVIOUS
  <1>1. CASE Ledger!Redeem
    <2>1. PICK h \in Pending, t \in (1..MaxHandles) \ Used :
            Ledger!Buy(h, t)
      BY <1>1 DEF Ledger!Redeem, Pending, Used
    <2>2. /\ Pending' = Pending \ {h}
          /\ redeemed' = redeemed \cup {<<h, t>>}
          /\ Used \cup {t} \subseteq Used'
      BY <2>1 DEF Ledger!Buy, Pending, Used
    <2>3. \A p \in redeemed : p[1] # h /\ p[2] # t
      BY DEF LedgerInv
    <2>4. \A p, q \in redeemed' : p[1] = q[1] \/ p[2] = q[2] => p = q
      BY <2>2, <2>3 DEF LedgerInv, Ledger!OneTokenPerCode
    <2>5. h \in Used
      BY DEF LedgerInv
    <2>. QED
      BY <2>2, <2>4, <2>5 DEF LedgerInv, Ledger!OneTokenPerCode
  <1>2. CASE Ledger!Grant
    <2>1. PICK h \in (1..MaxHandles) \ Used :
            /\ Used' = Used \cup {h}
            /\ Pending' = Pending \cup {h}
            /\ redeemed' = redeemed
      BY <1>2 DEF Ledger!Grant, Pending, Used
    <2>. QED
      BY <2>1 DEF LedgerInv, Ledger!OneTokenPerCode
  <1>3. CASE \/ Ledger!Refresh \/ Ledger!Void \/ Ledger!DrawElsewhere
             \/ UNCHANGED Ledger!ledgerVars
    <2>1. /\ Used \subseteq Used'
          /\ Pending' \subseteq Pending
          /\ redeemed' = redeemed
      BY <1>3
      DEF Ledger!Refresh, Ledger!Void, Ledger!DrawElsewhere,
        Ledger!ledgerVars, Pending, Used
    <2>. QED
      BY <2>1 DEF LedgerInv, Ledger!OneTokenPerCode
  <1>. QED
    BY <1>1, <1>2, <1>3 DEF Ledger!LedgerNext

\* No behaviour of the server, resets included, turns one authorization code
\* into two access tokens (token, consume_authorization_code).
THEOREM OneExchangePerCode == Spec => []Ledger!OneTokenPerCode
  <1>1. LedgerInv => Ledger!OneTokenPerCode
    BY DEF LedgerInv
  <1>. QED
    BY <1>1, LedgerStart, LedgerStep, LedgerRefinement, PTL
    DEF ImplementsLedger, Ledger!LedgerSpec

\* Whatever enters the ledger has a handle that was not used.
LEMMA LedgerStaysGone ==
  [Ledger!LedgerNext]_(Ledger!ledgerVars)
    => [Ledger!StaysGone]_(Ledger!ledgerVars)
  <1>. SUFFICES ASSUME [Ledger!LedgerNext]_(Ledger!ledgerVars)
                PROVE  [Ledger!StaysGone]_(Ledger!ledgerVars)
    OBVIOUS
  <1>1. CASE Ledger!Redeem
    <2>1. PICK h \in Pending, t \in (1..MaxHandles) \ Used :
            Ledger!Buy(h, t)
      BY <1>1 DEF Ledger!Redeem, Pending, Used
    <2>. QED
      BY <2>1 DEF Ledger!Buy, Ledger!StaysGone, Used
  <1>2. CASE \/ Ledger!Grant \/ Ledger!Refresh \/ Ledger!Void
             \/ Ledger!DrawElsewhere
    BY <1>2
    DEF Ledger!Grant, Ledger!Refresh, Ledger!Void, Ledger!DrawElsewhere,
      Ledger!StaysGone
  <1>. QED
    BY <1>1, <1>2 DEF Ledger!LedgerNext

\* A code that was redeemed, failed an exchange or was forgotten is never in
\* the store again, nor is a token of a code flow that lapsed or was forgotten
\* (consume_authorization_code, get_access_token, get_refresh_token, reset).
THEOREM NothingComesBack == Spec => Ledger!NothingReturns
  BY LedgerStaysGone, LedgerRefinement, PTL
  DEF ImplementsLedger, Ledger!LedgerSpec, Ledger!NothingReturns

-----------------------------------------------------------------------------
(* Consent *)

LEMMA ConsentInherited ==
  ASSUME NEW x, NEW y, Consented(x), y.client = x.client, y.scope = x.scope
  PROVE  Consented(y)
  BY DEF Consented, HasAdminScope

LEMMA ConsentKept ==
  ASSUME NEW x, Consented(x), approvals \subseteq approvals'
  PROVE  Consented(x)'
  BY DEF Consented

\* A step that drops no approval keeps the invariant if it covers what it adds.
LEMMA ConsentExtended ==
  ASSUME TokensBackedByConsent, approvals \subseteq approvals',
         \A x \in codes' :
            IsOAuthResource(x.resource) => x \in codes \/ Consented(x)',
         \A t \in accessTokens' :
            t.grant = "authorization_code" /\ IsOAuthResource(t.audience) =>
              t \in accessTokens \/ Consented(t)',
         \A t \in refreshTokens' :
            t.grant = "authorization_code" /\ IsOAuthResource(t.audience) =>
              t \in refreshTokens \/ Consented(t)'
  PROVE  TokensBackedByConsent'
  <1>1. ASSUME NEW x \in codes, IsOAuthResource(x.resource)
        PROVE  Consented(x)'
    BY <1>1, ConsentKept DEF TokensBackedByConsent
  <1>2. ASSUME NEW t \in CodeFlowTokens(accessTokens)
                          \cup CodeFlowTokens(refreshTokens),
               IsOAuthResource(t.audience)
        PROVE  Consented(t)'
    BY <1>2, ConsentKept DEF TokensBackedByConsent
  <1>3. ASSUME NEW t \in (CodeFlowTokens(accessTokens)
                            \cup CodeFlowTokens(refreshTokens))',
               IsOAuthResource(t.audience)
        PROVE  Consented(t)'
    BY <1>2, <1>3 DEF CodeFlowTokens
  <1>4. ASSUME NEW x \in codes', IsOAuthResource(x.resource)
        PROVE  Consented(x)'
    BY <1>1, <1>4
  <1>. QED
    BY <1>3, <1>4 DEF TokensBackedByConsent

\* A step that keeps the approvals and issues no code and no token.
LEMMA NothingIssued ==
  ASSUME TokensBackedByConsent, approvals' = approvals,
         codes' \subseteq codes,
         accessTokens' \subseteq accessTokens,
         refreshTokens' \subseteq refreshTokens
  PROVE  TokensBackedByConsent'
  BY ConsentExtended

LEMMA DenyConsent ==
  ASSUME TokensBackedByConsent, NEW c, NEW s, NEW mode, Deny(c, s, mode)
  PROVE  TokensBackedByConsent'
  BY ConsentExtended DEF Deny, RecordApproval

LEMMA ApproveConsent ==
  ASSUME TokensBackedByConsent,
         NEW c, NEW r, NEW s, NEW o, NEW ch, NEW mode, NEW confirmed,
         HasAdminScope(s) => mode = "manual" /\ confirmed,
         Approve(c, r, s, o, ch, mode, confirmed)
  PROVE  TokensBackedByConsent'
  <1>a. PICK new : new = NewAuthorizationCode(c, r, s, o, ch)
    OBVIOUS
  <1>b. PICK a : a = Approval(c, s, "approved", mode, confirmed)
    OBVIOUS
  <1>1. /\ codes' = codes \cup {new}
        /\ approvals' = approvals \cup {a}
        /\ UNCHANGED <<accessTokens, refreshTokens>>
    BY <1>a, <1>b DEF Approve, RecordApproval
  <1>2. new.client = c /\ new.scope = s
    BY <1>a DEF NewAuthorizationCode
  <1>3. /\ a.client = c /\ a.scope = s /\ a.decision = "approved"
        /\ HasAdminScope(s) => a.mode = "manual" /\ a.admin_scope_confirmed
    BY <1>b DEF Approval
  <1>4. Consented(new)'
    BY <1>1, <1>2, <1>3 DEF Consented, HasAdminScope
  <1>. QED
    BY <1>1, <1>4, ConsentExtended

\* The tokens of an exchange inherit the consent behind the code.
LEMMA ExchangeConsent ==
  ASSUME TokensBackedByConsent,
         NEW code \in codes, NEW c, NEW secret, NEW r, NEW o \in Origins,
         NEW res, NEW v,
         TokenAuthorizationCode(code, c, secret, r, o, res, v)
  PROVE  TokensBackedByConsent'
  <1>a. PICK access : access = NewAccessToken(c, code.scope,
                                             "authorization_code", res, o)
    OBVIOUS
  <1>b. PICK refresh : refresh = NewRefreshToken(c, code.scope,
                                                "authorization_code", res, o)
    OBVIOUS
  <1>1. /\ codes' \subseteq codes
        /\ approvals' = approvals
        /\ accessTokens' = accessTokens \cup {access}
        /\ refreshTokens' \subseteq refreshTokens \cup {refresh}
    BY <1>a, <1>b
    DEF TokenAuthorizationCode, CodesAfterConsume, IssuePair, IssueOne,
      IssueAccessToken
  <1>2. code.client = c /\ code.resource = res
    BY
    DEF TokenAuthorizationCode, CodeExchangeSucceeds, CodeAccepted,
      ValidTokenResource
  <1>3. /\ access.client = code.client /\ access.scope = code.scope
        /\ refresh.client = code.client /\ refresh.scope = code.scope
    BY <1>a, <1>b, <1>2 DEF NewAccessToken, NewRefreshToken
  <1>4. \E oo \in Origins : res = OAuthResource(oo)
    BY DEF TokenAuthorizationCode, CodeExchangeSucceeds, ValidTokenResource
  <1>5. Consented(code)
    BY <1>2, <1>4 DEF TokensBackedByConsent, IsOAuthResource
  <1>6. Consented(access)' /\ Consented(refresh)'
    BY <1>1, <1>3, <1>5, ConsentInherited, ConsentKept
  <1>. QED
    BY <1>1, <1>6, ConsentExtended

\* A refreshed token inherits the consent behind the refresh token.
LEMMA RefreshConsent ==
  ASSUME TokensBackedByConsent,
         NEW t \in refreshTokens, NEW c, NEW secret, NEW o, NEW res,
         TokenRefresh(t, c, secret, o, res)
  PROVE  TokensBackedByConsent'
  <1>a. PICK access : access = NewAccessToken(c, t.scope, t.grant,
                                             RefreshedAudience(t, res),
                                             RefreshedIssuer(t, o))
    OBVIOUS
  <1>1. /\ UNCHANGED <<codes, approvals, refreshTokens>>
        /\ accessTokens' = accessTokens \cup {access}
    BY <1>a DEF TokenRefresh, IssueOne, IssueAccessToken
  <1>2. /\ access.client = t.client
        /\ access.scope = t.scope
        /\ access.grant = t.grant
        /\ access.audience = t.audience
    BY <1>a DEF NewAccessToken, TokenRefresh, RefreshedAudience
  <1>3. ASSUME t.grant = "authorization_code", IsOAuthResource(t.audience)
        PROVE  Consented(access)'
    BY <1>1, <1>2, <1>3, ConsentInherited, ConsentKept
    DEF TokensBackedByConsent, CodeFlowTokens
  <1>. QED
    BY <1>1, <1>2, <1>3, ConsentExtended

\* A token of another grant needs no consent.
LEMMA ForeignTokenConsent ==
  ASSUME TokensBackedByConsent, NEW new,
         new.grant # "authorization_code",
         accessTokens' = accessTokens \cup {new},
         UNCHANGED <<codes, approvals, refreshTokens>>
  PROVE  TokensBackedByConsent'
  BY ConsentExtended

LEMMA StepConsent ==
  TokensBackedByConsent /\ [Next]_vars => TokensBackedByConsent'
  <1>. SUFFICES ASSUME TokensBackedByConsent, [Next]_vars
                PROVE  TokensBackedByConsent'
    OBVIOUS
  <1>1. CASE AuthorizationStep
    <2>1. CASE UNCHANGED <<tables, codes, approvals, calls, attempted,
                           redeemed, lapsed>>
      BY <2>1, NothingIssued DEF tables
    <2>. QED
      BY <1>1, <2>1, AuthorizationCases, DenyConsent, ApproveConsent
  <1>2. CASE TokenStep
    <2>1. ASSUME NEW code \in codes, NEW c, NEW secret, NEW r, NEW o, NEW res,
                 NEW v,
                 TokenAuthorizationCodeFails(code, c, secret, r, o, res, v)
          PROVE  TokensBackedByConsent'
      BY <2>1, NothingIssued
      DEF TokenAuthorizationCodeFails, CodesAfterConsume, tables
    <2>2. ASSUME NEW t, NEW c, NEW secret, TokenRefreshExpired(t, c, secret)
          PROVE  TokensBackedByConsent'
      BY <2>2, NothingIssued DEF TokenRefreshExpired, RefreshTokensAfterGet
    <2>. QED
      BY <1>2, <2>1, <2>2, ExchangeConsent, RefreshConsent DEF TokenStep
  <1>3. CASE ServiceTokenStep
    <2>. PICK c \in Clients, s \in Scopes, o \in Origins :
           TokenClientCredentials(c, s, o)
      BY <1>3 DEF ServiceTokenStep
    <2>a. PICK new : new = NewAccessToken(c, s, "client_credentials",
                                         OAuthResource(o), o)
      OBVIOUS
    <2>1. /\ accessTokens' = accessTokens \cup {new}
          /\ UNCHANGED <<codes, approvals, refreshTokens>>
      BY <2>a DEF TokenClientCredentials, IssueOne, IssueAccessToken
    <2>2. new.grant # "authorization_code"
      BY <2>a DEF NewAccessToken
    <2>. QED
      BY <2>1, <2>2, ForeignTokenConsent
  <1>4. CASE McpStep
    BY <1>4, NothingIssued
    DEF McpStep, McpTokenExpired, AccessTokensAfterGet, McpAuthorize,
      McpDispatch, storeVars, tables
  <1>5. CASE MintStep
    <2>. PICK c \in Clients, s \in Scopes, aud \in Resources :
           MintExpiredToken(c, s, aud)
      BY <1>5 DEF MintStep
    <2>a. PICK new : new = [id |-> MintedHandle, client |-> c, scope |-> s,
                           grant |-> "test_expired", audience |-> aud,
                           issuer |-> TestIssuer, exp |-> now - 1]
      OBVIOUS
    <2>1. /\ accessTokens' = accessTokens \cup {new}
          /\ UNCHANGED <<codes, approvals, refreshTokens>>
      BY <2>a DEF MintExpiredToken
    <2>2. new.grant # "authorization_code"
      BY <2>a
    <2>. QED
      BY <2>1, <2>2, ForeignTokenConsent
  <1>6. CASE ResetState
    BY <1>6
    DEF ResetState, StoreReset, TokensBackedByConsent, CodeFlowTokens
  <1>7. CASE Registration \/ ClockStep \/ ScopeStep \/ UNCHANGED vars
    <2>1. UNCHANGED <<codes, approvals, accessTokens, refreshTokens>>
      BY <1>7
      DEF Registration, RegisterClient, ResolveUrlClient, ClockStep,
        ScopeStep, vars, storeVars, tables
    <2>. QED
      BY <2>1, NothingIssued
  <1>. QED
    BY <1>1, <1>2, <1>3, <1>4, <1>5, <1>6, <1>7 DEF Next

\* Whatever a code flow leaves in the store, refreshed tokens included, is
\* covered by an approval on record for its client and scope, a manual and
\* confirmed one if the scope is an admin scope.
THEOREM ConsentBehindTokens == Spec => []TokensBackedByConsent
  <1>1. Init => TokensBackedByConsent
    BY DEF Init, StoreInit, TokensBackedByConsent, CodeFlowTokens
  <1>. QED
    BY <1>1, StepConsent, PTL DEF Spec

-----------------------------------------------------------------------------
(* What a step does to the tables of tokens *)

\* Audience and issuer agree on one origin.
AgreesOnOrigin(t) ==
  \E o \in Origins : t.issuer = o /\ t.audience = OAuthResource(o)

\* A refreshed token takes everything over from its refresh token.
TakesOver(t, u) ==
  t.issuer = u.issuer /\ t.audience = u.audience /\ t.grant = u.grant

TokensKept ==
  UNCHANGED <<accessTokens, refreshTokens, lapsed>>

IssuesAccess ==
  \E a : /\ a.id = lastHandle + 1
         /\ AgreesOnOrigin(a) \/ \E u \in refreshTokens : TakesOver(a, u)
         /\ accessTokens' = accessTokens \cup {a}
         /\ lastHandle' = lastHandle + 1
         /\ UNCHANGED <<refreshTokens, lapsed>>

IssuesBoth ==
  \E a, r : /\ a.id = lastHandle + 1
            /\ r.id = lastHandle + 2
            /\ AgreesOnOrigin(a) /\ AgreesOnOrigin(r)
            /\ accessTokens' = accessTokens \cup {a}
            /\ refreshTokens' = refreshTokens \cup {r}
            /\ lastHandle' = lastHandle + 2
            /\ UNCHANGED lapsed

DropsAccess ==
  \E t \in accessTokens :
    /\ accessTokens' = accessTokens \ {t}
    /\ lapsed' = lapsed \cup ({t.id} \ {MintedHandle})
    /\ UNCHANGED <<refreshTokens, lastHandle>>

DropsRefresh ==
  \E t \in refreshTokens :
    /\ refreshTokens' = refreshTokens \ {t}
    /\ lapsed' = lapsed \cup {t.id}
    /\ UNCHANGED <<accessTokens, lastHandle>>

Mints ==
  \E m : /\ m.id = MintedHandle
         /\ m.issuer = TestIssuer
         /\ accessTokens' = accessTokens \cup {m}
         /\ UNCHANGED <<refreshTokens, lapsed, lastHandle>>

ForgetsTokens ==
  /\ accessTokens' = {}
  /\ refreshTokens' = {}
  /\ UNCHANGED <<lapsed, lastHandle>>

TokenChange ==
  \/ TokensKept \/ IssuesAccess \/ IssuesBoth
  \/ DropsAccess \/ DropsRefresh \/ Mints \/ ForgetsTokens

\* What is left of TokenChange for the handles of tokens, whoever draws them.
DrawsAccess ==
  \E a : /\ a.id = lastHandle + 1
         /\ accessTokens' = accessTokens \cup {a}
         /\ lastHandle' = lastHandle + 1
         /\ UNCHANGED <<refreshTokens, lapsed>>

DrawsBoth ==
  \E a, r : /\ a.id = lastHandle + 1
            /\ r.id = lastHandle + 2
            /\ accessTokens' = accessTokens \cup {a}
            /\ refreshTokens' = refreshTokens \cup {r}
            /\ lastHandle' = lastHandle + 2
            /\ UNCHANGED lapsed

HandleChange ==
  \/ TokensKept \/ DrawsAccess \/ DrawsBoth
  \/ DropsAccess \/ DropsRefresh \/ Mints \/ ForgetsTokens

LEMMA TokenHandles == TokenChange => HandleChange
  BY DEF TokenChange, HandleChange, IssuesAccess, IssuesBoth, DrawsAccess,
    DrawsBoth

LEMMA IssueOneChange ==
  ASSUME NEW c, NEW s, NEW g, NEW aud, NEW iss,
         \/ \E o \in Origins : iss = o /\ aud = OAuthResource(o)
         \/ \E u \in refreshTokens :
              iss = u.issuer /\ aud = u.audience /\ g = u.grant,
         IssueOne(c, s, g, aud, iss), UNCHANGED <<refreshTokens, lapsed>>
  PROVE  IssuesAccess
  <1>. PICK a : a = NewAccessToken(c, s, g, aud, iss)
    OBVIOUS
  <1>1. /\ a.id = lastHandle + 1 /\ a.issuer = iss /\ a.audience = aud
        /\ a.grant = g
    BY DEF NewAccessToken
  <1>2. /\ accessTokens' = accessTokens \cup {a}
        /\ lastHandle' = lastHandle + 1
    BY DEF IssueOne, IssueAccessToken
  <1>3. AgreesOnOrigin(a) \/ \E u \in refreshTokens : TakesOver(a, u)
    BY <1>1 DEF AgreesOnOrigin, TakesOver
  <1>. QED
    BY <1>1, <1>2, <1>3 DEF IssuesAccess

LEMMA IssuePairChange ==
  ASSUME NEW c, NEW s, NEW g, NEW o \in Origins,
         IssuePair(c, s, g, OAuthResource(o), o), UNCHANGED lapsed
  PROVE  IssuesAccess \/ IssuesBoth
  <1>1. CASE /\ IssueOne(c, s, g, OAuthResource(o), o)
             /\ UNCHANGED refreshTokens
    BY <1>1, IssueOneChange
  <1>2. CASE /\ IssueAccessToken(c, s, g, OAuthResource(o), o)
             /\ refreshTokens' = refreshTokens \cup
                  {NewRefreshToken(c, s, g, OAuthResource(o), o)}
             /\ lastHandle' = lastHandle + 2
    <2>. PICK a : a = NewAccessToken(c, s, g, OAuthResource(o), o)
      OBVIOUS
    <2>. PICK r : r = NewRefreshToken(c, s, g, OAuthResource(o), o)
      OBVIOUS
    <2>1. /\ a.id = lastHandle + 1 /\ AgreesOnOrigin(a)
          /\ r.id = lastHandle + 2 /\ AgreesOnOrigin(r)
      BY DEF NewAccessToken, NewRefreshToken, AgreesOnOrigin
    <2>2. /\ accessTokens' = accessTokens \cup {a}
          /\ refreshTokens' = refreshTokens \cup {r}
      BY <1>2 DEF IssueAccessToken
    <2>. QED
      BY <1>2, <2>1, <2>2 DEF IssuesBoth
  <1>. QED
    BY <1>1, <1>2 DEF IssuePair

LEMMA TokenCases ==
  ASSUME [Next]_vars
  PROVE  TokenChange
  <1>1. CASE AuthorizationStep
    <2>1. TokensKept
      BY <1>1, AuthorizationCases
      DEF Deny, Approve, history, tables, TokensKept
    <2>. QED
      BY <2>1 DEF TokenChange
  <1>2. CASE TokenStep
    <2>1. ASSUME NEW code, NEW c, NEW secret, NEW r, NEW o \in Origins,
                 NEW res, NEW v,
                 TokenAuthorizationCode(code, c, secret, r, o, res, v)
          PROVE  IssuesAccess \/ IssuesBoth
      <3>1. res = OAuthResource(o)
        BY <2>1
        DEF TokenAuthorizationCode, CodeExchangeSucceeds, ValidTokenResource
      <3>. QED
        BY <2>1, <3>1, IssuePairChange DEF TokenAuthorizationCode
    <2>2. ASSUME NEW code, NEW c, NEW secret, NEW r, NEW o, NEW res, NEW v,
                 TokenAuthorizationCodeFails(code, c, secret, r, o, res, v)
          PROVE  TokensKept
      BY <2>2 DEF TokenAuthorizationCodeFails, tables, TokensKept
    <2>3. ASSUME NEW t \in refreshTokens, NEW c, NEW secret, NEW o, NEW res,
                 TokenRefresh(t, c, secret, o, res)
          PROVE  IssuesAccess
      BY <2>3, IssueOneChange
      DEF TokenRefresh, RefreshedAudience, RefreshedIssuer, history
    <2>4. ASSUME NEW t \in refreshTokens, NEW c, NEW secret,
                 TokenRefreshExpired(t, c, secret)
          PROVE  DropsRefresh
      BY <2>4 DEF TokenRefreshExpired, RefreshTokensAfterGet, DropsRefresh
    <2>. QED
      BY <1>2, <2>1, <2>2, <2>3, <2>4 DEF TokenStep, TokenChange
  <1>3. CASE ServiceTokenStep
    <2>1. IssuesAccess
      BY <1>3, IssueOneChange
      DEF ServiceTokenStep, TokenClientCredentials, history
    <2>. QED
      BY <2>1 DEF TokenChange
  <1>4. CASE McpStep
    <2>1. ASSUME NEW t \in accessTokens, McpTokenExpired(t)
          PROVE  DropsAccess
      BY <2>1 DEF McpTokenExpired, AccessTokensAfterGet, DropsAccess
    <2>2. ASSUME NEW t, NEW o, McpAuthorize(t, o)
          PROVE  TokensKept
      BY <2>2 DEF McpAuthorize, storeVars, tables, history, TokensKept
    <2>3. ASSUME NEW call, McpDispatch(call)
          PROVE  TokensKept
      BY <2>3 DEF McpDispatch, storeVars, tables, history, TokensKept
    <2>. QED
      BY <1>4, <2>1, <2>2, <2>3 DEF McpStep, TokenChange
  <1>5. CASE MintStep
    <2>. PICK c \in Clients, s \in Scopes, aud \in Resources :
           MintExpiredToken(c, s, aud)
      BY <1>5 DEF MintStep
    <2>. PICK m : m = [id |-> MintedHandle, client |-> c, scope |-> s,
                       grant |-> "test_expired", audience |-> aud,
                       issuer |-> TestIssuer, exp |-> now - 1]
      OBVIOUS
    <2>1. /\ m.id = MintedHandle
          /\ m.issuer = TestIssuer
          /\ accessTokens' = accessTokens \cup {m}
          /\ UNCHANGED <<refreshTokens, lapsed, lastHandle>>
      BY DEF MintExpiredToken, history
    <2>2. Mints
      BY <2>1 DEF Mints
    <2>. QED
      BY <2>2 DEF TokenChange
  <1>6. CASE ResetState
    BY <1>6 DEF ResetState, StoreReset, history, ForgetsTokens, TokenChange
  <1>7. CASE Registration \/ ClockStep \/ ScopeStep \/ UNCHANGED vars
    <2>1. TokensKept
      BY <1>7
      DEF Registration, RegisterClient, ResolveUrlClient, ClockStep,
        ScopeStep, vars, storeVars, tables, history, TokensKept
    <2>. QED
      BY <2>1 DEF TokenChange
  <1>. QED
    BY <1>1, <1>2, <1>3, <1>4, <1>5, <1>6, <1>7 DEF Next

-----------------------------------------------------------------------------
(* Tokens are usable, and those minted as expired are not *)

\* Inductive: audience and issuer agree on an origin in every table.
UsableInv ==
  /\ \A t \in accessTokens : t.id = MintedHandle \/ AgreesOnOrigin(t)
  /\ \A t \in refreshTokens : AgreesOnOrigin(t)

LEMMA StepUsable == UsableInv /\ [Next]_vars => UsableInv'
  <1>. SUFFICES ASSUME UsableInv, TokenChange PROVE UsableInv'
    BY TokenCases
  <1>1. CASE IssuesAccess
    <2>. PICK a : /\ AgreesOnOrigin(a)
                    \/ \E u \in refreshTokens : TakesOver(a, u)
                  /\ accessTokens' = accessTokens \cup {a}
                  /\ UNCHANGED refreshTokens
      BY <1>1 DEF IssuesAccess
    <2>1. AgreesOnOrigin(a)
      BY DEF UsableInv, AgreesOnOrigin, TakesOver
    <2>. QED
      BY <2>1 DEF UsableInv
  <1>2. CASE IssuesBoth
    BY <1>2 DEF IssuesBoth, UsableInv
  <1>3. CASE Mints
    BY <1>3 DEF Mints, UsableInv
  <1>4. CASE TokensKept \/ DropsAccess \/ DropsRefresh \/ ForgetsTokens
    BY <1>4
    DEF TokensKept, DropsAccess, DropsRefresh, ForgetsTokens, UsableInv
  <1>. QED
    BY <1>1, <1>2, <1>3, <1>4 DEF TokenChange

\* The server accepts what it issues: every token of a grant, refreshed ones
\* included, is good at the MCP endpoint under some origin.
THEOREM TokensUsable == Spec => []IssuedTokensUsable
  <1>1. Init => UsableInv
    BY DEF Init, StoreInit, UsableInv
  <1>2. UsableInv => IssuedTokensUsable
    BY
    DEF UsableInv, AgreesOnOrigin, IssuedTokensUsable, AcceptsToken,
      ValidAccessTokenIssuer
  <1>. QED
    BY <1>1, <1>2, StepUsable, PTL DEF Spec

\* Inductive: a minted token bears the test endpoint's issuer, and no request
\* past its token check holds one.
MintedInv ==
  /\ \A t \in accessTokens : t.id = MintedHandle => t.issuer = TestIssuer
  /\ CallsHoldIssuedTokens

LEMMA StepMinted == TypeOK /\ MintedInv /\ [Next]_vars => MintedInv'
  <1>. SUFFICES ASSUME TypeOK, MintedInv, [Next]_vars PROVE MintedInv'
    OBVIOUS
  <1>1. lastHandle + 1 # MintedHandle
    BY DEF TypeOK, StoreTypeOK, MintedHandle
  <1>2. \A t \in accessTokens' : t.id = MintedHandle => t.issuer = TestIssuer
    BY <1>1, TokenCases
    DEF MintedInv, TokenChange, TokensKept, IssuesAccess, IssuesBoth,
      DropsAccess, DropsRefresh, Mints, ForgetsTokens
  <1>3. CASE McpStep
    <2>1. ASSUME NEW t \in accessTokens, NEW o \in Origins,
                 McpAuthorize(t, o)
          PROVE  CallsHoldIssuedTokens'
      <3>. PICK new : new = [token |-> t, origin |-> o]
        OBVIOUS
      <3>1. t.id # MintedHandle
        BY <2>1, StoreAssumption
        DEF McpAuthorize, AcceptsToken, ValidAccessTokenIssuer, MintedInv
      <3>2. new.token = t /\ calls' = calls \cup {new}
        BY <2>1 DEF McpAuthorize
      <3>. QED
        BY <3>1, <3>2 DEF MintedInv, CallsHoldIssuedTokens
    <2>2. ASSUME NEW t, McpTokenExpired(t)
          PROVE  CallsHoldIssuedTokens'
      BY <2>2 DEF McpTokenExpired, MintedInv, CallsHoldIssuedTokens
    <2>3. ASSUME NEW call, McpDispatch(call)
          PROVE  CallsHoldIssuedTokens'
      BY <2>3 DEF McpDispatch, MintedInv, CallsHoldIssuedTokens
    <2>. QED
      BY <1>2, <1>3, <2>1, <2>2, <2>3 DEF McpStep, MintedInv
  <1>4. CASE AuthorizationStep
    <2>1. calls' = calls
      BY <1>4, AuthorizationCases DEF Deny, Approve
    <2>. QED
      BY <1>2, <2>1 DEF MintedInv, CallsHoldIssuedTokens
  <1>5. CASE TokenStep
    <2>1. calls' = calls
      BY <1>5
      DEF TokenStep, TokenAuthorizationCode, TokenAuthorizationCodeFails,
        TokenRefresh, TokenRefreshExpired
    <2>. QED
      BY <1>2, <2>1 DEF MintedInv, CallsHoldIssuedTokens
  <1>6. CASE \/ ServiceTokenStep \/ MintStep \/ ResetState \/ Registration
             \/ ClockStep \/ ScopeStep \/ UNCHANGED vars
    <2>1. calls' = calls
      BY <1>6
      DEF ServiceTokenStep, TokenClientCredentials, MintStep,
        MintExpiredToken, ResetState, Registration, ClockStep, ScopeStep, vars
    <2>. QED
      BY <1>2, <2>1 DEF MintedInv, CallsHoldIssuedTokens
  <1>. QED
    BY <1>3, <1>4, <1>5, <1>6 DEF Next

\* Wherever the clock is put, no request is served on the authority of a token
\* that was minted as expired.
THEOREM MintedNeverServed == Spec => []CallsHoldIssuedTokens
  <1>1. Init => MintedInv
    BY DEF Init, StoreInit, MintedInv, CallsHoldIssuedTokens
  <1>2. MintedInv => CallsHoldIssuedTokens
    BY DEF MintedInv
  <1>. QED
    BY <1>1, <1>2, InitType, StepType, StepMinted, PTL DEF Spec

-----------------------------------------------------------------------------
(* Expiry is final *)

\* Inductive: handles name one token each, were drawn, and a lapsed one names
\* none.
NamesInv ==
  /\ \A t \in accessTokens : t.id <= lastHandle
  /\ \A t \in refreshTokens : t.id <= lastHandle /\ t.id # MintedHandle
  /\ \A h \in lapsed : h <= lastHandle /\ h # MintedHandle
  /\ \A x, y \in accessTokens : x.id = y.id => x = y \/ x.id = MintedHandle
  /\ \A x, y \in refreshTokens : x.id = y.id => x = y
  /\ \A x \in accessTokens, y \in refreshTokens : x.id # y.id
  /\ ExpiryIsFinal

LEMMA HandlesNamed ==
  ASSUME TypeOK, TypeOK', NamesInv, HandleChange, lastHandle <= lastHandle'
  PROVE  NamesInv'
  <1>1. /\ lastHandle \in Nat /\ lastHandle' \in Nat
        /\ \A t \in accessTokens : t.id \in Nat
        /\ \A t \in refreshTokens : t.id \in Nat
        /\ lapsed \subseteq Nat
    BY DEF TypeOK, StoreTypeOK, AccessTokenRecord, RefreshTokenRecord
  <1>2. CASE TokensKept
    <2>1. /\ \A t \in accessTokens : t.id <= lastHandle'
          /\ \A t \in refreshTokens : t.id <= lastHandle'
          /\ \A h \in lapsed : h <= lastHandle'
      BY <1>1 DEF NamesInv
    <2>. QED
      BY <1>2, <2>1 DEF TokensKept, NamesInv, ExpiryIsFinal
  <1>3. CASE DrawsAccess
    <2>. PICK a : /\ a.id = lastHandle + 1
                  /\ accessTokens' = accessTokens \cup {a}
                  /\ lastHandle' = lastHandle + 1
                  /\ UNCHANGED <<refreshTokens, lapsed>>
      BY <1>3 DEF DrawsAccess
    <2>. QED
      BY <1>1 DEF NamesInv, ExpiryIsFinal, MintedHandle
  <1>4. CASE DrawsBoth
    <2>. PICK a, r : /\ a.id = lastHandle + 1
                     /\ r.id = lastHandle + 2
                     /\ accessTokens' = accessTokens \cup {a}
                     /\ refreshTokens' = refreshTokens \cup {r}
                     /\ lastHandle' = lastHandle + 2
                     /\ UNCHANGED lapsed
      BY <1>4 DEF DrawsBoth
    <2>. QED
      BY <1>1 DEF NamesInv, ExpiryIsFinal, MintedHandle
  <1>5. CASE DropsAccess
    <2>. PICK t \in accessTokens :
           /\ accessTokens' = accessTokens \ {t}
           /\ lapsed' = lapsed \cup ({t.id} \ {MintedHandle})
           /\ UNCHANGED <<refreshTokens, lastHandle>>
      BY <1>5 DEF DropsAccess
    <2>. QED
      BY <1>1 DEF NamesInv, ExpiryIsFinal
  <1>6. CASE DropsRefresh
    <2>. PICK t \in refreshTokens :
           /\ refreshTokens' = refreshTokens \ {t}
           /\ lapsed' = lapsed \cup {t.id}
           /\ UNCHANGED <<accessTokens, lastHandle>>
      BY <1>6 DEF DropsRefresh
    <2>. QED
      BY <1>1 DEF NamesInv, ExpiryIsFinal
  <1>7. CASE Mints
    <2>. PICK m : /\ m.id = MintedHandle
                  /\ accessTokens' = accessTokens \cup {m}
                  /\ UNCHANGED <<refreshTokens, lapsed, lastHandle>>
      BY <1>7 DEF Mints
    <2>. QED
      BY <1>1 DEF NamesInv, ExpiryIsFinal, MintedHandle
  <1>8. CASE ForgetsTokens
    BY <1>8 DEF ForgetsTokens, NamesInv, ExpiryIsFinal
  <1>. QED
    BY <1>2, <1>3, <1>4, <1>5, <1>6, <1>7, <1>8 DEF HandleChange

LEMMA StepNames == TypeOK /\ NamesInv /\ [Next]_vars => NamesInv'
  BY StepType, HandlesGrow, TokenCases, TokenHandles, HandlesNamed

\* However the clock is moved, a token that was refused because it had expired
\* is never accepted again.
THEOREM ExpiryFinal == Spec => []ExpiryIsFinal
  <1>1. Init => NamesInv
    BY DEF Init, StoreInit, NamesInv, ExpiryIsFinal
  <1>2. NamesInv => ExpiryIsFinal
    BY DEF NamesInv
  <1>. QED
    BY <1>1, <1>2, InitType, StepType, StepNames, PTL DEF Spec

-----------------------------------------------------------------------------
(* The audit log accounts for the store *)

ApprovalEvents == {e \in audit : e.event = "approval"}
RecordedApprovals ==
  {ApprovalEvent(a.client, a.scope, a.decision) : a \in approvals}

LEMMA AuditExtended ==
  ASSUME AuditAccountsForStore, audit \subseteq audit',
         \A x \in codes' :
            x \in codes \/ Accounted(x, "authorization_code_issued")',
         \A t \in accessTokens' :
            t \in accessTokens \/ Accounted(t, "token_issued")',
         ApprovalEvents' = RecordedApprovals'
  PROVE  AuditAccountsForStore'
  <1>1. ASSUME NEW x, NEW kind, Accounted(x, kind)
        PROVE  Accounted(x, kind)'
    BY <1>1 DEF Accounted
  <1>2. \A x \in codes' : Accounted(x, "authorization_code_issued")'
    BY <1>1 DEF AuditAccountsForStore
  <1>3. \A t \in accessTokens' : Accounted(t, "token_issued")'
    BY <1>1 DEF AuditAccountsForStore
  <1>. QED
    BY <1>2, <1>3
    DEF AuditAccountsForStore, ApprovalEvents, RecordedApprovals

\* Nothing but events of other kinds is added, and no approval.
LEMMA ApprovalsKept ==
  ASSUME AuditAccountsForStore, audit \subseteq audit',
         \A e \in audit' : e \in audit \/ e.event # "approval",
         UNCHANGED approvals
  PROVE  ApprovalEvents' = RecordedApprovals'
  BY DEF AuditAccountsForStore, ApprovalEvents, RecordedApprovals

LEMMA ApprovalRecorded ==
  ASSUME AuditAccountsForStore, NEW a, audit \subseteq audit',
         approvals' = approvals \cup {a},
         ApprovalEvent(a.client, a.scope, a.decision) \in audit',
         \A e \in audit' :
            \/ e \in audit
            \/ e.event # "approval"
            \/ e = ApprovalEvent(a.client, a.scope, a.decision)
  PROVE  ApprovalEvents' = RecordedApprovals'
  <1>1. PICK new : new = ApprovalEvent(a.client, a.scope, a.decision)
    OBVIOUS
  <1>2. new.event = "approval"
    BY <1>1 DEF ApprovalEvent
  <1>3. ApprovalEvents' = ApprovalEvents \cup {new}
    BY <1>1, <1>2 DEF ApprovalEvents
  <1>4. RecordedApprovals' = RecordedApprovals \cup {new}
    BY <1>1 DEF RecordedApprovals
  <1>. QED
    BY <1>3, <1>4
    DEF AuditAccountsForStore, ApprovalEvents, RecordedApprovals

LEMMA NothingAudited ==
  ASSUME AuditAccountsForStore, UNCHANGED <<audit, approvals>>,
         codes' \subseteq codes, accessTokens' \subseteq accessTokens
  PROVE  AuditAccountsForStore'
  <1>1. ApprovalEvents' = RecordedApprovals'
    BY DEF AuditAccountsForStore, ApprovalEvents, RecordedApprovals
  <1>. QED
    BY <1>1, AuditExtended

LEMMA IssueAudited ==
  ASSUME AuditAccountsForStore, NEW c, NEW s, NEW g, NEW aud, NEW iss,
         IssueAccessToken(c, s, g, aud, iss),
         codes' \subseteq codes, UNCHANGED approvals
  PROVE  AuditAccountsForStore'
  <1>. PICK t : t = NewAccessToken(c, s, g, aud, iss)
    OBVIOUS
  <1>. PICK e : e = TokenIssued(c, s, "issued", lastHandle + 1)
    OBVIOUS
  <1>1. /\ accessTokens' = accessTokens \cup {t}
        /\ audit' = audit \cup {e}
    BY DEF IssueAccessToken
  <1>2. /\ e.event = "token_issued" /\ e.handle = t.id
        /\ e.client = t.client /\ e.scope = t.scope
    BY DEF NewAccessToken, TokenIssued
  <1>3. Accounted(t, "token_issued")'
    BY <1>1, <1>2 DEF Accounted
  <1>4. ApprovalEvents' = RecordedApprovals'
    BY <1>1, <1>2, ApprovalsKept
  <1>. QED
    BY <1>1, <1>3, <1>4, AuditExtended

LEMMA DenyAudited ==
  ASSUME AuditAccountsForStore, NEW c, NEW s, NEW mode, Deny(c, s, mode)
  PROVE  AuditAccountsForStore'
  <1>. PICK a : a = Approval(c, s, "denied", mode, FALSE)
    OBVIOUS
  <1>1. a.client = c /\ a.scope = s /\ a.decision = "denied"
    BY DEF Approval
  <1>2. /\ approvals' = approvals \cup {a}
        /\ audit' =
             audit \cup {ApprovalEvent(a.client, a.scope, a.decision)}
        /\ UNCHANGED <<codes, accessTokens>>
    BY <1>1 DEF Deny, RecordApproval
  <1>3. ApprovalEvents' = RecordedApprovals'
    BY <1>2, ApprovalRecorded
  <1>. QED
    BY <1>2, <1>3, AuditExtended

LEMMA ApproveAudited ==
  ASSUME AuditAccountsForStore,
         NEW c, NEW r, NEW s, NEW o, NEW ch, NEW mode, NEW confirmed,
         Approve(c, r, s, o, ch, mode, confirmed)
  PROVE  AuditAccountsForStore'
  <1>. PICK new : new = NewAuthorizationCode(c, r, s, o, ch)
    OBVIOUS
  <1>. PICK e : e = CodeIssuedEvent(c, s, lastHandle + 1)
    OBVIOUS
  <1>. PICK a : a = Approval(c, s, "approved", mode, confirmed)
    OBVIOUS
  <1>1. a.client = c /\ a.scope = s /\ a.decision = "approved"
    BY DEF Approval
  <1>2. /\ approvals' = approvals \cup {a}
        /\ codes' = codes \cup {new}
        /\ audit' =
             audit \cup {e, ApprovalEvent(a.client, a.scope, a.decision)}
        /\ UNCHANGED accessTokens
    BY <1>1 DEF Approve, RecordApproval
  <1>3. /\ e.event = "authorization_code_issued" /\ e.handle = new.id
        /\ e.client = new.client /\ e.scope = new.scope
    BY DEF NewAuthorizationCode, CodeIssuedEvent
  <1>4. Accounted(new, "authorization_code_issued")'
    BY <1>2, <1>3 DEF Accounted
  <1>5. ApprovalEvents' = RecordedApprovals'
    BY <1>2, <1>3, ApprovalRecorded
  <1>. QED
    BY <1>2, <1>4, <1>5, AuditExtended

LEMMA StepAudit ==
  AuditAccountsForStore /\ [Next]_vars => AuditAccountsForStore'
  <1>. SUFFICES ASSUME AuditAccountsForStore, [Next]_vars
                PROVE  AuditAccountsForStore'
    OBVIOUS
  <1>1. CASE AuthorizationStep
    <2>1. CASE UNCHANGED <<tables, codes, approvals, calls, attempted,
                           redeemed, lapsed>>
      BY <2>1, NothingAudited DEF tables
    <2>. QED
      BY <1>1, <2>1, AuthorizationCases, DenyAudited, ApproveAudited
  <1>2. CASE TokenStep
    <2>1. ASSUME NEW code, NEW c, NEW secret, NEW r, NEW o, NEW res, NEW v,
                 TokenAuthorizationCode(code, c, secret, r, o, res, v)
          PROVE  AuditAccountsForStore'
      BY <2>1, IssueAudited
      DEF TokenAuthorizationCode, CodesAfterConsume, IssuePair, IssueOne
    <2>2. ASSUME NEW code, NEW c, NEW secret, NEW r, NEW o, NEW res, NEW v,
                 TokenAuthorizationCodeFails(code, c, secret, r, o, res, v)
          PROVE  AuditAccountsForStore'
      BY <2>2, NothingAudited
      DEF TokenAuthorizationCodeFails, CodesAfterConsume, tables
    <2>3. ASSUME NEW t, NEW c, NEW secret, NEW o, NEW res,
                 TokenRefresh(t, c, secret, o, res)
          PROVE  AuditAccountsForStore'
      BY <2>3, IssueAudited DEF TokenRefresh, IssueOne
    <2>4. ASSUME NEW t, NEW c, NEW secret, TokenRefreshExpired(t, c, secret)
          PROVE  AuditAccountsForStore'
      BY <2>4, NothingAudited DEF TokenRefreshExpired
    <2>. QED
      BY <1>2, <2>1, <2>2, <2>3, <2>4 DEF TokenStep
  <1>3. CASE ServiceTokenStep
    BY <1>3, IssueAudited
    DEF ServiceTokenStep, TokenClientCredentials, IssueOne
  <1>4. CASE McpStep
    BY <1>4, NothingAudited
    DEF McpStep, McpTokenExpired, AccessTokensAfterGet, McpAuthorize,
      McpDispatch, storeVars, tables
  <1>5. CASE MintStep
    <2>. PICK c \in Clients, s \in Scopes, aud \in Resources :
           MintExpiredToken(c, s, aud)
      BY <1>5 DEF MintStep
    <2>. PICK m : m = [id |-> MintedHandle, client |-> c, scope |-> s,
                       grant |-> "test_expired", audience |-> aud,
                       issuer |-> TestIssuer, exp |-> now - 1]
      OBVIOUS
    <2>. PICK e : e = TokenIssued(c, s, "issued_expired", MintedHandle)
      OBVIOUS
    <2>1. /\ accessTokens' = accessTokens \cup {m}
          /\ audit' = audit \cup {e}
          /\ UNCHANGED <<codes, approvals>>
      BY DEF MintExpiredToken
    <2>2. /\ e.event = "token_issued" /\ e.handle = m.id
          /\ e.client = m.client /\ e.scope = m.scope
      BY DEF TokenIssued
    <2>3. Accounted(m, "token_issued")'
      BY <2>1, <2>2 DEF Accounted
    <2>4. ApprovalEvents' = RecordedApprovals'
      BY <2>1, <2>2, ApprovalsKept
    <2>. QED
      BY <2>1, <2>3, <2>4, AuditExtended
  <1>6. CASE ResetState
    BY <1>6 DEF ResetState, StoreReset, AuditAccountsForStore
  <1>7. CASE Registration
    <2>1. ASSUME NEW c, RegisterClient(c),
                 UNCHANGED <<codes, approvals, calls, history>>
          PROVE  AuditAccountsForStore'
      <3>1. PICK s : audit' = audit \cup
                       {[event |-> "registration", client |-> c, scope |-> s,
                         result |-> "registered", handle |-> 0]}
        BY <2>1 DEF RegisterClient
      <3>2. ApprovalEvents' = RecordedApprovals'
        BY <2>1, <3>1, ApprovalsKept
      <3>. QED
        BY <2>1, <3>1, <3>2, AuditExtended DEF RegisterClient
    <2>2. ASSUME NEW c, ResolveUrlClient(c),
                 UNCHANGED <<codes, approvals, calls, history>>
          PROVE  AuditAccountsForStore'
      BY <2>2, NothingAudited DEF ResolveUrlClient, tables
    <2>. QED
      BY <1>7, <2>1, <2>2 DEF Registration
  <1>8. CASE ClockStep \/ ScopeStep \/ UNCHANGED vars
    BY <1>8, NothingAudited DEF ClockStep, ScopeStep, vars, storeVars, tables
  <1>. QED
    BY <1>1, <1>2, <1>3, <1>4, <1>5, <1>6, <1>7, <1>8 DEF Next

\* Every code and access token in the store has its event in the audit log,
\* and the approval events are those of the approvals on record.
THEOREM AuditAccounts == Spec => []AuditAccountsForStore
  <1>1. Init => AuditAccountsForStore
    BY DEF Init, StoreInit, AuditAccountsForStore
  <1>. QED
    BY <1>1, StepAudit, PTL DEF Spec

-----------------------------------------------------------------------------
(* With the OAuth 2.1 router mounted as well *)

LEMMA RouterTokenCases ==
  ASSUME V21TokenStep
  PROVE  \E c \in Clients, secret \in Secrets, o \in Origins,
            res \in Resources \cup {NoResource} :
           \/ \E code \in codes, r \in RedirectUris, v \in Verifiers :
                \/ V21TokenAuthorizationCode(code, c, secret, r, o, res, v)
                \/ V21TokenAuthorizationCodeFails(code, c, secret, r, o, res,
                                                  v)
           \/ \E t \in refreshTokens : V21TokenRefresh(t, c, secret, o, res)
  BY DEF V21TokenStep

(* Type correctness *)

LEMMA V21ResourceType ==
  ASSUME NEW o \in Origins
  PROVE  V21Resource(o) \in Resources
  BY V21Assumption DEF V21Resource, Resources

LEMMA V21AuthorizeType ==
  ASSUME TypeOK, NEW c \in Clients, NEW r \in RedirectUris, NEW s \in Scopes,
         NEW o \in Origins, NEW ch \in Challenges,
         V21Authorize(c, r, s, o, ch)
  PROVE  TypeOK'
  <1>1. NewV21Code(c, r, s, o, ch) \in AuthorizationCodeRecord
    BY StoreAssumption, ServerAssumption, V21ResourceType
    DEF NewV21Code, AuthorizationCodeRecord, TypeOK, StoreTypeOK
  <1>2. CodeIssuedEvent(c, s, lastHandle + 1) \in AuditEvent
    BY DEF CodeIssuedEvent, AuditEvent, TypeOK, StoreTypeOK
  <1>. QED
    BY <1>1, <1>2, RegisteredType
    DEF V21Authorize, TypeOK, StoreTypeOK, history

LEMMA V21ExchangeType ==
  ASSUME TypeOK, NEW code \in codes, NEW c \in Clients, NEW secret, NEW r,
         NEW o \in Origins, NEW res, NEW v,
         V21TokenAuthorizationCode(code, c, secret, r, o, res, v)
  PROVE  TypeOK'
  <1>1. code.scope \in Scopes /\ code.id \in Nat
    BY DEF TypeOK, AuthorizationCodeRecord
  <1>2. res \in Resources
    BY V21ResourceType
    DEF V21TokenAuthorizationCode, V21ExchangeSucceeds,
      V21ValidTokenResource
  <1>3. StoreTypeOK /\ "authorization_code" \in GrantTypes
    BY DEF TypeOK, GrantTypes
  <1>4. /\ accessTokens' \subseteq AccessTokenRecord
        /\ refreshTokens' \subseteq RefreshTokenRecord
        /\ audit' \subseteq AuditEvent
        /\ lastHandle' \in Nat
    BY <1>1, <1>2, <1>3, IssuePairType DEF V21TokenAuthorizationCode
  <1>5. <<code.id, lastHandle + 1>> \in Nat \X Nat
    BY <1>1 DEF TypeOK, StoreTypeOK
  <1>. QED
    BY <1>1, <1>3, <1>4, <1>5, RegisteredType
    DEF V21TokenAuthorizationCode, CodesAfterConsume, TypeOK, StoreTypeOK

LEMMA V21ExchangeFailsType ==
  ASSUME TypeOK, NEW code \in codes, NEW c \in Clients, NEW secret, NEW r,
         NEW o, NEW res, NEW v,
         V21TokenAuthorizationCodeFails(code, c, secret, r, o, res, v)
  PROVE  TypeOK'
  <1>1. code.id \in Nat
    BY DEF TypeOK, AuthorizationCodeRecord
  <1>2. StoreTypeOK
    BY DEF TypeOK
  <1>. QED
    BY <1>1, <1>2, RegisteredType
    DEF V21TokenAuthorizationCodeFails, CodesAfterConsume, TypeOK,
      StoreTypeOK, tables

LEMMA V21RefreshType ==
  ASSUME TypeOK, NEW t \in refreshTokens, NEW c \in Clients, NEW secret,
         NEW o, NEW res, V21TokenRefresh(t, c, secret, o, res)
  PROVE  TypeOK'
  <1>1. /\ t.scope \in Scopes
        /\ t.grant \in GrantTypes
        /\ t.audience \in Resources
        /\ t.issuer \in Origins
    BY DEF TypeOK, StoreTypeOK, RefreshTokenRecord
  <1>2. StoreTypeOK
    BY DEF TypeOK
  <1>3. IssueOne(c, t.scope, t.grant, t.audience, t.issuer)
    BY DEF V21TokenRefresh, V21RefreshedGrant, V21RefreshedAudience,
         RefreshedIssuer
  <1>4. /\ accessTokens' \subseteq AccessTokenRecord
        /\ audit' \subseteq AuditEvent
        /\ lastHandle' \in Nat
    BY <1>1, <1>2, <1>3, IssueOneType
  <1>. QED
    BY <1>2, <1>4, RegisteredType
    DEF V21TokenRefresh, TypeOK, StoreTypeOK, history

LEMMA RoutersStepType == TypeOK /\ [RoutersNext]_vars => TypeOK'
  <1>. SUFFICES ASSUME TypeOK, [RoutersNext]_vars PROVE TypeOK'
    OBVIOUS
  <1>1. CASE [Next]_vars
    BY <1>1, StepType
  <1>2. CASE V21AuthorizationStep
    BY <1>2, V21AuthorizeType DEF V21AuthorizationStep
  <1>3. CASE V21TokenStep
    BY <1>3, RouterTokenCases, V21ExchangeType, V21ExchangeFailsType,
      V21RefreshType
  <1>. QED
    BY <1>1, <1>2, <1>3 DEF RoutersNext

-----------------------------------------------------------------------------
(* Authorization codes of either router *)

LEMMA RoutersStepCodes ==
  TypeOK /\ CodeInv /\ [RoutersNext]_vars => CodeInv'
  <1>. SUFFICES ASSUME TypeOK, CodeInv, [RoutersNext]_vars PROVE CodeInv'
    OBVIOUS
  <1>. TypeOK'
    BY RoutersStepType
  <1>. lastHandle \in Nat
    BY DEF TypeOK, StoreTypeOK
  <1>1. CASE [Next]_vars
    BY <1>1, StepCodeInv
  <1>2. CASE V21AuthorizationStep
    BY <1>2, CodeIssuedInv
    DEF V21AuthorizationStep, V21Authorize, NewV21Code, history
  <1>3. ASSUME NEW code \in codes, NEW c, NEW secret, NEW r, NEW o, NEW res,
               NEW v, V21TokenAuthorizationCode(code, c, secret, r, o, res, v)
        PROVE  CodeInv'
    BY <1>3, CodeAttemptedInv, PairDrawsHandle DEF V21TokenAuthorizationCode
  <1>4. ASSUME NEW code \in codes, NEW c, NEW secret, NEW r, NEW o, NEW res,
               NEW v,
               V21TokenAuthorizationCodeFails(code, c, secret, r, o, res, v)
        PROVE  CodeInv'
    BY <1>4, CodeAttemptedInv DEF V21TokenAuthorizationCodeFails, tables
  <1>5. ASSUME NEW t, NEW c, NEW secret, NEW o, NEW res,
               V21TokenRefresh(t, c, secret, o, res)
        PROVE  CodeInv'
    <2>1. CodesUntouched /\ lastHandle' = lastHandle + 1
      BY <1>5 DEF V21TokenRefresh, IssueOne, CodesUntouched, history
    <2>. QED
      BY <2>1, CodesUntouchedInv
  <1>. QED
    BY <1>1, <1>2, <1>3, <1>4, <1>5, RouterTokenCases DEF RoutersNext

LEMMA RoutersCodeInvariant == RoutersSpec => [](TypeOK /\ CodeInv)
  BY InitType, RoutersStepType, InitCodeInv, RoutersStepCodes, PTL
  DEF RoutersSpec

\* With both routers taking codes from one table, a code that either of them
\* has tried, with whatever outcome, is gone.
THEOREM RoutersSingleAttempt == RoutersSpec => []CodeGetsOneAttempt
  <1>1. CodeInv => CodeGetsOneAttempt
    BY DEF CodeInv, CodeGetsOneAttempt
  <1>. QED
    BY <1>1, RoutersCodeInvariant, PTL

LEMMA RoutersStepLedger ==
  TypeOK /\ CodeInv /\ [RoutersNext]_vars
    => [Ledger!LedgerNext]_(Ledger!ledgerVars)
  <1>. SUFFICES ASSUME TypeOK, CodeInv, [RoutersNext]_vars
                PROVE  Ledger!LedgerNext \/ UNCHANGED Ledger!ledgerVars
    OBVIOUS
  <1>1. CASE [Next]_vars
    BY <1>1, StepLedger
  <1>2. CASE V21AuthorizationStep
    <2>1. Ledger!Grant
      BY <1>2, IssueGrants
      DEF V21AuthorizationStep, V21Authorize, NewV21Code, history
    <2>. QED
      BY <2>1 DEF Ledger!LedgerNext
  <1>3. ASSUME NEW code \in codes, NEW c, NEW secret, NEW r, NEW o, NEW res,
               NEW v, V21TokenAuthorizationCode(code, c, secret, r, o, res, v)
        PROVE  Ledger!Redeem
    BY <1>3, ConsumeRedeems DEF V21TokenAuthorizationCode
  <1>4. ASSUME NEW code \in codes, NEW c, NEW secret, NEW r, NEW o, NEW res,
               NEW v,
               V21TokenAuthorizationCodeFails(code, c, secret, r, o, res, v)
        PROVE  Ledger!Void
    <2>1. Pending' = Pending \ {code.id}
      BY <1>4, ConsumeUnlists DEF V21TokenAuthorizationCodeFails
    <2>. QED
      BY <1>4, <2>1, LedgerVoids DEF V21TokenAuthorizationCodeFails, tables
  <1>5. ASSUME NEW t \in refreshTokens, NEW c, NEW secret, NEW o, NEW res,
               V21TokenRefresh(t, c, secret, o, res)
        PROVE  Ledger!Refresh \/ Ledger!DrawElsewhere
    BY <1>5, RefreshLedger DEF V21TokenRefresh, V21RefreshedGrant, history
  <1>. QED
    BY <1>1, <1>2, <1>3, <1>4, <1>5, RouterTokenCases
    DEF RoutersNext, Ledger!LedgerNext

\* Both routers together still implement the ledger of grants: no code is
\* redeemed at one of them after the other took it up, and neither leaves a
\* token without an exchange or a refresh.
THEOREM RoutersLedger == RoutersSpec => ImplementsLedger
  BY InitLedger, RoutersStepLedger, RoutersCodeInvariant, PTL
  DEF RoutersSpec, ImplementsLedger, Ledger!LedgerSpec

-----------------------------------------------------------------------------
(* Consent behind the codes and tokens of the mounted router *)

LEMMA ResourcesDiffer ==
  ASSUME NEW o \in Origins
  PROVE  ~IsOAuthResource(V21Resource(o))
  <1>. SUFFICES ASSUME NEW p \in Origins, V21Resource(o) = OAuthResource(p)
                PROVE  FALSE
    BY DEF IsOAuthResource
  <1>1. V21Resource(o).path = OAuthResource(p).path
    OBVIOUS
  <1>2. "/mcp/oauth-v21" = "/mcp/oauth"
    BY <1>1 DEF V21Resource, OAuthResource
  <1>. QED
    BY <1>2

LEMMA V21ExchangeConsent ==
  ASSUME TokensBackedByConsent,
         NEW code \in codes, NEW c, NEW secret, NEW r, NEW o \in Origins,
         NEW res, NEW v,
         V21TokenAuthorizationCode(code, c, secret, r, o, res, v)
  PROVE  TokensBackedByConsent'
  <1>a. PICK access : access = NewAccessToken(c, code.scope,
                                             "authorization_code", res, o)
    OBVIOUS
  <1>b. PICK refresh : refresh = NewRefreshToken(c, code.scope,
                                                "authorization_code", res, o)
    OBVIOUS
  <1>1. /\ codes' \subseteq codes
        /\ approvals' = approvals
        /\ accessTokens' = accessTokens \cup {access}
        /\ refreshTokens' \subseteq refreshTokens \cup {refresh}
    BY <1>a, <1>b
    DEF V21TokenAuthorizationCode, CodesAfterConsume, IssuePair, IssueOne,
      IssueAccessToken
  <1>2. access.audience = res /\ refresh.audience = res
    BY <1>a, <1>b DEF NewAccessToken, NewRefreshToken
  <1>3. ~IsOAuthResource(res)
    BY ResourcesDiffer
    DEF V21TokenAuthorizationCode, V21ExchangeSucceeds, V21ValidTokenResource
  <1>. QED
    BY <1>1, <1>2, <1>3, ConsentExtended

\* A token of the mounted router, refreshed at the other one, keeps its
\* audience and with it the consent behind it.
LEMMA V21RefreshConsent ==
  ASSUME TokensBackedByConsent,
         NEW t \in refreshTokens, NEW c, NEW secret, NEW o, NEW res,
         V21TokenRefresh(t, c, secret, o, res)
  PROVE  TokensBackedByConsent'
  <1>a. PICK access : access = NewAccessToken(c, t.scope,
                                             V21RefreshedGrant(t),
                                             V21RefreshedAudience(t),
                                             RefreshedIssuer(t, o))
    OBVIOUS
  <1>1. /\ UNCHANGED <<codes, approvals, refreshTokens>>
        /\ accessTokens' = accessTokens \cup {access}
    BY <1>a DEF V21TokenRefresh, IssueOne, IssueAccessToken
  <1>2. /\ access.client = t.client
        /\ access.scope = t.scope
        /\ access.grant = t.grant
        /\ access.audience = t.audience
    BY <1>a
    DEF NewAccessToken, V21TokenRefresh, V21RefreshedGrant,
      V21RefreshedAudience
  <1>3. ASSUME t.grant = "authorization_code", IsOAuthResource(t.audience)
        PROVE  Consented(access)'
    BY <1>1, <1>2, <1>3, ConsentInherited, ConsentKept
    DEF TokensBackedByConsent, CodeFlowTokens
  <1>. QED
    BY <1>1, <1>2, <1>3, ConsentExtended

LEMMA RoutersStepConsent ==
  TokensBackedByConsent /\ [RoutersNext]_vars => TokensBackedByConsent'
  <1>. SUFFICES ASSUME TokensBackedByConsent, [RoutersNext]_vars
                PROVE  TokensBackedByConsent'
    OBVIOUS
  <1>1. CASE [Next]_vars
    BY <1>1, StepConsent
  <1>2. ASSUME NEW c, NEW r, NEW s, NEW o \in Origins, NEW ch,
               V21Authorize(c, r, s, o, ch)
        PROVE  TokensBackedByConsent'
    <2>a. PICK new : new = NewV21Code(c, r, s, o, ch)
      OBVIOUS
    <2>1. /\ codes' = codes \cup {new}
          /\ UNCHANGED <<approvals, accessTokens, refreshTokens>>
      BY <1>2, <2>a DEF V21Authorize
    <2>2. ~IsOAuthResource(new.resource)
      BY <2>a, ResourcesDiffer DEF NewV21Code
    <2>. QED
      BY <2>1, <2>2, ConsentExtended
  <1>3. ASSUME NEW code \in codes, NEW c, NEW secret, NEW r, NEW o, NEW res,
               NEW v,
               V21TokenAuthorizationCodeFails(code, c, secret, r, o, res, v)
        PROVE  TokensBackedByConsent'
    BY <1>3, NothingIssued
    DEF V21TokenAuthorizationCodeFails, CodesAfterConsume, tables
  <1>. QED
    BY <1>1, <1>2, <1>3, RouterTokenCases, V21ExchangeConsent,
      V21RefreshConsent
    DEF RoutersNext, V21AuthorizationStep

\* The consent behind the mounted router's codes and tokens survives the other
\* router, which keeps no approvals and shares every table.
THEOREM RoutersConsent == RoutersSpec => []TokensBackedByConsent
  <1>1. Init => TokensBackedByConsent
    BY DEF Init, StoreInit, TokensBackedByConsent, CodeFlowTokens
  <1>. QED
    BY <1>1, RoutersStepConsent, PTL DEF RoutersSpec

-----------------------------------------------------------------------------
(* Tokens of either router are usable *)

V21Agrees(t) ==
  \E o \in Origins : /\ t.issuer = o
                     /\ t.audience = V21Resource(o)
                     /\ t.grant = "authorization_code"

Routed(t) == AgreesOnOrigin(t) \/ V21Agrees(t)

\* Inductive: as UsableInv, with the resources of both routers.
RoutedInv ==
  /\ \A t \in accessTokens : t.id = MintedHandle \/ Routed(t)
  /\ \A t \in refreshTokens : Routed(t)

LEMMA RoutedTakenOver ==
  ASSUME NEW a, NEW u, Routed(u), TakesOver(a, u)
  PROVE  Routed(a)
  BY DEF Routed, AgreesOnOrigin, V21Agrees, TakesOver

LEMMA NextRouted == RoutedInv /\ TokenChange => RoutedInv'
  <1>. SUFFICES ASSUME RoutedInv, TokenChange PROVE RoutedInv'
    OBVIOUS
  <1>1. CASE IssuesAccess
    <2>. PICK a : /\ \/ AgreesOnOrigin(a)
                     \/ \E u \in refreshTokens : TakesOver(a, u)
                  /\ accessTokens' = accessTokens \cup {a}
                  /\ UNCHANGED refreshTokens
      BY <1>1 DEF IssuesAccess
    <2>1. Routed(a)
      BY RoutedTakenOver DEF RoutedInv, Routed
    <2>. QED
      BY <2>1 DEF RoutedInv
  <1>2. CASE IssuesBoth
    BY <1>2 DEF IssuesBoth, RoutedInv, Routed
  <1>3. CASE Mints
    BY <1>3 DEF Mints, RoutedInv
  <1>4. CASE TokensKept \/ DropsAccess \/ DropsRefresh \/ ForgetsTokens
    BY <1>4
    DEF TokensKept, DropsAccess, DropsRefresh, ForgetsTokens, RoutedInv
  <1>. QED
    BY <1>1, <1>2, <1>3, <1>4 DEF TokenChange

LEMMA V21ExchangeRouted ==
  ASSUME RoutedInv, NEW code, NEW c, NEW secret, NEW r, NEW o \in Origins,
         NEW res, NEW v,
         V21TokenAuthorizationCode(code, c, secret, r, o, res, v)
  PROVE  RoutedInv'
  <1>. PICK access : access = NewAccessToken(c, code.scope,
                                            "authorization_code", res, o)
    OBVIOUS
  <1>. PICK refresh : refresh = NewRefreshToken(c, code.scope,
                                               "authorization_code", res, o)
    OBVIOUS
  <1>1. /\ accessTokens' = accessTokens \cup {access}
        /\ refreshTokens' \subseteq refreshTokens \cup {refresh}
    BY DEF V21TokenAuthorizationCode, IssuePair, IssueOne, IssueAccessToken
  <1>2. res = V21Resource(o)
    BY
    DEF V21TokenAuthorizationCode, V21ExchangeSucceeds, V21ValidTokenResource
  <1>3. V21Agrees(access) /\ V21Agrees(refresh)
    BY <1>2 DEF V21Agrees, NewAccessToken, NewRefreshToken
  <1>. QED
    BY <1>1, <1>3 DEF RoutedInv, Routed

LEMMA V21RefreshRouted ==
  ASSUME RoutedInv, NEW t \in refreshTokens, NEW c, NEW secret, NEW o,
         NEW res, V21TokenRefresh(t, c, secret, o, res)
  PROVE  RoutedInv'
  <1>. PICK a : a = NewAccessToken(c, t.scope, V21RefreshedGrant(t),
                                   V21RefreshedAudience(t),
                                   RefreshedIssuer(t, o))
    OBVIOUS
  <1>1. /\ accessTokens' = accessTokens \cup {a}
        /\ UNCHANGED refreshTokens
    BY DEF V21TokenRefresh, IssueOne, IssueAccessToken
  <1>2. TakesOver(a, t)
    BY
    DEF NewAccessToken, V21RefreshedGrant, V21RefreshedAudience,
      RefreshedIssuer, TakesOver
  <1>3. Routed(a)
    BY <1>2, RoutedTakenOver DEF RoutedInv
  <1>. QED
    BY <1>1, <1>3 DEF RoutedInv

LEMMA RoutersStepRouted == RoutedInv /\ [RoutersNext]_vars => RoutedInv'
  <1>. SUFFICES ASSUME RoutedInv, [RoutersNext]_vars PROVE RoutedInv'
    OBVIOUS
  <1>1. CASE [Next]_vars
    BY <1>1, TokenCases, NextRouted
  <1>2. CASE V21AuthorizationStep
    BY <1>2 DEF V21AuthorizationStep, V21Authorize, RoutedInv
  <1>3. ASSUME NEW code \in codes, NEW c, NEW secret, NEW r, NEW o, NEW res,
               NEW v,
               V21TokenAuthorizationCodeFails(code, c, secret, r, o, res, v)
        PROVE  RoutedInv'
    BY <1>3 DEF V21TokenAuthorizationCodeFails, tables, RoutedInv
  <1>. QED
    BY <1>1, <1>2, <1>3, RouterTokenCases, V21ExchangeRouted,
      V21RefreshRouted
    DEF RoutersNext

\* Whichever router issued a token and whichever refreshed it, some endpoint
\* under some origin takes it.
THEOREM RoutersTokensUsable == RoutersSpec => []RoutedTokensUsable
  <1>1. Init => RoutedInv
    BY DEF Init, StoreInit, RoutedInv
  <1>2. RoutedInv => RoutedTokensUsable
    BY
    DEF RoutedInv, Routed, AgreesOnOrigin, V21Agrees, RoutedTokensUsable,
      AcceptsToken, V21AcceptsToken, ValidAccessTokenIssuer
  <1>. QED
    BY <1>1, <1>2, RoutersStepRouted, PTL DEF RoutersSpec

-----------------------------------------------------------------------------
(* The audit log accounts for the store of both routers *)

LEMMA V21AuthorizeAudited ==
  ASSUME AuditAccountsForStore, NEW c, NEW r, NEW s, NEW o, NEW ch,
         V21Authorize(c, r, s, o, ch)
  PROVE  AuditAccountsForStore'
  <1>. PICK new : new = NewV21Code(c, r, s, o, ch)
    OBVIOUS
  <1>. PICK e : e = CodeIssuedEvent(c, s, lastHandle + 1)
    OBVIOUS
  <1>1. /\ codes' = codes \cup {new}
        /\ audit' = audit \cup {e}
        /\ UNCHANGED <<accessTokens, approvals>>
    BY DEF V21Authorize
  <1>2. /\ e.event = "authorization_code_issued" /\ e.handle = new.id
        /\ e.client = new.client /\ e.scope = new.scope
    BY DEF NewV21Code, CodeIssuedEvent
  <1>3. Accounted(new, "authorization_code_issued")'
    BY <1>1, <1>2 DEF Accounted
  <1>4. ApprovalEvents' = RecordedApprovals'
    BY <1>1, <1>2, ApprovalsKept
  <1>. QED
    BY <1>1, <1>3, <1>4, AuditExtended

LEMMA RoutersStepAudit ==
  AuditAccountsForStore /\ [RoutersNext]_vars => AuditAccountsForStore'
  <1>. SUFFICES ASSUME AuditAccountsForStore, [RoutersNext]_vars
                PROVE  AuditAccountsForStore'
    OBVIOUS
  <1>1. CASE [Next]_vars
    BY <1>1, StepAudit
  <1>2. CASE V21AuthorizationStep
    BY <1>2, V21AuthorizeAudited DEF V21AuthorizationStep
  <1>3. ASSUME NEW code, NEW c, NEW secret, NEW r, NEW o, NEW res, NEW v,
               V21TokenAuthorizationCode(code, c, secret, r, o, res, v)
        PROVE  AuditAccountsForStore'
    BY <1>3, IssueAudited
    DEF V21TokenAuthorizationCode, CodesAfterConsume, IssuePair, IssueOne
  <1>4. ASSUME NEW code, NEW c, NEW secret, NEW r, NEW o, NEW res, NEW v,
               V21TokenAuthorizationCodeFails(code, c, secret, r, o, res, v)
        PROVE  AuditAccountsForStore'
    BY <1>4, NothingAudited
    DEF V21TokenAuthorizationCodeFails, CodesAfterConsume, tables
  <1>5. ASSUME NEW t, NEW c, NEW secret, NEW o, NEW res,
               V21TokenRefresh(t, c, secret, o, res)
        PROVE  AuditAccountsForStore'
    BY <1>5, IssueAudited DEF V21TokenRefresh, IssueOne
  <1>. QED
    BY <1>1, <1>2, <1>3, <1>4, <1>5, RouterTokenCases DEF RoutersNext

\* The codes of the OAuth 2.1 router, which have no approval, have their event
\* in the audit log all the same.
THEOREM RoutersAudit == RoutersSpec => []AuditAccountsForStore
  <1>1. Init => AuditAccountsForStore
    BY DEF Init, StoreInit, AuditAccountsForStore
  <1>. QED
    BY <1>1, RoutersStepAudit, PTL DEF RoutersSpec

-----------------------------------------------------------------------------
(* Handles and minted tokens under both routers *)

LEMMA PairDraws ==
  ASSUME NEW c, NEW s, NEW g, NEW aud, NEW iss,
         IssuePair(c, s, g, aud, iss), UNCHANGED lapsed
  PROVE  DrawsAccess \/ DrawsBoth
  <1>. PICK a : a = NewAccessToken(c, s, g, aud, iss)
    OBVIOUS
  <1>. PICK r : r = NewRefreshToken(c, s, g, aud, iss)
    OBVIOUS
  <1>1. a.id = lastHandle + 1 /\ r.id = lastHandle + 2
    BY DEF NewAccessToken, NewRefreshToken
  <1>. QED
    BY <1>1 DEF IssuePair, IssueOne, IssueAccessToken, DrawsAccess, DrawsBoth

LEMMA RefreshDraws ==
  ASSUME NEW t, NEW c, NEW secret, NEW o, NEW res,
         V21TokenRefresh(t, c, secret, o, res)
  PROVE  DrawsAccess /\ UNCHANGED calls
  <1>. PICK a : a = NewAccessToken(c, t.scope, V21RefreshedGrant(t),
                                   V21RefreshedAudience(t),
                                   RefreshedIssuer(t, o))
    OBVIOUS
  <1>1. a.id = lastHandle + 1
    BY DEF NewAccessToken
  <1>. QED
    BY <1>1
    DEF V21TokenRefresh, IssueOne, IssueAccessToken, DrawsAccess, history

\* The OAuth 2.1 router draws handles like the other one, and holds no call.
LEMMA V21Handles ==
  ASSUME V21AuthorizationStep \/ V21TokenStep
  PROVE  /\ TokensKept \/ DrawsAccess \/ DrawsBoth
         /\ lastHandle' \in {lastHandle, lastHandle + 1, lastHandle + 2}
         /\ UNCHANGED calls
  <1>1. CASE V21AuthorizationStep
    BY <1>1 DEF V21AuthorizationStep, V21Authorize, TokensKept, history
  <1>2. ASSUME NEW code, NEW c, NEW secret, NEW r, NEW o, NEW res, NEW v,
               V21TokenAuthorizationCode(code, c, secret, r, o, res, v)
        PROVE  (DrawsAccess \/ DrawsBoth) /\ UNCHANGED calls
    BY <1>2, PairDraws DEF V21TokenAuthorizationCode
  <1>3. ASSUME NEW code, NEW c, NEW secret, NEW r, NEW o, NEW res, NEW v,
               V21TokenAuthorizationCodeFails(code, c, secret, r, o, res, v)
        PROVE  TokensKept /\ UNCHANGED <<lastHandle, calls>>
    BY <1>3 DEF V21TokenAuthorizationCodeFails, tables, TokensKept
  <1>. QED
    BY <1>1, <1>2, <1>3, RefreshDraws, RouterTokenCases
    DEF DrawsAccess, DrawsBoth

LEMMA RoutersStepNames ==
  TypeOK /\ NamesInv /\ [RoutersNext]_vars => NamesInv'
  <1>. SUFFICES ASSUME TypeOK, NamesInv, [RoutersNext]_vars PROVE NamesInv'
    OBVIOUS
  <1>1. CASE [Next]_vars
    BY <1>1, StepNames
  <1>2. CASE V21AuthorizationStep \/ V21TokenStep
    <2>1. HandleChange
      BY <1>2, V21Handles DEF HandleChange
    <2>2. lastHandle <= lastHandle'
      BY <1>2, V21Handles DEF TypeOK, StoreTypeOK
    <2>. QED
      BY <2>1, <2>2, RoutersStepType, HandlesNamed
  <1>. QED
    BY <1>1, <1>2 DEF RoutersNext

LEMMA RoutersStepMinted ==
  TypeOK /\ MintedInv /\ [RoutersNext]_vars => MintedInv'
  <1>. SUFFICES ASSUME TypeOK, MintedInv, [RoutersNext]_vars
                PROVE  MintedInv'
    OBVIOUS
  <1>1. CASE [Next]_vars
    BY <1>1, StepMinted
  <1>2. CASE V21AuthorizationStep \/ V21TokenStep
    <2>1. lastHandle + 1 # MintedHandle
      BY DEF TypeOK, StoreTypeOK, MintedHandle
    <2>2. \A t \in accessTokens' :
            t.id = MintedHandle => t.issuer = TestIssuer
      BY <1>2, <2>1, V21Handles
      DEF MintedInv, TokensKept, DrawsAccess, DrawsBoth
    <2>. QED
      BY <1>2, <2>2, V21Handles DEF MintedInv, CallsHoldIssuedTokens
  <1>. QED
    BY <1>1, <1>2 DEF RoutersNext

\* The tables of the store keep their types with both routers on it.
THEOREM RoutersTypeCorrect == RoutersSpec => []TypeOK
  BY InitType, RoutersStepType, PTL DEF RoutersSpec

\* No code buys two tokens, one at each router or both at one.
THEOREM RoutersOneExchange == RoutersSpec => []Ledger!OneTokenPerCode
  <1>1. LedgerInv => Ledger!OneTokenPerCode
    BY DEF LedgerInv
  <1>. QED
    BY <1>1, LedgerStart, LedgerStep, RoutersLedger, PTL
    DEF ImplementsLedger, Ledger!LedgerSpec

\* What one router took up or dropped is not in the store again for the other.
THEOREM RoutersNothingBack == RoutersSpec => Ledger!NothingReturns
  BY LedgerStaysGone, RoutersLedger, PTL
  DEF ImplementsLedger, Ledger!LedgerSpec, Ledger!NothingReturns

\* A token that one router refused as expired is good at neither again.
THEOREM RoutersExpiryFinal == RoutersSpec => []ExpiryIsFinal
  <1>1. Init => NamesInv
    BY DEF Init, StoreInit, NamesInv, ExpiryIsFinal
  <1>2. NamesInv => ExpiryIsFinal
    BY DEF NamesInv
  <1>. QED
    BY <1>1, <1>2, InitType, RoutersStepType, RoutersStepNames, PTL
    DEF RoutersSpec

\* Tokens minted as expired are served nowhere with both routers mounted.
THEOREM RoutersMintedNeverServed == RoutersSpec => []CallsHoldIssuedTokens
  <1>1. Init => MintedInv
    BY DEF Init, StoreInit, MintedInv, CallsHoldIssuedTokens
  <1>2. MintedInv => CallsHoldIssuedTokens
    BY DEF MintedInv
  <1>. QED
    BY <1>1, <1>2, InitType, RoutersStepType, RoutersStepMinted, PTL
    DEF RoutersSpec
=============================================================================
