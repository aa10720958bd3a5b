-------------------------- MODULE TokenStoreProofs --------------------------
(***************************************************************************)
(* What the operations of the store preserve, for the modules that use     *)
(* them.                                                                   *)
(***************************************************************************)
EXTENDS TokenStore, TLAPS

\* Resolving a URL client adds nothing but a client.
LEMMA RegisteredType ==
  ASSUME StoreTypeOK, NEW c \in Clients
  PROVE  RegisteredAfter(c) \subseteq Clients
  BY DEF StoreTypeOK, RegisteredAfter

LEMMA IssueOneType ==
  ASSUME StoreTypeOK,
         NEW c \in Clients, NEW s \in Scopes, NEW grant \in GrantTypes,
         NEW aud \in Resources, NEW iss \in Origins,
         IssueOne(c, s, grant, aud, iss)
  PROVE  /\ accessTokens' \subseteq AccessTokenRecord
         /\ audit' \subseteq AuditEvent
         /\ lastHandle' \in Nat
  <1>1. NewAccessToken(c, s, grant, aud, iss) \in AccessTokenRecord
    BY StoreAssumption DEF NewAccessToken, AccessTokenRecord,
      StoreTypeOK
  <1>2. TokenIssued(c, s, "issued", lastHandle + 1) \in AuditEvent
    BY DEF TokenIssued, AuditEvent, StoreTypeOK
  <1>. QED
    BY <1>1, <1>2 DEF IssueOne, IssueAccessToken, StoreTypeOK

LEMMA IssuePairType ==
  ASSUME StoreTypeOK,
         NEW c \in Clients, NEW s \in Scopes, NEW grant \in GrantTypes,
         NEW aud \in Resources, NEW iss \in Origins,
         IssuePair(c, s, grant, aud, iss)
  PROVE  /\ accessTokens' \subseteq AccessTokenRecord
         /\ refreshTokens' \subseteq RefreshTokenRecord
         /\ audit' \subseteq AuditEvent
         /\ lastHandle' \in Nat
  <1>1. NewAccessToken(c, s, grant, aud, iss) \in AccessTokenRecord
    BY StoreAssumption DEF NewAccessToken, AccessTokenRecord,
      StoreTypeOK
  <1>2. NewRefreshToken(c, s, grant, aud, iss) \in RefreshTokenRecord
    BY StoreAssumption DEF NewRefreshToken, RefreshTokenRecord,
      StoreTypeOK
  <1>3. TokenIssued(c, s, "issued", lastHandle + 1) \in AuditEvent
    BY DEF TokenIssued, AuditEvent, StoreTypeOK
  <1>. QED
    BY <1>1, <1>2, <1>3
    DEF IssuePair, IssueOne, IssueAccessToken, StoreTypeOK

\* A registration, with whatever scope it asked for.
LEMMA RegisterClientType ==
  ASSUME StoreTypeOK, NEW c \in Clients, RegisterClient(c)
  PROVE  StoreTypeOK'
  <1>1. PICK s \in supported :
          audit' = audit \cup
            {[event |-> "registration", client |-> c, scope |-> s,
              result |-> "registered", handle |-> 0]}
    BY DEF RegisterClient
  <1>2. [event |-> "registration", client |-> c, scope |-> s,
         result |-> "registered", handle |-> 0] \in AuditEvent
    BY DEF AuditEvent, StoreTypeOK
  <1>. QED
    BY <1>1, <1>2 DEF RegisterClient, StoreTypeOK

LEMMA StoreResetType ==
  ASSUME StoreTypeOK, StoreReset
  PROVE  StoreTypeOK'
  BY StoreAssumption DEF StoreReset, StoreTypeOK

-----------------------------------------------------------------------------
(* Handles *)

Used == 1..lastHandle

\* The handles of the tokens of a grant.
IdsOf(grant, tokens) == {t.id : t \in {x \in tokens : x.grant = grant}}

\* Handles come from a counter, so the next one was never used.
LEMMA FreshHandle ==
  ASSUME StoreTypeOK, lastHandle + 1 <= MaxHandles
  PROVE  /\ lastHandle + 1 \in (1..MaxHandles) \ Used
         /\ 1..(lastHandle + 1) = Used \cup {lastHandle + 1}
  BY StoreAssumption DEF StoreTypeOK, Used

LEMMA FreshHandles ==
  ASSUME StoreTypeOK, lastHandle + 2 <= MaxHandles
  PROVE  /\ lastHandle + 1 \in (1..MaxHandles) \ Used
         /\ lastHandle + 2 \in (1..MaxHandles) \ (Used \cup {lastHandle + 1})
         /\ 1..(lastHandle + 2) = Used \cup {lastHandle + 1, lastHandle + 2}
  BY StoreAssumption DEF StoreTypeOK, Used

\* The tokens of an exchange are listed under the fresh handles drawn for
\* them.
LEMMA PairLists ==
  ASSUME StoreTypeOK, NEW c, NEW s, NEW g, NEW aud, NEW iss,
         IssuePair(c, s, g, aud, iss)
  PROVE  /\ lastHandle + 1 \in (1..MaxHandles) \ Used
         /\ IdsOf(g, accessTokens') = IdsOf(g, accessTokens)
                                        \cup {lastHandle + 1}
         /\ \/ /\ lastHandle' = lastHandle + 1
               /\ 1..lastHandle' = Used \cup {lastHandle + 1}
               /\ IdsOf(g, refreshTokens') = IdsOf(g, refreshTokens)
            \/ /\ lastHandle' = lastHandle + 2
               /\ lastHandle + 2 \in
                    (1..MaxHandles) \ (Used \cup {lastHandle + 1})
               /\ 1..lastHandle' =
                    Used \cup {lastHandle + 1, lastHandle + 2}
               /\ IdsOf(g, refreshTokens') = IdsOf(g, refreshTokens)
                                               \cup {lastHandle + 2}
  <1>. PICK a : a = NewAccessToken(c, s, g, aud, iss)
    OBVIOUS
  <1>. PICK r : r = NewRefreshToken(c, s, g, aud, iss)
    OBVIOUS
  <1>1. /\ a.id = lastHandle + 1 /\ a.grant = g
        /\ r.id = lastHandle + 2 /\ r.grant = g
    BY DEF NewAccessToken, NewRefreshToken
  <1>2. /\ accessTokens' = accessTokens \cup {a}
        /\ \/ /\ lastHandle + 1 <= MaxHandles
              /\ lastHandle' = lastHandle + 1
              /\ refreshTokens' = refreshTokens
           \/ /\ lastHandle + 2 <= MaxHandles
              /\ lastHandle' = lastHandle + 2
              /\ refreshTokens' = refreshTokens \cup {r}
    BY DEF IssuePair, IssueOne, IssueAccessToken
  <1>3. IdsOf(g, accessTokens \cup {a}) = IdsOf(g, accessTokens) \cup {a.id}
    BY <1>1 DEF IdsOf
  <1>4. IdsOf(g, refreshTokens \cup {r}) =
          IdsOf(g, refreshTokens) \cup {r.id}
    BY <1>1 DEF IdsOf
  <1>. QED
    BY <1>1, <1>2, <1>3, <1>4, FreshHandle, FreshHandles
=============================================================================
