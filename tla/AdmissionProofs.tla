-------------------------- MODULE AdmissionProofs --------------------------
(***************************************************************************)
(* Proofs about ClientAdmission, for any registration requests, documents  *)
(* and web.                                                                *)
(***************************************************************************)
EXTENDS ClientAdmission, WellFoundedInduction, TLAPS

-----------------------------------------------------------------------------
(* What registration and documents let in can be used *)

LEMMA AcceptedCanAct ==
  ASSUME NEW p, Accepts(p)
  PROVE  CanAct(RegisteredRecord(p))
  <1>. DEFINE r == RegisteredRecord(p)
  <1>1. /\ r.auth = AuthOf(p) /\ r.grants = GrantsOf(p)
        /\ r.responses = ResponsesOf(p) /\ r.redirects = p.redirects
    BY DEF RegisteredRecord
  <1>2. /\ r.auth \in AuthMethods
        /\ r.grants \subseteq GrantTypes
        /\ "refresh_token" \in r.grants =>
             \/ "authorization_code" \in r.grants
             \/ "device_code" \in r.grants
        /\ "authorization_code" \in r.grants /\ "device_code" \notin r.grants
             => r.redirects # {}
        /\ "authorization_code" \in r.grants => "code" \in r.responses
        /\ "client_credentials" \in r.grants => HasSecret(r)
        /\ "device_code" \in r.grants => ~HasSecret(r)
    BY <1>1 DEF Accepts, RedirectsFit, HasSecret
  <1>. HIDE DEF r
  <1>3. CanAct(r)
    <2>1. CASE "device_code" \in r.grants \/ "client_credentials" \in r.grants
      BY <1>2, <2>1 DEF CanAct, Serves
    <2>2. CASE /\ "device_code" \notin r.grants
               /\ "client_credentials" \notin r.grants
      <3>1. CASE "authorization_code" \in r.grants
        BY <1>2, <2>2, <3>1 DEF CanAct, Serves
      <3>2. CASE "authorization_code" \notin r.grants
        <4>1. r.grants = {}
          BY <1>2, <2>2, <3>2 DEF GrantTypes
        <4>. QED
          BY <4>1 DEF CanAct
      <3>. QED
        BY <3>1, <3>2
    <2>. QED
      BY <2>1, <2>2
  <1>. QED
    BY <1>3 DEF r

LEMMA ValidCanAct ==
  ASSUME NEW u, NEW d, ValidDocument(u, d)
  PROVE  CanAct(DocumentRecord(d))
  <1>1. /\ DocumentRecord(d).auth = "none"
        /\ DocumentRecord(d).grants = GrantsOf(d)
        /\ "code" \in DocumentRecord(d).responses
        /\ DocumentRecord(d).redirects = d.redirects
    BY DEF ValidDocument, DocumentRecord
  <1>2. "authorization_code" \in GrantsOf(d) /\ d.redirects # {}
    BY DEF ValidDocument
  <1>. QED
    BY <1>1, <1>2 DEF CanAct, Serves, HasSecret

-----------------------------------------------------------------------------
(* The clients of the store *)

\* The ways a step may change the clients: one is added that was not there, or
\* all but the seeds are forgotten.
Added(c, record) ==
  /\ c \notin DOMAIN clients
  /\ AddClient(c, record)

LEMMA AdmissionCases ==
  ASSUME [AdmissionNext]_admissionVars
  PROVE  \/ \E id \in Ids, p \in Payloads :
              /\ Added(id, RegisteredRecord(p)) /\ Accepts(p)
              /\ UNCHANGED vouched
         \/ \E u \in Urls :
              LET d == Resolution(u).document IN
              /\ Added(u, DocumentRecord(d)) /\ ValidDocument(u, d)
              /\ vouched' = vouched \cup {<<u, d>>}
         \/ clients' = Seeds /\ vouched' = {}
         \/ UNCHANGED <<clients, vouched>>
  <1>1. ASSUME NEW id \in Ids, Register(id)
        PROVE  \E p \in Payloads :
                 /\ Added(id, RegisteredRecord(p)) /\ Accepts(p)
                 /\ UNCHANGED vouched
    BY <1>1 DEF Register, Added, Known
  <1>2. ASSUME NEW u \in Urls, Admit(u)
        PROVE  LET d == Resolution(u).document IN
               /\ Added(u, DocumentRecord(d)) /\ ValidDocument(u, d)
               /\ vouched' = vouched \cup {<<u, d>>}
    BY <1>2 DEF Admit, Added, NeedsDocument, Known
  <1>3. ASSUME NEW u \in Urls, Publish(u)
        PROVE  UNCHANGED <<clients, vouched>>
    BY <1>3 DEF Publish
  <1>4. CASE OverrideScopes \/ UNCHANGED admissionVars
    BY <1>4 DEF OverrideScopes, admissionVars
  <1>5. CASE ResetClients
    BY <1>5 DEF ResetClients
  <1>. QED
    BY <1>1, <1>2, <1>3, <1>4, <1>5 DEF AdmissionNext

LEMMA AddedClients ==
  ASSUME NEW c, NEW record, Added(c, record)
  PROVE  /\ DOMAIN clients' = DOMAIN clients \cup {c}
         /\ clients'[c] = record
         /\ \A n \in DOMAIN clients : n # c /\ clients'[n] = clients[n]
  BY DEF Added, AddClient

\* What is needed of the seeds for a reset to change no record: they are
\* still in the store as they were.
SeedsIntact ==
  \A c \in DOMAIN Seeds : c \in DOMAIN clients /\ clients[c] = Seeds[c]

AdmissionInv == NoDeadClients /\ SeedsIntact /\ UrlClientsVouched

LEMMA AdmissionInvInit == AdmissionInit => AdmissionInv
  BY AdmissionAssumption, SeedsAssumption
  DEF AdmissionInit, AdmissionInv, NoDeadClients, SeedsIntact,
    UrlClientsVouched

LEMMA AdmissionInvStep ==
  ASSUME AdmissionInv, [AdmissionNext]_admissionVars
  PROVE  AdmissionInv'
  <1>1. ASSUME NEW id \in Ids, NEW p \in Payloads,
               Added(id, RegisteredRecord(p)), Accepts(p), UNCHANGED vouched
        PROVE  AdmissionInv'
    <2>. DEFINE r == RegisteredRecord(p)
    <2>1. id \notin Urls
      BY AdmissionAssumption
    <2>2. CanAct(r)
      BY <1>1, AcceptedCanAct
    <2>. HIDE DEF r
    <2>3. /\ DOMAIN clients' = DOMAIN clients \cup {id}
          /\ clients'[id] = r
          /\ \A n \in DOMAIN clients : n # id /\ clients'[n] = clients[n]
      BY <1>1, AddedClients DEF r
    <2>4. NoDeadClients'
      BY <2>2, <2>3 DEF AdmissionInv, NoDeadClients
    <2>5. SeedsIntact'
      BY <2>3 DEF AdmissionInv, SeedsIntact
    <2>6. UrlClientsVouched'
      BY <1>1, <2>1, <2>3 DEF AdmissionInv, UrlClientsVouched
    <2>. QED
      BY <2>4, <2>5, <2>6 DEF AdmissionInv
  <1>2. ASSUME NEW u \in Urls, NEW d, Added(u, DocumentRecord(d)),
               ValidDocument(u, d), vouched' = vouched \cup {<<u, d>>}
        PROVE  AdmissionInv'
    <2>. DEFINE r == DocumentRecord(d)
    <2>1. CanAct(r)
      BY <1>2, ValidCanAct
    <2>2. /\ DOMAIN clients' = DOMAIN clients \cup {u}
          /\ clients'[u] = r
          /\ \A n \in DOMAIN clients : n # u /\ clients'[n] = clients[n]
      BY <1>2, AddedClients
    <2>3. d.client_id = u
      BY <1>2 DEF ValidDocument, NamesItself
    <2>4. \E v \in vouched' :
            v[1] = u /\ v[2].client_id = u /\ r = DocumentRecord(v[2])
      <3>. DEFINE v == <<u, d>>
      <3>1. v \in vouched' /\ v[1] = u /\ v[2] = d
        BY <1>2
      <3>. QED
        BY <2>3, <3>1
    <2>. HIDE DEF r
    <2>5. NoDeadClients'
      BY <2>1, <2>2 DEF AdmissionInv, NoDeadClients
    <2>6. SeedsIntact'
      BY <2>2 DEF AdmissionInv, SeedsIntact
    <2>7. UrlClientsVouched'
      BY <1>2, <2>2, <2>4 DEF AdmissionInv, UrlClientsVouched
    <2>. QED
      BY <2>5, <2>6, <2>7 DEF AdmissionInv
  <1>3. CASE clients' = Seeds /\ vouched' = {}
    BY <1>3, AdmissionAssumption, SeedsAssumption
    DEF AdmissionInv, NoDeadClients, SeedsIntact, UrlClientsVouched
  <1>4. CASE UNCHANGED <<clients, vouched>>
    BY <1>4 DEF AdmissionInv, NoDeadClients, SeedsIntact, UrlClientsVouched
  <1>. QED
    BY <1>1, <1>2, <1>3, <1>4, AdmissionCases

THEOREM AdmissionInvariant == AdmissionSpec => []AdmissionInv
  BY AdmissionInvInit, AdmissionInvStep, PTL DEF AdmissionSpec

\* Every client that has a grant can get a token with one of them, whatever
\* was registered or published.
THEOREM ClientsCanAct == AdmissionSpec => []NoDeadClients
  BY AdmissionInvariant, PTL DEF AdmissionInv

\* A URL client is in the store as a document that names it said.
THEOREM UrlClientsAreVouched == AdmissionSpec => []UrlClientsVouched
  BY AdmissionInvariant, PTL DEF AdmissionInv

\* No step changes the record of a client that stays in the store.
THEOREM RecordsStayFixed == AdmissionSpec => RecordsAreFixed
  <1>. DEFINE Fixed == \A c \in DOMAIN clients \cap DOMAIN clients' :
                         clients'[c] = clients[c]
  <1>1. AdmissionInv /\ [AdmissionNext]_admissionVars => Fixed
    <2>. SUFFICES ASSUME AdmissionInv, [AdmissionNext]_admissionVars
                  PROVE  Fixed
      OBVIOUS
    <2>1. ASSUME NEW c, NEW record, Added(c, record)
          PROVE  Fixed
      BY <2>1, AddedClients
    <2>2. CASE clients' = Seeds
      BY <2>2 DEF AdmissionInv, SeedsIntact
    <2>. QED
      BY <2>1, <2>2, AdmissionCases
  <1>. QED
    BY <1>1, AdmissionInvariant, PTL DEF AdmissionSpec, RecordsAreFixed

-----------------------------------------------------------------------------
(* The fetch of a document *)

\* Induction over the redirects left goes by the smallest number that is a
\* counterexample.
LEMMA SmallestOfSet ==
  ASSUME NEW T, T \subseteq Nat, T # {}
  PROVE  \E n \in T : \A m \in T : n <= m
  <1>1. PICK n \in T : \A m \in T : ~ (<<m, n>> \in OpToRel(<, Nat))
    BY NatLessThanWellFounded, WFMin
  <1>2. \A m \in T : ~(m < n)
    BY <1>1 DEF OpToRel
  <1>. QED
    BY <1>2

\* What one round of the fetch finds, given what the next rounds find.
Round(f, k, u) ==
  IF web[u].kind = "document" THEN Success(web[u].document)
  ELSE IF Redirects(k, u) THEN f[k - 1][web[u].url]
  ELSE Failure

FetchEquation(f) ==
  f = [k \in -1..MaxRedirects |-> [u \in Urls |-> Round(f, k, u)]]

\* Fetch is a choice among the functions that satisfy its equation, so it
\* satisfies it if any does.
LEMMA FetchDefined ==
  ASSUME NEW g, FetchEquation(g)
  PROVE  FetchEquation(Fetch)
  BY DEF FetchEquation, Round, Fetch

LEMMA FetchRound ==
  ASSUME NEW g, FetchEquation(g), NEW k \in -1..MaxRedirects, NEW u \in Urls
  PROVE  g[k][u] = Round(g, k, u)
  <1>1. g[k] = [v \in Urls |-> Round(g, k, v)]
    BY DEF FetchEquation
  <1>. QED
    BY <1>1

WebTypeOK == web \in [Urls -> Responses]

\* LeadsTo with k redirects left, from a URL that was let through.  With no
\* redirect left, or fewer, only the path of no step remains.
Path(n, path, d) ==
  /\ web[path[n]] = DocumentAt(d)
  /\ \A i \in 1..n : /\ web[path[i - 1]] = RedirectTo(path[i])
                     /\ AllowedTarget(path[i])

Reaches(k, u, d) ==
  \E n \in Nat :
    /\ n = 0 \/ n <= k
    /\ \E path \in [0..n -> Urls] : path[0] = u /\ Path(n, path, d)

LEMMA Kinds ==
  ASSUME WebTypeOK, NEW u \in Urls
  PROVE  \/ /\ web[u].kind = "document" /\ web[u].document \in Documents
            /\ web[u] = DocumentAt(web[u].document)
         \/ /\ web[u].kind = "redirect" /\ web[u].url \in Urls
            /\ web[u] = RedirectTo(web[u].url)
         \/ web[u].kind = "unusable"
  BY DEF WebTypeOK, Responses, DocumentAt, RedirectTo, Unusable

\* A path of no step ends where it starts, any other with a redirect.
LEMMA FirstStep ==
  ASSUME WebTypeOK, NEW k \in -1..MaxRedirects, NEW u \in Urls,
         NEW d, NEW n \in Nat, n = 0 \/ n <= k,
         NEW path \in [0..n -> Urls], path[0] = u, Path(n, path, d)
  PROVE  \/ web[u] = DocumentAt(d)
         \/ /\ Redirects(k, u)
            /\ Reaches(k - 1, web[u].url, d)
  <1>1. CASE n = 0
    BY <1>1 DEF Path
  <1>2. CASE n # 0
    <2>1. 1 \in 1..n /\ 1 - 1 = 0 /\ n - 1 \in Nat /\ k > 0
      BY <1>2
    <2>2. web[u] = RedirectTo(path[1]) /\ AllowedTarget(path[1])
      BY <2>1 DEF Path
    <2>3. web[u].kind = "redirect" /\ web[u].url = path[1]
      BY <2>2 DEF RedirectTo
    <2>4. Redirects(k, u)
      BY <2>1, <2>2, <2>3 DEF Redirects, MayFollow
    <2>. DEFINE rest == [i \in 0..(n - 1) |-> path[i + 1]]
    <2>5. \A i \in 0..(n - 1) : i + 1 \in 0..n /\ rest[i] = path[i + 1]
      BY <2>1
    <2>6. rest \in [0..(n - 1) -> Urls]
      BY <2>5
    <2>7. 0 \in 0..(n - 1) /\ rest[0] = path[1]
      BY <2>1, <2>5
    <2>8. n - 1 \in 0..(n - 1) /\ rest[n - 1] = path[n]
      BY <2>1, <2>5
    <2>9. \A i \in 1..(n - 1) : /\ rest[i - 1] = path[i]
                                /\ rest[i] = path[i + 1]
      BY <2>1, <2>5
    <2>. HIDE DEF rest
    <2>10. \A i \in 1..(n - 1) : /\ web[rest[i - 1]] = RedirectTo(rest[i])
                                 /\ AllowedTarget(rest[i])
      <3>. TAKE i \in 1..(n - 1)
      <3>1. i + 1 \in 1..n /\ (i + 1) - 1 = i
        BY <2>1
      <3>. QED
        BY <2>9, <3>1 DEF Path
    <2>11. Path(n - 1, rest, d)
      BY <2>8, <2>10 DEF Path
    <2>12. n - 1 = 0 \/ n - 1 <= k - 1
      BY <2>1
    <2>13. Reaches(k - 1, path[1], d)
      BY <2>1, <2>6, <2>7, <2>11, <2>12 DEF Reaches
    <2>. QED
      BY <2>3, <2>4, <2>13
  <1>. QED
    BY <1>1, <1>2

\* A redirect that is followed goes before a path from its target.
LEMMA StepBack ==
  ASSUME WebTypeOK, NEW k \in -1..MaxRedirects, NEW u \in Urls, NEW d,
         Redirects(k, u), Reaches(k - 1, web[u].url, d)
  PROVE  Reaches(k, u, d)
  <1>. DEFINE v == web[u].url
  <1>1. v \in Urls /\ web[u] = RedirectTo(v) /\ AllowedTarget(v) /\ k > 0
    BY Kinds DEF Redirects, MayFollow
  <1>0. PICK n \in Nat :
          /\ n = 0 \/ n <= k - 1
          /\ \E path \in [0..n -> Urls] : path[0] = v /\ Path(n, path, d)
    BY DEF Reaches
  <1>2. PICK rest \in [0..n -> Urls] :
          (n = 0 \/ n <= k - 1) /\ rest[0] = v /\ Path(n, rest, d)
    BY <1>0
  <1>. HIDE DEF v
  <1>. DEFINE path == [i \in 0..(n + 1) |-> IF i = 0 THEN u ELSE rest[i - 1]]
  <1>3. path[0] = u /\ \A i \in 1..(n + 1) :
                         i - 1 \in 0..n /\ path[i] = rest[i - 1]
    BY <1>2
  <1>4. path \in [0..(n + 1) -> Urls]
    BY <1>2
  <1>5. path[n + 1] = rest[n]
    BY <1>2, <1>3
  <1>. HIDE DEF path
  <1>6. \A i \in 1..(n + 1) : /\ web[path[i - 1]] = RedirectTo(path[i])
                              /\ AllowedTarget(path[i])
    <2>. TAKE i \in 1..(n + 1)
    <2>1. CASE i = 1
      <3>1. i - 1 = 0 /\ path[i] = rest[0]
        BY <1>2, <1>3, <2>1
      <3>. QED
        BY <1>1, <1>2, <1>3, <3>1
    <2>2. CASE i # 1
      <3>1. i - 1 \in 1..n /\ i - 1 \in 1..(n + 1)
        BY <1>2, <2>2
      <3>2. path[i] = rest[i - 1] /\ path[i - 1] = rest[(i - 1) - 1]
        BY <1>3, <3>1
      <3>. QED
        BY <1>2, <3>1, <3>2 DEF Path
    <2>. QED
      BY <2>1, <2>2
  <1>7. Path(n + 1, path, d)
    BY <1>2, <1>5, <1>6 DEF Path
  <1>8. n + 1 \in Nat /\ n + 1 <= k
    BY <1>1, <1>2
  <1>. QED
    BY <1>3, <1>4, <1>7, <1>8 DEF Reaches

\* What is reached is reached by the first response.
LEMMA ReachesUnfolds ==
  ASSUME WebTypeOK, NEW k \in -1..MaxRedirects, NEW u \in Urls, NEW d
  PROVE  Reaches(k, u, d) <=>
           \/ web[u] = DocumentAt(d)
           \/ Redirects(k, u) /\ Reaches(k - 1, web[u].url, d)
  <1>1. ASSUME Reaches(k, u, d)
        PROVE  \/ web[u] = DocumentAt(d)
               \/ Redirects(k, u) /\ Reaches(k - 1, web[u].url, d)
    <2>1. PICK n \in Nat :
            /\ n = 0 \/ n <= k
            /\ \E path \in [0..n -> Urls] : path[0] = u /\ Path(n, path, d)
      BY <1>1 DEF Reaches
    <2>2. PICK path \in [0..n -> Urls] : path[0] = u /\ Path(n, path, d)
      BY <2>1
    <2>. QED
      BY <2>1, <2>2, FirstStep
  <1>2. ASSUME web[u] = DocumentAt(d)
        PROVE  Reaches(k, u, d)
    <2>. DEFINE path == [i \in 0..0 |-> u]
    <2>1. path \in [0..0 -> Urls] /\ path[0] = u
      OBVIOUS
    <2>. HIDE DEF path
    <2>2. Path(0, path, d)
      BY <1>2, <2>1 DEF Path
    <2>. QED
      BY <2>1, <2>2 DEF Reaches
  <1>. QED
    BY <1>1, <1>2, StepBack

\* What Fetch finds, said without recursion.
Found(k, u) == {d \in Documents : Reaches(k, u, d)}

Result(k, u) ==
  IF Found(k, u) # {} THEN Success(CHOOSE d \in Found(k, u) : TRUE)
  ELSE Failure

\* So some function satisfies the equation of Fetch.
LEMMA FetchExists ==
  ASSUME WebTypeOK
  PROVE  \E g : FetchEquation(g)
  <1>. DEFINE g == [k \in -1..MaxRedirects |-> [u \in Urls |-> Result(k, u)]]
  <1>1. ASSUME NEW k \in -1..MaxRedirects, NEW u \in Urls
        PROVE  Result(k, u) = Round(g, k, u)
    <2>1. CASE web[u].kind = "document"
      <3>. DEFINE d == web[u].document
      <3>1. d \in Documents /\ web[u] = DocumentAt(d)
        BY <2>1, Kinds
      <3>2. \A e : web[u] = DocumentAt(e) => e = d
        BY <3>1 DEF DocumentAt
      <3>3. ~Redirects(k, u)
        BY <2>1 DEF Redirects
      <3>. HIDE DEF d
      <3>4. Found(k, u) = {d}
        BY <3>1, <3>2, <3>3, ReachesUnfolds DEF Found
      <3>5. (CHOOSE e \in Found(k, u) : TRUE) = d
        BY <3>4
      <3>6. Result(k, u) = Success(d)
        BY <3>4, <3>5 DEF Result
      <3>. QED
        BY <2>1, <3>6 DEF Round, d
    <2>2. CASE web[u].kind # "document" /\ Redirects(k, u)
      <3>. DEFINE v == web[u].url
      <3>1. v \in Urls /\ k - 1 \in -1..MaxRedirects
        BY <2>2, Kinds, AdmissionAssumption DEF Redirects, MayFollow
      <3>2. \A d : web[u] # DocumentAt(d)
        BY <2>2 DEF DocumentAt
      <3>3. \A d : Reaches(k, u, d) <=> Reaches(k - 1, v, d)
        BY <2>2, <3>2, ReachesUnfolds
      <3>. HIDE DEF v
      <3>4. Found(k, u) = Found(k - 1, v)
        BY <3>3 DEF Found
      <3>5. Result(k, u) = Result(k - 1, v)
        BY <3>4 DEF Result
      <3>6. g[k - 1][v] = Result(k - 1, v)
        BY <3>1
      <3>. HIDE DEF g
      <3>7. Round(g, k, u) = g[k - 1][v]
        BY <2>2 DEF Round, v
      <3>. QED
        BY <3>5, <3>6, <3>7
    <2>3. CASE web[u].kind # "document" /\ ~Redirects(k, u)
      <3>1. \A d : web[u] # DocumentAt(d)
        BY <2>3 DEF DocumentAt
      <3>2. Found(k, u) = {}
        BY <2>3, <3>1, ReachesUnfolds DEF Found
      <3>. QED
        BY <2>3, <3>2 DEF Result, Round
    <2>. QED
      BY <2>1, <2>2, <2>3
  <1>2. FetchEquation(g)
    BY <1>1 DEF FetchEquation
  <1>. QED
    BY <1>2

Outcome(r) == r = Failure \/ \E d \in Documents : r = Success(d)

\* For every number of redirects left, Fetch finds the documents the web
\* reaches: a smallest number for which it does not has no room to be one.
LEMMA FetchReaches ==
  ASSUME WebTypeOK, NEW k \in 0..MaxRedirects, NEW u \in Urls, NEW d
  PROVE  /\ Fetch[k][u] = Success(d) <=> Reaches(k, u, d)
         /\ Outcome(Fetch[k][u])
  <1>. DEFINE Right(m) == \A v \in Urls : \A e :
                            /\ Fetch[m][v] = Success(e) <=> Reaches(m, v, e)
                            /\ Outcome(Fetch[m][v])
  <1>. DEFINE Wrong == {m \in 0..MaxRedirects : ~Right(m)}
  <1>1. FetchEquation(Fetch)
    BY FetchExists, FetchDefined
  <1>2. ASSUME NEW m \in 0..MaxRedirects, m > 0 => Right(m - 1)
        PROVE  Right(m)
    <2>. SUFFICES ASSUME NEW v \in Urls, NEW e
                  PROVE  /\ Fetch[m][v] = Success(e) <=> Reaches(m, v, e)
                         /\ Outcome(Fetch[m][v])
      OBVIOUS
    <2>0. Fetch[m][v] = Round(Fetch, m, v)
      BY <1>1, FetchRound
    <2>4. Reaches(m, v, e) <=>
           \/ web[v] = DocumentAt(e)
           \/ Redirects(m, v) /\ Reaches(m - 1, web[v].url, e)
      BY ReachesUnfolds
    <2>1. CASE web[v].kind = "document"
      <3>1. web[v] = DocumentAt(web[v].document) /\ ~Redirects(m, v)
        BY <2>1, Kinds DEF Redirects
      <3>2. web[v] = DocumentAt(e) <=> web[v].document = e
        BY <3>1 DEF DocumentAt
      <3>3. Success(web[v].document) = Success(e) <=> web[v].document = e
        BY DEF Success
      <3>4. Fetch[m][v] = Success(web[v].document)
        BY <2>0, <2>1 DEF Round
      <3>5. Outcome(Fetch[m][v])
        BY <2>1, <3>4, Kinds DEF Outcome
      <3>. QED
        BY <2>4, <3>1, <3>2, <3>3, <3>4, <3>5
    <2>2. CASE web[v].kind # "document" /\ Redirects(m, v)
      <3>1. web[v].url \in Urls /\ m > 0
        BY <2>2, Kinds DEF Redirects, MayFollow
      <3>2. web[v] # DocumentAt(e)
        BY <2>2 DEF DocumentAt
      <3>3. Fetch[m][v] = Fetch[m - 1][web[v].url]
        BY <2>0, <2>2 DEF Round
      <3>4. /\ Fetch[m - 1][web[v].url] = Success(e) <=>
                 Reaches(m - 1, web[v].url, e)
            /\ Outcome(Fetch[m - 1][web[v].url])
        BY <1>2, <3>1
      <3>. QED
        BY <2>4, <2>2, <3>2, <3>3, <3>4
    <2>3. CASE web[v].kind # "document" /\ ~Redirects(m, v)
      <3>1. web[v] # DocumentAt(e)
        BY <2>3 DEF DocumentAt
      <3>2. Failure # Success(e)
        BY DEF Failure, Success
      <3>3. Fetch[m][v] = Failure
        BY <2>0, <2>3 DEF Round
      <3>. QED
        BY <2>4, <2>3, <3>1, <3>2, <3>3 DEF Outcome
    <2>. QED
      BY <2>1, <2>2, <2>3
  <1>. HIDE DEF Right
  <1>3. Wrong = {}
    <2>. SUFFICES ASSUME Wrong # {}
                  PROVE  FALSE
      OBVIOUS
    <2>1. Wrong \subseteq Nat
      BY AdmissionAssumption
    <2>2. \A m : m \in Wrong <=> m \in 0..MaxRedirects /\ ~Right(m)
      OBVIOUS
    <2>. HIDE DEF Wrong
    <2>3. PICK m \in Wrong : \A o \in Wrong : m <= o
      BY <2>1, SmallestOfSet
    <2>4. m > 0 => m - 1 \in 0..MaxRedirects /\ ~(m <= m - 1)
      BY <2>2, <2>3, AdmissionAssumption
    <2>5. m > 0 => Right(m - 1)
      BY <2>2, <2>3, <2>4
    <2>. QED
      BY <1>2, <2>2, <2>3, <2>5
  <1>4. Right(k)
    BY <1>3
  <1>. QED
    BY <1>4 DEF Right

LEMMA LeadsToReaches ==
  ASSUME NEW u \in Urls, NEW d
  PROVE  LeadsTo(u, d) <=> AllowedUrl(u) /\ Reaches(MaxRedirects, u, d)
  BY AdmissionAssumption DEF LeadsTo, Reaches, Path

\* The web only ever says what Responses says.
LEMMA WebInv == AdmissionSpec => []WebTypeOK
  <1>1. AdmissionInit => WebTypeOK
    BY DEF AdmissionInit, WebTypeOK
  <1>2. WebTypeOK /\ [AdmissionNext]_admissionVars => WebTypeOK'
    BY DEF WebTypeOK, AdmissionNext, Register, Admit, Publish, OverrideScopes,
      ResetClients, admissionVars
  <1>. QED
    BY <1>1, <1>2, PTL DEF AdmissionSpec

LEMMA ResolutionLeads ==
  ASSUME WebTypeOK, NEW u \in Urls, NEW d
  PROVE  /\ Resolution(u) = Success(d) <=> LeadsTo(u, d)
         /\ Outcome(Resolution(u))
  <1>1. MaxRedirects \in 0..MaxRedirects
    BY AdmissionAssumption
  <1>2. /\ Fetch[MaxRedirects][u] = Success(d) <=> Reaches(MaxRedirects, u, d)
        /\ Outcome(Fetch[MaxRedirects][u])
    BY <1>1, FetchReaches
  <1>3. Failure # Success(d)
    BY DEF Failure, Success
  <1>. QED
    BY <1>2, <1>3, LeadsToReaches DEF Resolution, Outcome

\* The fetch finds just the documents the web leads to, for any web and any
\* bound on redirects.
THEOREM FetchFindsAll == AdmissionSpec => []FetchFindsDocuments
  <1>1. WebTypeOK => FetchFindsDocuments
    BY ResolutionLeads DEF FetchFindsDocuments
  <1>. QED
    BY <1>1, WebInv, PTL

\* No step lets in a URL client but with the metadata of a document that names
\* it and that the web leads to at that moment.
THEOREM AdmissionsAreLed == AdmissionSpec => AdmittedAsFound
  <1>. DEFINE New == Urls \cap (DOMAIN clients' \ DOMAIN clients)
  <1>. DEFINE Led(u) ==
         \E d \in Documents : /\ LeadsTo(u, d) /\ d.client_id = u
                              /\ clients'[u] = DocumentRecord(d)
  <1>1. ASSUME WebTypeOK, [AdmissionNext]_admissionVars,
               NEW u \in New
        PROVE  Led(u)
    <2>1. ASSUME NEW v \in Urls, Admit(v)
          PROVE  Led(u)
      <3>1. PICK d \in Documents : Resolution(v) = Success(d)
        BY <1>1, <2>1, ResolutionLeads DEF Admit, Outcome, Failure
      <3>2. Resolution(v).document = d
        BY <3>1 DEF Success
      <3>3. /\ NamesItself(v, d)
            /\ AddClient(v, DocumentRecord(d))
        BY <2>1, <3>2 DEF Admit, ValidDocument
      <3>4. u = v /\ clients'[v] = DocumentRecord(d)
        BY <3>3 DEF AddClient
      <3>5. LeadsTo(v, d)
        BY <1>1, <3>1, ResolutionLeads
      <3>. QED
        BY <3>3, <3>4, <3>5 DEF NamesItself
    <2>2. ASSUME NEW id \in Ids, Register(id)
          PROVE  FALSE
      BY <2>2, AdmissionAssumption DEF Register, AddClient
    <2>3. CASE \/ \E v \in Urls : Publish(v)
               \/ OverrideScopes \/ UNCHANGED admissionVars
      BY <2>3 DEF Publish, OverrideScopes, admissionVars
    <2>4. CASE ResetClients
      BY <2>4, AdmissionAssumption DEF ResetClients
    <2>. QED
      BY <1>1, <2>1, <2>2, <2>3, <2>4 DEF AdmissionNext
  <1>2. WebTypeOK /\ [AdmissionNext]_admissionVars
        => [\A u \in New : Led(u)]_admissionVars
    BY <1>1
  <1>. QED
    BY <1>2, WebInv, PTL DEF AdmissionSpec, AdmittedAsFound
=============================================================================
