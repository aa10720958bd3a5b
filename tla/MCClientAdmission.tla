------------------------- MODULE MCClientAdmission -------------------------
(***************************************************************************)
(* Values for model checking ClientAdmission: every shape of registration  *)
(* request, the seeded clients, and four URLs with documents that are      *)
(* good, good for another client, or lacking.                              *)
(***************************************************************************)
EXTENDS ClientAdmission

CONSTANTS id, a, b, plain, lan   \* a client id and four URLs

MCScheme == [u \in Urls |-> IF u = plain THEN "http" ELSE "https"]
MCHost ==
  [u \in Urls |-> CASE u = plain -> "loopback"
                    [] u = lan -> "private"
                    [] OTHER -> "public"]

Client(auth, grants, responses, redirects) ==
  [auth |-> auth, grants |-> grants, responses |-> responses,
   redirects |-> redirects]

MCSeeds == [s \in {"public", "service", "device", "confidential"} |->
  CASE s = "public" -> Client("none",
         {"authorization_code", "refresh_token"}, {"code"}, {"https"})
    [] s = "service" -> Client("client_secret_post",
         {"client_credentials"}, {}, {})
    [] s = "device" -> Client("none", {"device_code", "refresh_token"}, {}, {})
    [] s = "confidential" -> Client("client_secret_post",
         {"authorization_code", "client_credentials"}, {"code"}, {"https"})]

MCDocument(u, auth, grants, redirects) ==
  [client_id |-> u, auth |-> auth, grants |-> grants, responses |-> Absent,
   redirects |-> redirects, scope |-> "read"]

MCDocuments ==
  {MCDocument(a, "absent", Absent, {"https"}),
   MCDocument(a, "none", {"authorization_code", "client_credentials"},
              {"https"}),
   MCDocument(plain, "absent", Absent, {"https", "http"})}

MCPayloads ==
  [auth: AuthMethods \cup {"absent", "private_key_jwt"},
   grants: SUBSET (GrantTypes \cup {"implicit"}) \cup {Absent},
   responses: {Absent, {}, {"code"}, {"token"}, {"code", "token"}},
   redirects: {{}, {"https"}},
   scope: Scopes]

MCOverrides == {Scopes, {}}
=============================================================================
