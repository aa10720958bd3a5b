------------------------- MODULE MCLoopbackCallback -------------------------
(***************************************************************************)
(* Values for model checking LoopbackCallback.  The server of l1 names its *)
(* issuer in its redirects and may refuse; the server of l2 does neither;  *)
(* and redirects with a code may come from another server.                 *)
(***************************************************************************)
EXTENDS LoopbackCallback

CONSTANTS
  l1, l2,   \* runs of the CLI with one --listen-port
  c1, c2    \* connections

MCRedirects ==
  {Message(l1, "ours", "code"), Message(l1, "ours", "error"),
   Message(l2, "absent", "code")}
    \cup {Message(l, "foreign", "code") : l \in Logins}
=============================================================================
