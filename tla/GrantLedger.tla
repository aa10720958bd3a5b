---------------------------- MODULE GrantLedger ----------------------------
(***************************************************************************)
(* What an authorization server promises about the codes of one grant and  *)
(* the tokens they buy, whatever its tables look like.  A code is granted  *)
(* under a handle that nothing was ever named by, and is pending until it  *)
(* is redeemed or voided; either way it does not return.  Redeeming it     *)
(* buys one access token and at most one refresh token, and that is the    *)
(* only way to a first token; a refresh is the only way to another one.    *)
(***************************************************************************)
CONSTANT Handle   \* the handles codes and tokens are named by

VARIABLES
  used,      \* handles drawn so far, for whatever purpose
  pending,   \* codes issued and still redeemable
  redeemed,  \* pairs <<code, access token>>
  access,    \* access tokens in force that go back to a code
  refresh    \* refresh tokens in force that go back to a code

ledgerVars == <<used, pending, redeemed, access, refresh>>

LedgerInit ==
  /\ used = {}
  /\ pending = {}
  /\ redeemed = {}
  /\ access = {}
  /\ refresh = {}

Grant == \E h \in Handle \ used :
  /\ used' = used \cup {h}
  /\ pending' = pending \cup {h}
  /\ UNCHANGED <<redeemed, access, refresh>>

\* A code buys an access token, with or without a refresh token.
Buy(h, t) ==
  /\ pending' = pending \ {h}
  /\ redeemed' = redeemed \cup {<<h, t>>}
  /\ access' = access \cup {t}
  /\ \/ /\ used' = used \cup {t}
        /\ UNCHANGED refresh
     \/ \E r \in Handle \ (used \cup {t}) :
          /\ used' = used \cup {t, r}
          /\ refresh' = refresh \cup {r}

Redeem == \E h \in pending, t \in Handle \ used : Buy(h, t)

Refresh == \E t \in Handle \ used :
  /\ refresh # {}
  /\ used' = used \cup {t}
  /\ access' = access \cup {t}
  /\ UNCHANGED <<pending, redeemed, refresh>>

\* Codes and tokens end: by a failed exchange, by expiry, by a reset.
Void ==
  /\ pending' \subseteq pending
  /\ access' \subseteq access
  /\ refresh' \subseteq refresh
  /\ UNCHANGED <<used, redeemed>>

\* A handle for something of another grant.
DrawElsewhere == \E h \in Handle \ used :
  /\ used' = used \cup {h}
  /\ UNCHANGED <<pending, redeemed, access, refresh>>

LedgerNext == Grant \/ Redeem \/ Refresh \/ Void \/ DrawElsewhere

LedgerSpec == LedgerInit /\ [][LedgerNext]_ledgerVars

\* A code buys at most one access token, and a token is bought by one code.
OneTokenPerCode ==
  \A p, q \in redeemed : p[1] = q[1] \/ p[2] = q[2] => p = q

\* What was drawn and is not in force stays out of force: no code or token
\* comes back, whatever made it go.
StaysGone ==
  /\ pending' \cap used \subseteq pending
  /\ access' \cap used \subseteq access
  /\ refresh' \cap used \subseteq refresh

NothingReturns == [][StaysGone]_ledgerVars
=============================================================================
