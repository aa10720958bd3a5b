-------------------------- MODULE LoopbackCallback --------------------------
(***************************************************************************)
(* `mcp-auth login --auth-mode auth-code` (auth/auth_code.py): each login  *)
(* is a process of two threads.  The main thread starts a one-request-at-  *)
(* a-time HTTP server, prints the authorization URL, waits up to 180 s for *)
(* an answer, closes the server, checks the answer and exchanges its code. *)
(* The server thread hands every GET it is sent to the main thread.        *)
(*                                                                         *)
(* Logins run one after another, or at once, with the same --listen-port,  *)
(* so a browser tab of one may answer another.  With the port the system   *)
(* picks by default, fewer of these behaviours remain.  Only the login     *)
(* that holds the port has connections, and its thread handles one.        *)
(***************************************************************************)
CONSTANTS
  Logins,     \* runs of the CLI
  Conns,      \* connections made to the port
  Redirects   \* redirects that may come in

\* What a connection brings: an answer is the URL of a GET.  A redirect
\* carries the state of the login that asked for it; any other GET, on
\* whatever path, carries none.
Message(state, iss, says) == [state |-> state, iss |-> iss, says |-> says]

AllRedirects == [state: Logins, iss: {"ours", "foreign", "absent"},
                 says: {"code", "error", "nothing"}]
Stray == Message("none", "absent", "nothing")
Answers == Redirects \cup {Stray}

NoAnswer == Message("none", "absent", "None")
Silent   == Message("none", "absent", "silent")
\* Another method, garbage, or a connection closed without a request.
NoGet    == Message("none", "absent", "no GET")

ASSUME LoopbackAssumption ==
  /\ "none" \notin Logins
  /\ Redirects \subseteq AllRedirects

VARIABLES
  pc,         \* where the main thread of each login is
  loop,       \* where its server thread is
  received,   \* _received_url
  event,      \* _event
  result,     \* redirect_result
  conn,       \* state of each connection
  sent,       \* what each has sent
  \* History, read by no action:
  exchanged,  \* <<login, answer>> of every code sent to the token endpoint
  expired,    \* logins whose wait ran out before any answer was signalled
  overtaken   \* logins a later request took the answer of an earlier one from

mainVars == <<pc, result>>
serverVars == <<loop, received, event>>
connVars == <<conn, sent>>
loopbackHistory == <<exchanged, expired, overtaken>>
loopbackVars == <<mainVars, serverVars, connVars, loopbackHistory>>

\* "timedOut", "notStarted" and "failed": the login ended with that error,
\* before it printed its URL, or with any other error.
MainStates == {"idle", "starting", "waiting", "reading", "closing",
               "stopping", "checking", "exchanging", "loggedIn", "timedOut",
               "failed", "notStarted"}

LoopbackTypeOK ==
  /\ pc \in [Logins -> MainStates]
  /\ loop \in [Logins -> {"off", "ready", "handling", "signalling",
                          "stopped"}]
  /\ received \in [Logins -> Answers \cup {NoAnswer}]
  /\ event \in [Logins -> BOOLEAN]
  /\ result \in [Logins -> Answers \cup {NoAnswer}]
  /\ conn \in [Conns -> {"unused", "queued", "accepted", "over"}]
  /\ sent \in [Conns -> Answers \cup {Silent, NoGet}]
  /\ exchanged \subseteq Logins \X (Answers \cup {NoAnswer})
  /\ expired \subseteq Logins
  /\ overtaken \subseteq Logins

LoopbackInit ==
  /\ pc = [l \in Logins |-> "idle"]
  /\ loop = [l \in Logins |-> "off"]
  /\ received = [l \in Logins |-> NoAnswer]
  /\ event = [l \in Logins |-> FALSE]
  /\ result = [l \in Logins |-> NoAnswer]
  /\ conn = [c \in Conns |-> "unused"]
  /\ sent = [c \in Conns |-> Silent]
  /\ exchanged = {}
  /\ expired = {}
  /\ overtaken = {}

Goto(l, state) == pc' = [pc EXCEPT ![l] = state]
Loop(l, state) == loop' = [loop EXCEPT ![l] = state]

\* A step of the main thread that touches nothing it shares.
Advance(l, from, to) ==
  /\ pc[l] = from
  /\ Goto(l, to)
  /\ UNCHANGED <<serverVars, result, connVars>>

\* The login holds the port: from HTTPServer() to server_close() or the end
\* of the process.
Listening(l) ==
  pc[l] \in {"starting", "waiting", "reading", "closing", "stopping"}

\* A redirect comes only from a URL that was printed.
Printed(l) == pc[l] \notin {"idle", "starting", "notStarted"}

PortFree == \A l \in Logins : ~Listening(l)

\* Connections to a port nobody holds any more are reset.
ResetConns ==
  /\ conn' = [c \in Conns |-> IF conn[c] = "unused" THEN "unused" ELSE "over"]
  /\ sent' = [c \in Conns |-> Silent]

-----------------------------------------------------------------------------
(* The main thread *)

StartServer(l) ==
  /\ pc[l] = "idle"
  /\ PortFree
  /\ Goto(l, "starting")
  /\ Loop(l, "ready")
  /\ UNCHANGED <<received, event, result, connVars, loopbackHistory>>

\* The metadata lacks an endpoint, or somebody else holds the port.
BindFails(l) == Advance(l, "idle", "notStarted") /\ UNCHANGED loopbackHistory

\* Registers, asks for a client id if it has none, and prints the URL.
PrintUrl(l) == Advance(l, "starting", "waiting") /\ UNCHANGED loopbackHistory

\* Registration or the prompt raises; the daemon thread ends with the process.
StartFails(l) ==
  /\ pc[l] = "starting"
  /\ Goto(l, "notStarted")
  /\ Loop(l, "off")
  /\ ResetConns
  /\ UNCHANGED <<received, event, result, loopbackHistory>>

\* With a redirect URI on another host there is no server: the person pastes
\* the URL the browser ended at.
PasteUrl(l) ==
  /\ pc[l] = "idle"
  /\ \E a \in Answers :
       /\ a \in Redirects => a.state = l \/ Printed(a.state)
       /\ result' = [result EXCEPT ![l] = a]
  /\ Goto(l, "checking")
  /\ UNCHANGED <<serverVars, connVars, loopbackHistory>>

\* wait_for_url: Event.wait returns, and then the URL is read.
WaitReturns(l) ==
  /\ Advance(l, "waiting", "reading")
  /\ event[l]
  /\ UNCHANGED loopbackHistory

ReadUrl(l) ==
  /\ pc[l] = "reading"
  /\ result' = [result EXCEPT ![l] = received[l]]
  /\ Goto(l, "closing")
  /\ UNCHANGED <<serverVars, connVars, loopbackHistory>>

WaitTimesOut(l) ==
  /\ Advance(l, "waiting", "closing")
  /\ ~event[l]
  /\ expired' = expired \cup {l}
  /\ UNCHANGED <<exchanged, overtaken>>

\* shutdown() sets its flag and waits for the loop of the server thread.
Shutdown(l) == Advance(l, "closing", "stopping") /\ UNCHANGED loopbackHistory

\* Slip: closes the socket under a server thread that may still run.
NotAwaited(l) == TRUE

\* Slip: waits for the connections in the queue, too.
QueueDrained(l) == loop[l] = "stopped" /\ \A c \in Conns : conn[c] # "queued"

ServerStopped(l) == loop[l] = "stopped"

\* It returns, and server_close() releases the port.
CloseServer(l) ==
  /\ pc[l] = "stopping"
  /\ ServerStopped(l)
  /\ Goto(l, "checking")
  /\ ResetConns
  /\ UNCHANGED <<serverVars, result, loopbackHistory>>

\* Slip: takes any answer that brings a code.
AnyCode(l, a) == a.says = "code"

\* Slip: an answer without an issuer counts as one of a foreign issuer.
OurIssuerOnly(l, a) ==
  /\ a.state = l
  /\ a.iss = "ours"
  /\ a.says = "code"

\* Our state, no foreign issuer, no error, and a code.
Acceptable(l, a) ==
  /\ a.state = l
  /\ a.iss # "foreign"
  /\ a.says = "code"

CheckAnswer(l) ==
  /\ Advance(l, "checking",
       IF result[l] = NoAnswer THEN "timedOut"
       ELSE IF Acceptable(l, result[l]) THEN "exchanging" ELSE "failed")
  /\ UNCHANGED loopbackHistory

\* The token endpoint grants, refuses, or its token is of another issuer.
ExchangeCode(l) ==
  /\ \E outcome \in {"loggedIn", "failed"} : Advance(l, "exchanging", outcome)
  /\ exchanged' = exchanged \cup {<<l, result[l]>>}
  /\ UNCHANGED <<expired, overtaken>>

-----------------------------------------------------------------------------
(* The server thread *)

\* serve_forever looks at the flag of shutdown() before it takes the next
\* connection.
AcceptConn(l, c) ==
  /\ loop[l] = "ready"
  /\ pc[l] # "stopping"
  /\ conn[c] = "queued"
  /\ conn' = [conn EXCEPT ![c] = "accepted"]
  /\ Loop(l, "handling")
  /\ UNCHANGED <<mainVars, received, event, sent, loopbackHistory>>

StopServing(l) ==
  /\ loop[l] = "ready"
  /\ pc[l] = "stopping"
  /\ Loop(l, "stopped")
  /\ UNCHANGED <<mainVars, received, event, connVars,
                 loopbackHistory>>

\* Slip: ignores what is no redirect, but wakes the main thread all the same.
RedirectsOnly(l, a) == IF a = Stray THEN received[l] ELSE a

\* set_result keeps the last URL.
UrlAfter(l, a) == a

\* The main thread has yet to read the URL.
Undecided(l) == pc[l] \in {"starting", "waiting", "reading"}

\* do_GET, once the request has come in: set_result stores the URL,
HandleGet(l, c) ==
  /\ loop[l] = "handling"
  /\ conn[c] = "accepted"
  /\ sent[c] \in Answers
  /\ received' = [received EXCEPT ![l] = UrlAfter(l, sent[c])]
  /\ Loop(l, "signalling")
  /\ overtaken' = overtaken \cup {m \in {l} : event[m] /\ Undecided(m)}
  /\ UNCHANGED <<mainVars, event, connVars, exchanged, expired>>

EndRequest(l, c) ==
  /\ conn' = [conn EXCEPT ![c] = "over"]
  /\ sent' = [sent EXCEPT ![c] = Silent]
  /\ Loop(l, "ready")

\* and then sets the event; the page that follows cannot block the thread.
SignalMain(l, c) ==
  /\ loop[l] = "signalling"
  /\ conn[c] = "accepted"
  /\ event' = [event EXCEPT ![l] = TRUE]
  /\ EndRequest(l, c)
  /\ UNCHANGED <<mainVars, received, loopbackHistory>>

\* Anything else is answered with an error and forgotten.
HandleOther(l, c) ==
  /\ loop[l] = "handling"
  /\ conn[c] = "accepted"
  /\ sent[c] = NoGet
  /\ EndRequest(l, c)
  /\ UNCHANGED <<mainVars, received, event, loopbackHistory>>

-----------------------------------------------------------------------------
(* Browsers and whoever else connects *)

Connect(c) ==
  /\ conn[c] = "unused"
  /\ ~PortFree
  /\ conn' = [conn EXCEPT ![c] = "queued"]
  /\ UNCHANGED <<mainVars, serverVars, sent, loopbackHistory>>

Send(c) ==
  /\ conn[c] \in {"queued", "accepted"}
  /\ sent[c] = Silent
  /\ \E a \in Answers \cup {NoGet} :
       /\ a \in Redirects => Printed(a.state)
       /\ sent' = [sent EXCEPT ![c] = a]
  /\ UNCHANGED <<mainVars, serverVars, conn, loopbackHistory>>

-----------------------------------------------------------------------------
(* The specification *)

WaitStep(l) == WaitReturns(l) \/ ReadUrl(l) \/ WaitTimesOut(l)
CloseStep(l) == Shutdown(l) \/ CloseServer(l)
FinishStep(l) == CheckAnswer(l) \/ ExchangeCode(l)
StartStep(l) ==
  StartServer(l) \/ BindFails(l) \/ PrintUrl(l) \/ StartFails(l)
    \/ PasteUrl(l)

ServerStep(l) ==
  \/ StopServing(l)
  \/ \E c \in Conns :
       AcceptConn(l, c) \/ HandleGet(l, c) \/ SignalMain(l, c)
         \/ HandleOther(l, c)

LoopbackNext ==
  \/ \E l \in Logins :
       StartStep(l) \/ WaitStep(l) \/ CloseStep(l) \/ FinishStep(l)
         \/ ServerStep(l)
  \/ \E c \in Conns : Connect(c) \/ Send(c)

\* Both threads run, the wait ends after 180 s, and the exchange returns or
\* raises.
ThreadFairness ==
  \A l \in Logins :
    /\ WF_loopbackVars(WaitStep(l) \/ CloseStep(l) \/ FinishStep(l))
    /\ WF_loopbackVars(ServerStep(l))

LoopbackSpec ==
  LoopbackInit /\ [][LoopbackNext]_loopbackVars /\ ThreadFairness

\* Whoever connects also sends something, or closes.
PromptSpec == LoopbackSpec /\ \A c \in Conns : WF_loopbackVars(Send(c))

-----------------------------------------------------------------------------
(* Properties *)

\* A login exchanges at most one answer, and only the redirect of the URL it
\* printed itself, whatever other tabs and programs send to its port: two
\* logins never use the same code (the checks before the exchange).
OwnRedirectOnly ==
  \A e, f \in exchanged :
    /\ e[2].state = e[1] /\ e[2].iss # "foreign"
    /\ e[1] = f[1] \/ e[2] = f[2] => e = f

\* A login reports a timeout only if nothing was signalled to it while it
\* waited: when the event is set the URL is there (set_result, wait_for_url).
NoFalseTimeout == \A l \in Logins : pc[l] = "timedOut" => l \in expired

\* A server thread runs only while its own login holds the port: the requests
\* of the next login on it are not taken by a thread of the last (close).
ServesItsOwnLogin ==
  \A l \in Logins :
    loop[l] \in {"ready", "handling", "signalling"} => Listening(l)

Ended == {"loggedIn", "timedOut", "failed"}

\* A login that waits for its redirect ends, with tokens or with an error: it
\* waits for 180 s and then reports "Timed out waiting for the authorization
\* callback" (auth_code.py:93-99).
LoginEnds == \A l \in Logins : pc[l] = "waiting" ~> pc[l] \in Ended

OwnCode(l) == [state: {l}, iss: {"ours", "absent"}, says: {"code"}]

\* A login that waits and is signalled the redirect with its code exchanges
\* it, unless another request overtakes it before the URL is read.
RedirectGoesThrough ==
  \A l \in Logins :
    pc[l] = "waiting" /\ event[l] /\ received[l] \in OwnCode(l)
      ~> l \in overtaken \/ \E e \in exchanged : e[1] = l

\* A login that has its redirect: signalled while it waits, or read since.
Answered(l) ==
  \/ /\ pc[l] \in {"waiting", "reading"}
     /\ event[l] /\ received[l] \in OwnCode(l)
  \/ /\ pc[l] \in {"closing", "stopping", "checking", "exchanging"}
     /\ result[l] \in OwnCode(l)

\* The same, step by step: from the signal to the exchange neither thread
\* loses the redirect.  The wait does not time out once the event is set,
\* requests that come while the server closes change nothing that is read
\* later, and no check refuses it.
RedirectIsKept ==
  [][\A l \in Logins :
       Answered(l) =>
         \/ Answered(l)'
         \/ l \in overtaken'
         \/ \E e \in exchanged' :
              e[1] = l /\ e[2] \in OwnCode(l)]_loopbackVars
=============================================================================
