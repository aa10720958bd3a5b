--------------------------- MODULE LoopbackProofs ---------------------------
(***************************************************************************)
(* Proofs about LoopbackCallback, for any number of logins that share a    *)
(* port, any number of connections and any redirects.                      *)
(***************************************************************************)
EXTENDS LoopbackCallback, TLAPS

LEMMA AnswersAreNoFillers ==
  NoAnswer \notin Answers /\ Silent \notin Answers /\ NoGet \notin Answers
  BY LoopbackAssumption
  DEF NoAnswer, Silent, NoGet, Answers, Stray, Message, AllRedirects

-----------------------------------------------------------------------------
(* Type correctness *)

LEMMA LoginStepType ==
  ASSUME LoopbackTypeOK, NEW l \in Logins,
         StartStep(l) \/ WaitStep(l) \/ CloseStep(l) \/ FinishStep(l)
  PROVE  LoopbackTypeOK'
  <1>. USE DEF LoopbackTypeOK, MainStates, Goto, Loop, Advance, connVars,
         serverVars, mainVars, loopbackHistory
  <1>1. CASE StartStep(l)
    BY <1>1 DEF StartStep, StartServer, BindFails, PrintUrl, StartFails,
      PasteUrl, ResetConns
  <1>2. CASE WaitStep(l)
    BY <1>2 DEF WaitStep, WaitReturns, ReadUrl, WaitTimesOut
  <1>3. CASE CloseStep(l)
    BY <1>3 DEF CloseStep, Shutdown, CloseServer, ResetConns
  <1>4. CASE CheckAnswer(l)
    BY <1>4 DEF CheckAnswer
  <1>5. CASE ExchangeCode(l)
    BY <1>5 DEF ExchangeCode
  <1>. QED
    BY <1>1, <1>2, <1>3, <1>4, <1>5 DEF FinishStep

LEMMA ServerStepType ==
  ASSUME LoopbackTypeOK, NEW l \in Logins, ServerStep(l)
  PROVE  LoopbackTypeOK'
  <1>. USE DEF LoopbackTypeOK, Loop, connVars, mainVars, loopbackHistory,
         EndRequest
  <1>1. CASE StopServing(l)
    BY <1>1 DEF StopServing
  <1>2. ASSUME NEW c \in Conns,
               AcceptConn(l, c) \/ SignalMain(l, c) \/ HandleOther(l, c)
        PROVE  LoopbackTypeOK'
    BY <1>2 DEF AcceptConn, SignalMain, HandleOther
  <1>3. ASSUME NEW c \in Conns, HandleGet(l, c)
        PROVE  LoopbackTypeOK'
    BY <1>3 DEF HandleGet, UrlAfter
  <1>. QED
    BY <1>1, <1>2, <1>3 DEF ServerStep

LEMMA ConnStepType ==
  ASSUME LoopbackTypeOK, NEW c \in Conns, Connect(c) \/ Send(c)
  PROVE  LoopbackTypeOK'
  BY DEF LoopbackTypeOK, Connect, Send, mainVars, serverVars, loopbackHistory

\* Both threads of every login, the connections and the answers keep to the
\* states the program gives them.
THEOREM LoopbackTypeCorrect == LoopbackSpec => []LoopbackTypeOK
  <1>1. LoopbackInit => LoopbackTypeOK
    BY DEF LoopbackInit, LoopbackTypeOK, MainStates
  <1>2. LoopbackTypeOK /\ [LoopbackNext]_loopbackVars => LoopbackTypeOK'
    <2>. SUFFICES ASSUME LoopbackTypeOK, [LoopbackNext]_loopbackVars
                  PROVE  LoopbackTypeOK'
      OBVIOUS
    <2>1. CASE UNCHANGED loopbackVars
      BY <2>1 DEF loopbackVars, mainVars, serverVars, connVars,
        loopbackHistory, LoopbackTypeOK
    <2>2. CASE LoopbackNext
      BY <2>2, LoginStepType, ServerStepType, ConnStepType DEF LoopbackNext
    <2>. QED
      BY <2>1, <2>2
  <1>. QED
    BY <1>1, <1>2, PTL DEF LoopbackSpec

-----------------------------------------------------------------------------
(* A server thread runs only while its login holds the port *)

\* ServesItsOwnLogin is inductive: only CloseServer and StartFails give up the
\* port, the one after the loop has stopped, the other with the process.
\* The requests of a login are never taken by the thread of one that is over.
THEOREM ThreadsServeTheirLogin == LoopbackSpec => []ServesItsOwnLogin
  <1>. DEFINE Inv == LoopbackTypeOK /\ ServesItsOwnLogin
  <1>1. LoopbackInit => ServesItsOwnLogin
    BY DEF LoopbackInit, ServesItsOwnLogin
  <1>2. Inv /\ [LoopbackNext]_loopbackVars => ServesItsOwnLogin'
    <2>. SUFFICES ASSUME LoopbackTypeOK, ServesItsOwnLogin,
                         [LoopbackNext]_loopbackVars
                  PROVE  ServesItsOwnLogin'
      OBVIOUS
    <2>. USE DEF LoopbackTypeOK, ServesItsOwnLogin, Listening, Goto, Loop,
           Advance, serverVars, mainVars
    <2>1. ASSUME NEW l \in Logins, StartStep(l)
          PROVE  ServesItsOwnLogin'
      BY <2>1 DEF StartStep, StartServer, BindFails, PrintUrl, StartFails,
        PasteUrl
    <2>2. ASSUME NEW l \in Logins, WaitStep(l) \/ CloseStep(l)
          PROVE  ServesItsOwnLogin'
      BY <2>2 DEF WaitStep, WaitReturns, ReadUrl, WaitTimesOut, CloseStep,
        Shutdown, CloseServer, ServerStopped
    <2>3. ASSUME NEW l \in Logins, FinishStep(l)
          PROVE  ServesItsOwnLogin'
      BY <2>3 DEF FinishStep, CheckAnswer, ExchangeCode
    <2>4. ASSUME NEW l \in Logins, ServerStep(l)
          PROVE  ServesItsOwnLogin'
      BY <2>4 DEF ServerStep, StopServing, AcceptConn, HandleGet, SignalMain,
        HandleOther, EndRequest
    <2>5. ASSUME NEW c \in Conns, Connect(c) \/ Send(c)
          PROVE  ServesItsOwnLogin'
      BY <2>5 DEF Connect, Send
    <2>6. CASE UNCHANGED loopbackVars
      BY <2>6 DEF loopbackVars
    <2>. QED
      BY <2>1, <2>2, <2>3, <2>4, <2>5, <2>6 DEF LoopbackNext
  <1>. QED
    BY <1>1, <1>2, LoopbackTypeCorrect, PTL DEF LoopbackSpec

-----------------------------------------------------------------------------
(* Timeouts and exchanges *)

\* What the threads owe each other: the event is set only when the URL is
\* there, so a wait that returns finds one, and a login without an answer
\* after its wait is one whose wait ran out.
AnswerInv ==
  \A l \in Logins :
    /\ event[l] \/ loop[l] = "signalling" => received[l] \in Answers
    /\ pc[l] = "reading" => event[l]
    /\ pc[l] \in {"closing", "stopping", "checking"} =>
         result[l] \in Answers \/ l \in expired
    /\ pc[l] = "timedOut" => l \in expired

\* The answer being exchanged passed the checks, and what was exchanged is the
\* answer its login ended with.
ExchangeInv ==
  /\ \A l \in Logins : pc[l] = "exchanging" => Acceptable(l, result[l])
  /\ \A e \in exchanged :
       /\ pc[e[1]] \in {"loggedIn", "failed"}
       /\ e[2] = result[e[1]]
       /\ Acceptable(e[1], e[2])

LoopbackInv == LoopbackTypeOK /\ AnswerInv /\ ExchangeInv

LEMMA LoopbackInvInit == LoopbackInit => AnswerInv /\ ExchangeInv
  BY DEF LoopbackInit, AnswerInv, ExchangeInv

LEMMA AnswerInvStep ==
  ASSUME LoopbackTypeOK, AnswerInv, [LoopbackNext]_loopbackVars
  PROVE  AnswerInv'
  <1>. USE DEF LoopbackTypeOK, AnswerInv, Goto, Loop, Advance, serverVars,
         mainVars, loopbackHistory, connVars
  <1>1. ASSUME NEW l \in Logins, StartStep(l)
        PROVE  AnswerInv'
    BY <1>1 DEF StartStep, StartServer, BindFails, PrintUrl, StartFails,
      PasteUrl
  <1>2. ASSUME NEW l \in Logins, WaitReturns(l) \/ WaitTimesOut(l)
        PROVE  AnswerInv'
    BY <1>2 DEF WaitReturns, WaitTimesOut
  <1>3. ASSUME NEW l \in Logins, ReadUrl(l)
        PROVE  AnswerInv'
    BY <1>3 DEF ReadUrl
  <1>4. ASSUME NEW l \in Logins, CloseStep(l)
        PROVE  AnswerInv'
    BY <1>4 DEF CloseStep, Shutdown, CloseServer
  <1>5. ASSUME NEW l \in Logins, FinishStep(l)
        PROVE  AnswerInv'
    BY <1>5, AnswersAreNoFillers DEF FinishStep, CheckAnswer, ExchangeCode
  <1>6. ASSUME NEW l \in Logins, StopServing(l)
        PROVE  AnswerInv'
    BY <1>6 DEF StopServing
  <1>7. ASSUME NEW l \in Logins, NEW c \in Conns,
               AcceptConn(l, c) \/ HandleOther(l, c) \/ SignalMain(l, c)
        PROVE  AnswerInv'
    BY <1>7 DEF AcceptConn, HandleOther, SignalMain, EndRequest
  <1>8. ASSUME NEW l \in Logins, NEW c \in Conns, HandleGet(l, c)
        PROVE  AnswerInv'
    BY <1>8 DEF HandleGet, UrlAfter
  <1>9. ASSUME NEW c \in Conns, Connect(c) \/ Send(c)
        PROVE  AnswerInv'
    BY <1>9 DEF Connect, Send
  <1>10. CASE UNCHANGED loopbackVars
    BY <1>10 DEF loopbackVars
  <1>. QED
    BY <1>1, <1>2, <1>3, <1>4, <1>5, <1>6, <1>7, <1>8, <1>9, <1>10
    DEF LoopbackNext, WaitStep, ServerStep

LEMMA ExchangeInvStep ==
  ASSUME LoopbackTypeOK, ExchangeInv, [LoopbackNext]_loopbackVars
  PROVE  ExchangeInv'
  <1>. USE DEF LoopbackTypeOK, ExchangeInv, Goto, Advance, loopbackHistory,
         mainVars
  <1>0. \A e \in exchanged : e[1] \in Logins
    OBVIOUS
  <1>1. ASSUME NEW l \in Logins, StartStep(l)
        PROVE  ExchangeInv'
    BY <1>0, <1>1 DEF StartStep, StartServer, BindFails, PrintUrl, StartFails,
      PasteUrl
  <1>2. ASSUME NEW l \in Logins, WaitStep(l) \/ CloseStep(l)
        PROVE  ExchangeInv'
    BY <1>0, <1>2 DEF WaitStep, WaitReturns, WaitTimesOut, ReadUrl, CloseStep,
      Shutdown, CloseServer
  <1>3. ASSUME NEW l \in Logins, CheckAnswer(l)
        PROVE  ExchangeInv'
    BY <1>0, <1>3 DEF CheckAnswer
  <1>4. ASSUME NEW l \in Logins, ExchangeCode(l)
        PROVE  ExchangeInv'
    <2>1. exchanged' = exchanged \cup {<<l, result[l]>>} /\ result' = result
      BY <1>4 DEF ExchangeCode
    <2>2. Acceptable(l, result[l])
      BY <1>4 DEF ExchangeCode
    <2>3. /\ pc'[l] \in {"loggedIn", "failed"}
          /\ \A m \in Logins \ {l} : pc'[m] = pc[m]
      BY <1>4 DEF ExchangeCode
    <2>. QED
      BY <1>0, <2>1, <2>2, <2>3
  <1>5. ASSUME NEW l \in Logins, ServerStep(l)
        PROVE  ExchangeInv'
    BY <1>5 DEF ServerStep, StopServing, AcceptConn, HandleGet, SignalMain,
      HandleOther
  <1>6. ASSUME NEW c \in Conns, Connect(c) \/ Send(c)
        PROVE  ExchangeInv'
    BY <1>6 DEF Connect, Send
  <1>7. CASE UNCHANGED loopbackVars
    BY <1>7 DEF loopbackVars
  <1>. QED
    BY <1>1, <1>2, <1>3, <1>4, <1>5, <1>6, <1>7 DEF LoopbackNext, FinishStep

THEOREM LoopbackInvariant == LoopbackSpec => []LoopbackInv
  <1>1. LoopbackTypeOK /\ AnswerInv /\ ExchangeInv
          /\ [LoopbackNext]_loopbackVars => AnswerInv' /\ ExchangeInv'
    BY AnswerInvStep, ExchangeInvStep
  <1>. QED
    BY <1>1, LoopbackInvInit, LoopbackTypeCorrect, PTL
    DEF LoopbackSpec, LoopbackInv

\* A login says that it timed out only if its wait ran out in silence.
THEOREM TimeoutsAreReal == LoopbackSpec => []NoFalseTimeout
  <1>1. LoopbackInv => NoFalseTimeout
    BY DEF LoopbackInv, AnswerInv, NoFalseTimeout
  <1>. QED
    BY <1>1, LoopbackInvariant, PTL

\* A login exchanges one answer at most, the redirect of its own URL.
THEOREM ExchangesOwnRedirect == LoopbackSpec => []OwnRedirectOnly
  <1>1. LoopbackInv => OwnRedirectOnly
    <2>. SUFFICES ASSUME LoopbackInv, NEW e \in exchanged, NEW f \in exchanged
                  PROVE  /\ e[2].state = e[1] /\ e[2].iss # "foreign"
                         /\ e[1] = f[1] \/ e[2] = f[2] => e = f
      BY DEF OwnRedirectOnly
    <2>1. /\ e \in Logins \X (Answers \cup {NoAnswer})
          /\ f \in Logins \X (Answers \cup {NoAnswer})
          /\ e[2] = result[e[1]] /\ f[2] = result[f[1]]
          /\ Acceptable(e[1], e[2]) /\ Acceptable(f[1], f[2])
      BY DEF LoopbackInv, ExchangeInv, LoopbackTypeOK
    <2>. QED
      BY <2>1 DEF Acceptable
  <1>. QED
    BY <1>1, LoopbackInvariant, PTL

-----------------------------------------------------------------------------
(* A redirect that was signalled *)

LEMMA OwnCodeAccepted ==
  ASSUME NEW l, NEW a \in OwnCode(l)
  PROVE  Acceptable(l, a) /\ a # NoAnswer
  BY DEF OwnCode, Acceptable, NoAnswer, Message

\* No step of either thread, of a browser or of another login loses the
\* redirect that was signalled to a login, but for a request that overtakes it.
THEOREM RedirectsAreKept == LoopbackSpec => RedirectIsKept
  <1>. DEFINE Kept(l) == \/ Answered(l)'
                         \/ l \in overtaken'
                         \/ \E e \in exchanged' :
                              e[1] = l /\ e[2] \in OwnCode(l)
  <1>1. ASSUME LoopbackTypeOK, [LoopbackNext]_loopbackVars,
               NEW l \in Logins, Answered(l)
        PROVE  Kept(l)
    <2>. USE DEF LoopbackTypeOK, Answered, Goto, Loop, Advance, serverVars,
           mainVars, loopbackHistory, connVars
    <2>1. ASSUME NEW m \in Logins, StartStep(m)
          PROVE  Kept(l)
      BY <1>1, <2>1 DEF StartStep, StartServer, BindFails, PrintUrl,
        StartFails, PasteUrl
    <2>2. ASSUME NEW m \in Logins, WaitReturns(m) \/ WaitTimesOut(m)
          PROVE  Kept(l)
      BY <1>1, <2>2 DEF WaitReturns, WaitTimesOut
    <2>3. ASSUME NEW m \in Logins, ReadUrl(m)
          PROVE  Kept(l)
      BY <1>1, <2>3 DEF ReadUrl
    <2>4. ASSUME NEW m \in Logins, CloseStep(m)
          PROVE  Kept(l)
      BY <1>1, <2>4 DEF CloseStep, Shutdown, CloseServer
    <2>5. ASSUME NEW m \in Logins, CheckAnswer(m)
          PROVE  Kept(l)
      BY <1>1, <2>5, OwnCodeAccepted DEF CheckAnswer
    <2>6. ASSUME NEW m \in Logins, ExchangeCode(m)
          PROVE  Kept(l)
      <3>1. CASE m = l
        <4>1. <<l, result[l]>> \in exchanged' /\ result[l] \in OwnCode(l)
          BY <1>1, <2>6, <3>1 DEF ExchangeCode
        <4>. QED
          BY <4>1
      <3>2. CASE m # l
        BY <1>1, <2>6, <3>2 DEF ExchangeCode
      <3>. QED
        BY <3>1, <3>2
    <2>7. ASSUME NEW m \in Logins, StopServing(m)
          PROVE  Kept(l)
      BY <1>1, <2>7 DEF StopServing
    <2>8. ASSUME NEW m \in Logins, NEW c \in Conns,
                 AcceptConn(m, c) \/ HandleOther(m, c) \/ SignalMain(m, c)
          PROVE  Kept(l)
      BY <1>1, <2>8 DEF AcceptConn, HandleOther, SignalMain, EndRequest
    <2>9. ASSUME NEW m \in Logins, NEW c \in Conns, HandleGet(m, c)
          PROVE  Kept(l)
      BY <1>1, <2>9 DEF HandleGet, Undecided
    <2>10. ASSUME NEW c \in Conns, Connect(c) \/ Send(c)
           PROVE  Kept(l)
      BY <1>1, <2>10 DEF Connect, Send
    <2>11. CASE UNCHANGED loopbackVars
      BY <1>1, <2>11 DEF loopbackVars
    <2>. QED
      BY <1>1, <2>1, <2>2, <2>3, <2>4, <2>5, <2>6, <2>7, <2>8, <2>9, <2>10,
        <2>11
      DEF LoopbackNext, WaitStep, FinishStep, ServerStep
  <1>2. LoopbackTypeOK /\ [LoopbackNext]_loopbackVars
        => [\A l \in Logins : Answered(l) => Kept(l)]_loopbackVars
    BY <1>1
  <1>. QED
    BY <1>2, LoopbackTypeCorrect, PTL DEF LoopbackSpec, RedirectIsKept
=============================================================================
