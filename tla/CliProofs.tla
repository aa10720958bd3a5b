----------------------------- MODULE CliProofs -----------------------------
(***************************************************************************)
(* Proofs about CliTokens, for any number of commands that overlap, any    *)
(* lifetimes and skew, and any clocks.                                     *)
(***************************************************************************)
EXTENDS CliTokens, TLAPS

\* The access tokens the server has or had, the refresh tokens it has or had
\* reason to drop.
Issued == goneAccess \cup {t.id : t \in access}
Kept == {NoToken} \cup goneRefresh \cup {t.id : t \in refresh}

ProfileRecord ==
  [mode : Modes \cup {"none"}, client : Nat, access : Nat, refresh : Nat,
   expires : SUBSET Int]

CommandRecord ==
  [stage : {"refreshing", "reacquiring", "answered", "saving", "calling"},
   login : BOOLEAN, checked : SUBSET Int, profile : ProfileRecord,
   answer : [access : Nat, refresh : Nat]]

\* A profile's tokens are the server's, and it knows when they expire.
GoodProfile(p, issued, kept) ==
  /\ p \in ProfileRecord
  /\ p.refresh \in kept
  /\ p.access # NoToken => p.access \in issued
                             /\ \E e \in Int : p.expires = {e}

\* The access token was judged good once, with the skew to spare.
Judged(x) ==
  /\ x.profile.access # NoToken
  /\ \E i, e \in Int :
       x.checked = {i} /\ x.profile.expires = {e} /\ e > i + Skew

\* A command about to call has a token the server issued, which it got itself
\* or judged good.
GoodCommand(x, issued, kept) ==
  \/ x = Idle
  \/ /\ x \in CommandRecord
     /\ GoodProfile(x.profile, issued, kept)
     /\ x.stage \in {"refreshing", "reacquiring", "answered"}
          => x.checked = {}
     /\ x.stage = "answered" => /\ x.answer.access \in issued
                                /\ x.answer.refresh \in kept
     /\ x.stage \in {"saving", "calling"}
          => x.profile.access \in issued /\ (x.checked = {} \/ Judged(x))

CliInv ==
  /\ now \in Int
  /\ offset \in Int
  /\ lastHandle \in Nat
  /\ goneAccess \subseteq Nat
  /\ goneRefresh \subseteq Nat
  /\ \A t \in access : t.id \in Nat /\ t.at \in Int /\ t.off \in Int
  /\ \A t \in refresh : t.id \in Nat
  /\ clients \subseteq Nat
  /\ GoodProfile(file, Issued, Kept)
  /\ command = [c \in Commands |-> command[c]]
  /\ \A c \in Commands : GoodCommand(command[c], Issued, Kept)

-----------------------------------------------------------------------------
(* What is good stays good while the server's records only grow *)

LEMMA ProfileStaysGood ==
  ASSUME NEW p, NEW i1, NEW i2, NEW k1, NEW k2,
         GoodProfile(p, i1, k1), i1 \subseteq i2, k1 \subseteq k2
  PROVE  GoodProfile(p, i2, k2)
  BY DEF GoodProfile

LEMMA CommandStaysGood ==
  ASSUME NEW x, NEW i1, NEW i2, NEW k1, NEW k2,
         GoodCommand(x, i1, k1), i1 \subseteq i2, k1 \subseteq k2
  PROVE  GoodCommand(x, i2, k2)
  <1>1. CASE x = Idle
    BY <1>1 DEF GoodCommand
  <1>2. CASE x # Idle
    <2>1. GoodProfile(x.profile, i2, k2)
      BY <1>2, ProfileStaysGood DEF GoodCommand
    <2>. QED
      BY <1>2, <2>1 DEF GoodCommand
  <1>. QED
    BY <1>1, <1>2

\* Nothing the server has issued or kept is lost but to the history.
ServerGrows ==
  /\ Issued \subseteq Issued'
  /\ Kept \subseteq Kept'

ServerTypes ==
  /\ lastHandle' \in Nat
  /\ goneAccess' \subseteq Nat
  /\ goneRefresh' \subseteq Nat
  /\ \A t \in access' : t.id \in Nat /\ t.at \in Int /\ t.off \in Int
  /\ \A t \in refresh' : t.id \in Nat

LEMMA IssueFacts ==
  ASSUME CliInv, IssueAccess, UNCHANGED gone
  PROVE  /\ Issued \subseteq Issued'
         /\ lastHandle + 1 \in Issued'
         /\ lastHandle' \in Nat
         /\ \A t \in access' : t.id \in Nat /\ t.at \in Int /\ t.off \in Int
  <1>1. \A t \in access' :
          \/ t \in access
          \/ t = [id |-> lastHandle + 1, at |-> now, off |-> offset]
    BY DEF IssueAccess
  <1>2. [id |-> lastHandle + 1, at |-> now, off |-> offset] \in access'
    BY DEF IssueAccess
  <1>3. access \subseteq access' /\ lastHandle' = lastHandle + 1
    BY DEF IssueAccess
  <1>4. Issued \subseteq Issued'
    BY <1>3 DEF Issued, gone
  <1>5. \E t \in access' : t.id = lastHandle + 1
    BY <1>2
  <1>6. lastHandle + 1 \in Issued'
    BY <1>5 DEF Issued
  <1>7. ASSUME NEW t \in access'
        PROVE  t.id \in Nat /\ t.at \in Int /\ t.off \in Int
    BY <1>1 DEF CliInv
  <1>. QED
    BY <1>3, <1>4, <1>6, <1>7 DEF CliInv

\* The server's tables after any step.
LEMMA ServerSteps ==
  ASSUME CliInv, [CliNext]_cliVars
  PROVE  ServerGrows /\ ServerTypes
  <1>. USE DEF CliInv, ServerGrows, ServerTypes
  <1>1. CASE UNCHANGED <<access, refresh, lastHandle, gone>>
    BY <1>1 DEF Issued, Kept, gone
  <1>2. ASSUME NEW c \in Commands, NEW mode \in Modes, Login(c, mode)
        PROVE  ServerGrows /\ ServerTypes
    <2>1. IssueAccess /\ UNCHANGED gone
      BY <1>2 DEF Login, IssueTokens
    <2>2. \A t \in refresh' : t \in refresh \/ t.id = lastHandle + 1
      BY <1>2 DEF Login, IssueTokens
    <2>3. refresh \subseteq refresh'
      BY <1>2 DEF Login, IssueTokens
    <2>4. Kept \subseteq Kept'
      BY <2>1, <2>3 DEF Kept, gone
    <2>. QED
      BY <2>1, <2>2, <2>4, IssueFacts DEF gone
  <1>3. ASSUME NEW c \in Commands, HandleRefresh(c)
        PROVE  ServerGrows /\ ServerTypes
    <2>. PICK h : h = command[c].profile.refresh
      OBVIOUS
    <2>1. IssueAccess /\ UNCHANGED gone
      BY <1>3 DEF HandleRefresh
    <2>2. refresh' = {t \in refresh : t.id # h \/ ~(t.exp < ServerTime)}
      BY <1>3 DEF HandleRefresh, RefreshTokensAfterGet
    <2>3. \E t \in refresh : t.id = h /\ ~(t.exp < ServerTime)
      BY <1>3 DEF HandleRefresh, GoodRefresh
    <2>4. \A t \in refresh : \E u \in refresh' : u.id = t.id
      BY <2>2, <2>3
    <2>5. Kept \subseteq Kept'
      BY <2>1, <2>4 DEF Kept, gone
    <2>. QED
      BY <2>1, <2>2, <2>5, IssueFacts DEF gone
  <1>4. ASSUME NEW c \in Commands, RefuseRefresh(c)
        PROVE  ServerGrows /\ ServerTypes
    <2>1. UNCHANGED <<access, lastHandle>>
      BY <1>4 DEF RefuseRefresh
    <2>2. CASE Known(c)
      <3>1. /\ refresh' \subseteq refresh
            /\ goneRefresh' =
                 goneRefresh \cup {t.id : t \in refresh \ refresh'}
            /\ UNCHANGED goneAccess
        BY <1>4, <2>2 DEF RefuseRefresh, RefreshTokensAfterGet
      <3>. QED
        BY <2>1, <3>1 DEF Issued, Kept
    <2>3. CASE ~Known(c)
      BY <1>1, <1>4, <2>1, <2>3 DEF RefuseRefresh, gone
    <2>. QED
      BY <2>2, <2>3
  <1>5. ASSUME NEW c \in Commands, HandleReacquire(c)
        PROVE  ServerGrows /\ ServerTypes
    <2>1. UNCHANGED <<refresh, gone>>
      BY <1>5 DEF HandleReacquire
    <2>2. CASE IssueAccess
      BY <2>1, <2>2, IssueFacts DEF Kept, gone
    <2>3. CASE UNCHANGED <<access, lastHandle>>
      BY <1>1, <2>1, <2>3
    <2>. QED
      BY <1>5, <2>2, <2>3 DEF HandleReacquire
  <1>6. ASSUME NEW c \in Commands, HandleCall(c)
        PROVE  ServerGrows /\ ServerTypes
    <2>1. /\ access' \subseteq access
          /\ goneAccess' = goneAccess \cup {t.id : t \in access \ access'}
          /\ UNCHANGED <<refresh, lastHandle, goneRefresh>>
      BY <1>6 DEF HandleCall
    <2>. QED
      BY <2>1 DEF Issued, Kept
  <1>7. CASE Reset
    BY <1>7 DEF Reset, Issued, Kept
  <1>8. ASSUME NEW c \in Commands,
               StartCall(c) \/ Receive(c) \/ Save(c) \/ BreakOff(c)
        PROVE  ServerGrows /\ ServerTypes
    BY <1>1, <1>8 DEF StartCall, Receive, Save, BreakOff, serverVars
  <1>9. CASE Logout \/ LogoutKeepClient \/ Tick \/ \E o \in Offsets : Drift(o)
    BY <1>1, <1>9 DEF Logout, LogoutKeepClient, Tick, Drift, serverVars
  <1>10. CASE UNCHANGED cliVars
    BY <1>1, <1>10 DEF cliVars, serverVars
  <1>. QED
    BY <1>2, <1>3, <1>4, <1>5, <1>6, <1>7, <1>8, <1>9, <1>10
    DEF CliNext, CommandStep

-----------------------------------------------------------------------------
(* Commands and the file *)

LEMMA ModesFacts == "none" \notin Modes /\ NoProfile \in ProfileRecord
  BY DEF Modes, NoProfile, ProfileRecord, NoToken

\* A token response leaves a good profile with the token of the answer.
LEMMA ResponseGood ==
  ASSUME NEW p, NEW answer \in [access : Nat, refresh : Nat],
         NEW issued, NEW kept, GoodProfile(p, issued, kept), now \in Int,
         answer.access \in issued, answer.refresh \in kept
  PROVE  /\ GoodProfile(SetTokenResponse(p, answer), issued, kept)
         /\ SetTokenResponse(p, answer).access = answer.access
  <1>. PICK q : q = SetTokenResponse(p, answer)
    OBVIOUS
  <1>1. p \in ProfileRecord
    BY DEF GoodProfile
  <1>2. now + AccessTTL \in Int
    BY CliAssumption
  <1>3. q \in ProfileRecord /\ q.access = answer.access
    BY <1>1, <1>2 DEF SetTokenResponse, ProfileRecord
  <1>4. q.refresh \in kept
    BY <1>1 DEF SetTokenResponse, ProfileRecord, GoodProfile
  <1>5. q.expires = {now + AccessTTL}
    BY <1>1 DEF SetTokenResponse, ProfileRecord
  <1>. QED
    BY <1>2, <1>3, <1>4, <1>5 DEF GoodProfile

\* What a step does to the commands and to the file: it leaves them, moves one
\* command on, or writes the file, and what is new is good.
CommandMoves ==
  \/ UNCHANGED command
  \/ \E c \in Commands : \E x :
       /\ command' = [command EXCEPT ![c] = x]
       /\ GoodCommand(x, Issued', Kept')

FileMoves == UNCHANGED file \/ GoodProfile(file', Issued', Kept')

LEMMA LoginMoves ==
  ASSUME CliInv, NEW c \in Commands, NEW mode \in Modes, Login(c, mode)
  PROVE  CommandMoves /\ FileMoves
  <1>. PICK p : p = [NoProfile EXCEPT !.mode = mode,
                                      !.client = lastHandle + 1]
    OBVIOUS
  <1>. PICK a : a = [access |-> lastHandle + 1,
                     refresh |-> IF mode = "client-creds" THEN NoToken
                                 ELSE lastHandle + 1]
    OBVIOUS
  <1>1. /\ IssueAccess
        /\ UNCHANGED <<gone, file>>
        /\ mode # "client-creds" =>
             \E t \in refresh' : t.id = lastHandle + 1
    <2>1. /\ IssueAccess
          /\ UNCHANGED <<gone, file>>
          /\ mode # "client-creds" =>
               [id |-> lastHandle + 1, exp |-> ServerTime + RefreshTTL]
                 \in refresh'
      BY DEF Login, IssueTokens
    <2>. QED
      BY <2>1
  <1>2. lastHandle + 1 \in Issued' /\ lastHandle + 1 \in Nat
    BY <1>1, IssueFacts DEF CliInv
  <1>3. a.refresh \in Kept' /\ a.access = lastHandle + 1
    BY <1>1 DEF Kept, gone
  <1>4. a \in [access : Nat, refresh : Nat]
    BY <1>2 DEF NoToken
  <1>5. /\ p \in ProfileRecord
        /\ p.access = NoToken
        /\ p.refresh = NoToken
    BY <1>2 DEF NoProfile, NoToken, ProfileRecord, Modes
  <1>6. GoodProfile(p, Issued', Kept')
    BY <1>5 DEF GoodProfile, Kept
  <1>. PICK x : x = [stage |-> "answered", login |-> TRUE, checked |-> {},
                     profile |-> p, answer |-> a]
    OBVIOUS
  <1>7. x \in CommandRecord
    BY <1>4, <1>5 DEF CommandRecord
  <1>8. GoodCommand(x, Issued', Kept')
    BY <1>2, <1>3, <1>6, <1>7 DEF GoodCommand
  <1>9. command' = [command EXCEPT ![c] = x]
    BY DEF Login, Goto
  <1>. QED
    BY <1>1, <1>8, <1>9 DEF CommandMoves, FileMoves

LEMMA StartMoves ==
  ASSUME CliInv, NEW c \in Commands, StartCall(c)
  PROVE  CommandMoves /\ FileMoves
  <1>1. UNCHANGED <<gone, access, refresh, file>>
    BY DEF StartCall, serverVars
  <1>2. Issued' = Issued /\ Kept' = Kept
    BY <1>1 DEF Issued, Kept, gone
  <1>3. GoodProfile(file, Issued', Kept')
    BY <1>2 DEF CliInv
  <1>4. NoAnswer \in [access : Nat, refresh : Nat]
    BY DEF NoAnswer, NoToken
  <1>5. ASSUME NEW stage \in {"refreshing", "reacquiring", "saving"},
               NEW checked \in SUBSET Int
        PROVE  /\ Loaded(stage, checked) \in CommandRecord
               /\ Loaded(stage, checked).stage = stage
               /\ Loaded(stage, checked).checked = checked
               /\ Loaded(stage, checked).profile = file
    BY <1>3, <1>4 DEF Loaded, CommandRecord, GoodProfile
  <1>6. ASSUME NEW stage \in {"refreshing", "reacquiring"}
        PROVE  GoodCommand(Loaded(stage, {}), Issued', Kept')
    BY <1>3, <1>5 DEF GoodCommand
  <1>7. ASSUME IsAccessTokenValid(file)
        PROVE  GoodCommand(Loaded("saving", {now}), Issued', Kept')
    <2>. PICK x : x = Loaded("saving", {now})
      OBVIOUS
    <2>1. now \in Int
      BY DEF CliInv
    <2>2. /\ x \in CommandRecord
          /\ x.stage = "saving"
          /\ x.checked = {now}
          /\ x.profile = file
      BY <1>5, <2>1
    <2>3. file.access # NoToken /\ \A e \in file.expires : e > now + Skew
      BY <1>7 DEF IsAccessTokenValid
    <2>4. file.access \in Issued' /\ \E e \in Int : file.expires = {e}
      BY <1>3, <2>3 DEF GoodProfile
    <2>5. PICK e \in Int : file.expires = {e}
      BY <2>4
    <2>6. e > now + Skew
      BY <2>3, <2>5
    <2>7. Judged(x)
      BY <2>1, <2>2, <2>3, <2>5, <2>6 DEF Judged
    <2>. QED
      BY <1>3, <2>2, <2>4, <2>7 DEF GoodCommand
  <1>8. \/ command' = [command EXCEPT ![c] = Loaded("refreshing", {})]
        \/ command' = [command EXCEPT ![c] = Loaded("reacquiring", {})]
        \/ /\ IsAccessTokenValid(file)
           /\ command' = [command EXCEPT ![c] = Loaded("saving", {now})]
    BY DEF StartCall, Goto
  <1>. QED
    BY <1>1, <1>6, <1>7, <1>8 DEF CommandMoves, FileMoves

\* An answer with a new access token, by refresh or anew.
LEMMA AnswerMoves ==
  ASSUME CliInv, NEW c \in Commands, Answered(c), IssueAccess,
         UNCHANGED <<gone, file>>, ServerGrows, command[c] # Idle,
         command[c].stage \in {"refreshing", "reacquiring"}
  PROVE  CommandMoves /\ FileMoves
  <1>. PICK y : y = command[c]
    OBVIOUS
  <1>. PICK a : a = [access  |-> lastHandle + 1,
                     refresh |-> y.profile.refresh]
    OBVIOUS
  <1>. PICK x : x = [y EXCEPT !.stage = "answered", !.answer = a]
    OBVIOUS
  <1>1. GoodCommand(y, Issued', Kept')
    BY CommandStaysGood DEF CliInv, ServerGrows
  <1>2. /\ y \in CommandRecord
        /\ y.checked = {}
        /\ GoodProfile(y.profile, Issued', Kept')
    BY <1>1 DEF GoodCommand
  <1>3. lastHandle + 1 \in Issued' /\ lastHandle + 1 \in Nat
    BY IssueFacts DEF CliInv
  <1>4. /\ a \in [access : Nat, refresh : Nat]
        /\ a.access \in Issued'
        /\ a.refresh \in Kept'
    BY <1>2, <1>3 DEF GoodProfile, ProfileRecord
  <1>5. /\ x \in CommandRecord
        /\ x.stage = "answered"
        /\ x.checked = {}
        /\ x.profile = y.profile
        /\ x.answer = a
    BY <1>2, <1>4 DEF CommandRecord
  <1>6. GoodCommand(x, Issued', Kept')
    BY <1>2, <1>4, <1>5 DEF GoodCommand
  <1>7. command' = [command EXCEPT ![c] = x]
    BY DEF Answered, Goto
  <1>. QED
    BY <1>6, <1>7 DEF CommandMoves, FileMoves

LEMMA ReceiveMoves ==
  ASSUME CliInv, NEW c \in Commands, Receive(c), ServerGrows
  PROVE  CommandMoves /\ FileMoves
  <1>. PICK y : y = command[c]
    OBVIOUS
  <1>. PICK q : q = SetTokenResponse(y.profile, y.answer)
    OBVIOUS
  <1>. PICK x : x = [y EXCEPT !.stage = "saving", !.profile = q]
    OBVIOUS
  <1>1. y.stage = "answered" /\ y # Idle
    BY DEF Receive, Idle
  <1>2. GoodCommand(y, Issued', Kept')
    BY CommandStaysGood DEF CliInv, ServerGrows
  <1>3. /\ y \in CommandRecord
        /\ y.checked = {}
        /\ GoodProfile(y.profile, Issued', Kept')
        /\ y.answer \in [access : Nat, refresh : Nat]
        /\ y.answer.access \in Issued'
        /\ y.answer.refresh \in Kept'
    BY <1>1, <1>2 DEF GoodCommand, CommandRecord
  <1>4. GoodProfile(q, Issued', Kept') /\ q.access = y.answer.access
    BY <1>3, ResponseGood DEF CliInv
  <1>5. /\ x \in CommandRecord
        /\ x.stage = "saving"
        /\ x.checked = {}
        /\ x.profile = q
    BY <1>3, <1>4 DEF CommandRecord, GoodProfile
  <1>6. GoodCommand(x, Issued', Kept')
    BY <1>3, <1>4, <1>5 DEF GoodCommand
  <1>7. command' = [command EXCEPT ![c] = x] /\ UNCHANGED file
    BY DEF Receive, Goto
  <1>. QED
    BY <1>6, <1>7 DEF CommandMoves, FileMoves

LEMMA SaveMoves ==
  ASSUME CliInv, NEW c \in Commands, Save(c), ServerGrows
  PROVE  CommandMoves /\ FileMoves
  <1>. PICK y : y = command[c]
    OBVIOUS
  <1>. PICK x : x = [y EXCEPT !.stage = "calling"]
    OBVIOUS
  <1>1. y.stage = "saving" /\ y # Idle
    BY DEF Save, Idle
  <1>2. GoodCommand(y, Issued', Kept')
    BY CommandStaysGood DEF CliInv, ServerGrows
  <1>3. /\ y \in CommandRecord
        /\ GoodProfile(y.profile, Issued', Kept')
        /\ y.profile.access \in Issued'
        /\ y.checked = {} \/ Judged(y)
    BY <1>1, <1>2 DEF GoodCommand
  <1>4. /\ x \in CommandRecord
        /\ x.stage = "calling"
        /\ x.checked = y.checked
        /\ x.profile = y.profile
    BY <1>3 DEF CommandRecord
  <1>5. GoodCommand(x, Issued', Kept')
    BY <1>3, <1>4 DEF GoodCommand, Judged
  <1>6. GoodCommand(Idle, Issued', Kept')
    BY DEF GoodCommand
  <1>7. /\ file' = y.profile
        /\ \/ command' = [command EXCEPT ![c] = Idle]
           \/ command' = [command EXCEPT ![c] = x]
    BY DEF Save, Goto
  <1>8. FileMoves
    BY <1>3, <1>7 DEF FileMoves
  <1>. QED
    BY <1>5, <1>6, <1>7, <1>8 DEF CommandMoves

\* Every step moves commands and the file as above.
LEMMA StepMoves ==
  ASSUME CliInv, [CliNext]_cliVars, ServerGrows
  PROVE  CommandMoves /\ FileMoves
  <1>0. GoodCommand(Idle, Issued', Kept')
    BY DEF GoodCommand
  <1>1. ASSUME NEW c \in Commands, command' = [command EXCEPT ![c] = Idle],
               UNCHANGED file
        PROVE  CommandMoves /\ FileMoves
    BY <1>0, <1>1 DEF CommandMoves, FileMoves
  <1>2. ASSUME NEW c \in Commands, CommandStep(c)
        PROVE  CommandMoves /\ FileMoves
    <2>1. ASSUME NEW mode \in Modes, Login(c, mode)
          PROVE  CommandMoves /\ FileMoves
      BY <2>1, LoginMoves
    <2>2. CASE StartCall(c)
      BY <2>2, StartMoves
    <2>3. CASE HandleRefresh(c)
      <3>1. /\ Answered(c)
            /\ IssueAccess
            /\ UNCHANGED <<gone, file>>
            /\ command[c].stage \in {"refreshing", "reacquiring"}
        BY <2>3 DEF HandleRefresh
      <3>. QED
        BY <3>1, AnswerMoves DEF Idle
    <2>4. CASE RefuseRefresh(c)
      BY <1>1, <2>4 DEF RefuseRefresh, Goto
    <2>5. CASE HandleReacquire(c)
      <3>1. /\ UNCHANGED <<gone, file>>
            /\ command[c].stage \in {"refreshing", "reacquiring"}
            /\ \/ Answered(c) /\ IssueAccess
               \/ command' = [command EXCEPT ![c] = Idle]
        BY <2>5 DEF HandleReacquire, Goto
      <3>. QED
        BY <1>1, <3>1, AnswerMoves DEF Idle
    <2>6. CASE Receive(c)
      BY <2>6, ReceiveMoves
    <2>7. CASE Save(c)
      BY <2>7, SaveMoves
    <2>8. CASE HandleCall(c) \/ BreakOff(c)
      BY <1>1, <2>8 DEF HandleCall, BreakOff, Goto
    <2>. QED
      BY <1>2, <2>1, <2>2, <2>3, <2>4, <2>5, <2>6, <2>7, <2>8
      DEF CommandStep
  <1>3. CASE Logout
    <2>1. GoodProfile(NoProfile, Issued', Kept')
      BY ModesFacts DEF GoodProfile, NoProfile, Kept
    <2>. QED
      BY <1>3, <2>1 DEF Logout, CommandMoves, FileMoves
  <1>4. CASE LogoutKeepClient
    <2>. PICK p : p = [NoProfile EXCEPT !.mode = file.mode,
                                        !.client = file.client]
      OBVIOUS
    <2>1. file \in ProfileRecord
      BY DEF CliInv, GoodProfile
    <2>2. /\ p \in ProfileRecord
          /\ p.access = NoToken
          /\ p.refresh = NoToken
      BY <2>1 DEF NoProfile, NoToken, ProfileRecord
    <2>3. GoodProfile(p, Issued', Kept')
      BY <2>2 DEF GoodProfile, Kept
    <2>. QED
      BY <1>4, <2>3 DEF LogoutKeepClient, CommandMoves, FileMoves
  <1>5. CASE Tick \/ (\E o \in Offsets : Drift(o)) \/ Reset
    BY <1>5 DEF Tick, Drift, Reset, CommandMoves, FileMoves
  <1>6. CASE UNCHANGED cliVars
    BY <1>6 DEF cliVars, CommandMoves, FileMoves
  <1>. QED
    BY <1>2, <1>3, <1>4, <1>5, <1>6 DEF CliNext

-----------------------------------------------------------------------------
(* The invariant *)

LEMMA InitInv == CliInit => CliInv
  <1>. SUFFICES ASSUME CliInit PROVE CliInv
    OBVIOUS
  <1>1. GoodProfile(NoProfile, Issued, Kept)
    BY ModesFacts DEF GoodProfile, NoProfile, Kept
  <1>2. GoodCommand(Idle, Issued, Kept)
    BY DEF GoodCommand
  <1>3. offset \in Int
    BY CliAssumption DEF CliInit
  <1>4. command = [c \in Commands |-> command[c]]
    BY DEF CliInit
  <1>5. \A c \in Commands : GoodCommand(command[c], Issued, Kept)
    BY <1>2 DEF CliInit
  <1>. QED
    BY <1>1, <1>3, <1>4, <1>5 DEF CliInit, CliInv

LEMMA ClockSteps ==
  ASSUME CliInv, [CliNext]_cliVars
  PROVE  now' \in Int /\ offset' \in Int /\ clients' \subseteq Nat
  <1>. USE DEF CliInv
  <1>1. ASSUME UNCHANGED <<now, offset, clients>>
        PROVE  now' \in Int /\ offset' \in Int /\ clients' \subseteq Nat
    BY <1>1
  <1>2. ASSUME NEW c \in Commands, CommandStep(c)
        PROVE  now' \in Int /\ offset' \in Int /\ clients' \subseteq Nat
    <2>1. ASSUME NEW mode \in Modes, Login(c, mode)
          PROVE  now' \in Int /\ offset' \in Int /\ clients' \subseteq Nat
      BY <2>1 DEF Login
    <2>2. CASE \/ StartCall(c) \/ Receive(c) \/ Save(c) \/ BreakOff(c)
      BY <1>1, <2>2 DEF StartCall, Receive, Save, BreakOff, serverVars
    <2>3. CASE \/ HandleRefresh(c) \/ RefuseRefresh(c)
               \/ HandleReacquire(c) \/ HandleCall(c)
      BY <1>1, <2>3
      DEF HandleRefresh, RefuseRefresh, HandleReacquire, HandleCall
    <2>. QED
      BY <1>2, <2>1, <2>2, <2>3 DEF CommandStep
  <1>3. CASE Logout \/ LogoutKeepClient
    BY <1>1, <1>3 DEF Logout, LogoutKeepClient, serverVars
  <1>4. CASE Tick
    BY <1>4 DEF Tick, serverVars
  <1>5. ASSUME NEW o \in Offsets, Drift(o)
        PROVE  now' \in Int /\ offset' \in Int /\ clients' \subseteq Nat
    BY <1>5, CliAssumption DEF Drift, serverVars
  <1>6. CASE Reset
    BY <1>6 DEF Reset
  <1>7. CASE UNCHANGED cliVars
    BY <1>1, <1>7 DEF cliVars, serverVars
  <1>. QED
    BY <1>2, <1>3, <1>4, <1>5, <1>6, <1>7 DEF CliNext

LEMMA StepInv == CliInv /\ [CliNext]_cliVars => CliInv'
  <1>. SUFFICES ASSUME CliInv, [CliNext]_cliVars PROVE CliInv'
    OBVIOUS
  <1>1. ServerGrows /\ ServerTypes
    BY ServerSteps
  <1>2. CommandMoves /\ FileMoves
    BY <1>1, StepMoves
  <1>3. now' \in Int /\ offset' \in Int /\ clients' \subseteq Nat
    BY <1>1, ClockSteps DEF CliInv, ServerTypes
  <1>4. GoodProfile(file', Issued', Kept')
    BY <1>1, <1>2, ProfileStaysGood DEF CliInv, ServerGrows, FileMoves
  <1>5. /\ command' = [c \in Commands |-> command'[c]]
        /\ \A c \in Commands : GoodCommand(command'[c], Issued', Kept')
    <2>1. CASE UNCHANGED command
      BY <1>1, <2>1, CommandStaysGood DEF CliInv, ServerGrows
    <2>2. ASSUME NEW c \in Commands, NEW x,
                 command' = [command EXCEPT ![c] = x],
                 GoodCommand(x, Issued', Kept')
          PROVE  /\ command' = [d \in Commands |-> command'[d]]
                 /\ \A d \in Commands :
                      GoodCommand(command'[d], Issued', Kept')
      <3>1. /\ command' = [d \in Commands |-> command'[d]]
            /\ \A d \in Commands :
                 command'[d] = IF d = c THEN x ELSE command[d]
        BY <2>2 DEF CliInv
      <3>2. \A d \in Commands : GoodCommand(command[d], Issued', Kept')
        BY <1>1, CommandStaysGood DEF CliInv, ServerGrows
      <3>. QED
        BY <2>2, <3>1, <3>2
    <2>. QED
      BY <1>2, <2>1, <2>2 DEF CommandMoves
  <1>. QED
    BY <1>1, <1>3, <1>4, <1>5 DEF CliInv, ServerTypes

LEMMA AlwaysInv == CliSpec => []CliInv
  BY InitInv, StepInv, PTL DEF CliSpec

-----------------------------------------------------------------------------
(* What it implies *)

LEMMA RefreshTokenImplied == CliInv => RefreshTokenSurvives
  <1>. SUFFICES ASSUME CliInv, NEW p \in Profiles
       PROVE  \/ p.refresh \in {NoToken} \cup goneRefresh
              \/ \E t \in refresh : t.id = p.refresh
    BY DEF RefreshTokenSurvives
  <1>1. p.refresh \in Kept
    <2>1. CASE p = file
      BY <2>1 DEF CliInv, GoodProfile
    <2>2. ASSUME NEW c \in Commands, command[c].stage # "idle",
                 p = command[c].profile
          PROVE  p.refresh \in Kept
      BY <2>2 DEF CliInv, GoodCommand, GoodProfile, Idle
    <2>. QED
      BY <2>1, <2>2 DEF Profiles
  <1>. QED
    BY <1>1 DEF Kept

LEMMA CallImplied == CliInv => CallsInTime
  <1>. SUFFICES ASSUME CliInv, NEW c \in Commands,
                       command[c].stage = "calling",
                       ~GoodAccess(command[c].profile.access),
                       command[c].profile.access \notin goneAccess
       PROVE  \E t \in access :
                /\ t.id = command[c].profile.access
                /\ Lost(command[c], t) >
                     (IF command[c].checked = {} THEN AccessTTL ELSE Skew)
    BY DEF CallsInTime
  <1>. PICK x : x = command[c]
    OBVIOUS
  <1>1. /\ x.profile.access \in Issued
        /\ x.checked = {} \/ Judged(x)
    BY DEF CliInv, GoodCommand, Idle
  <1>2. PICK t \in access : t.id = x.profile.access
    BY <1>1 DEF Issued
  <1>3. /\ t.at \in Int /\ t.off \in Int
        /\ now \in Int /\ offset \in Int
        /\ AccessTTL \in Int /\ Skew \in Int
    BY CliAssumption DEF CliInv
  <1>4. t.at + t.off + AccessTTL < now + offset
    BY <1>2 DEF GoodAccess, ExpiresAt, ServerTime
  <1>5. CASE x.checked = {}
    <2>1. Lost(x, t) = now - t.at + offset - t.off
      BY <1>5 DEF Lost
    <2>2. Lost(x, t) > AccessTTL
      BY <1>3, <1>4, <2>1
    <2>. QED
      BY <1>2, <1>5, <2>2
  <1>6. CASE x.checked # {}
    <2>1. PICK i \in Int, e \in Int :
            x.checked = {i} /\ x.profile.expires = {e} /\ e > i + Skew
      BY <1>1, <1>6 DEF Judged
    <2>2. /\ (CHOOSE d \in {e} : TRUE) = e
          /\ (CHOOSE j \in {i} : TRUE) = i
      OBVIOUS
    <2>3. Lost(x, t) = (now - i) + (e - AccessTTL - t.at) + (offset - t.off)
      BY <1>6, <2>1, <2>2 DEF Lost
    <2>4. Lost(x, t) > Skew
      BY <1>3, <1>4, <2>1, <2>3
    <2>. QED
      BY <1>2, <1>6, <2>4
  <1>. QED
    BY <1>5, <1>6

\* However many commands overlap, are killed or lose an answer, the refresh
\* token of a profile outlives them.
THEOREM RefreshTokensSurvive == CliSpec => []RefreshTokenSurvives
  BY AlwaysInv, RefreshTokenImplied, PTL

\* The skew pays for all that time, lost answers and clocks that drift can
\* take from a token before a call with it comes too late.
THEOREM CallsComeInTime == CliSpec => []CallsInTime
  BY AlwaysInv, CallImplied, PTL
=============================================================================
