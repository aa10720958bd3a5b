--------------------------- MODULE ProfileProofs ---------------------------
(***************************************************************************)
(* Proofs about ProfileStore for every value of its constants, as long as  *)
(* commands that change profiles wait for each other.                      *)
(***************************************************************************)
EXTENDS ProfileStore, TLAPS

NoCommand == Command("show", "none", "none")

Writing == {"opening", "writing", "renaming"}
Ending == {"loading"} \cup Writing
Steps == {"idle", "asking", "fetching"} \cup Ending

ProfileTypeOK ==
  /\ pc \in [Procs -> Steps]
  /\ cmd \in [Procs -> Commands \cup {NoCommand}]
  /\ profile \in [Procs -> [id : Profiles \cup {"none"}, tokens : Tokens]]
  /\ data = [p \in Procs |-> data[p]]
  /\ fd \in [Procs -> {"closed", "tmp"}]
  /\ disk = [path |-> disk.path, tmp |-> disk.tmp]
  /\ drawn \subseteq Profiles
  /\ gone \subseteq drawn

\* What the three properties of the file ask of its content, and what the next
\* command to change it relies on.
GoodFile(content) ==
  /\ content.state \in {"whole", "missing"}
  /\ DOMAIN content.profiles \subseteq drawn \ gone
  /\ \A id \in DOMAIN content.profiles : content.profiles[id] \in Tokens
  /\ \A r \in DOMAIN content.active :
       content.active[r] \in DOMAIN content.profiles

\* The profile of a command that is about to change the file is one the change
\* may be made for.
Chosen(p) ==
  pc[p] \in Ending =>
    /\ cmd[p].kind # "show"
    /\ profile[p].id \in drawn
    /\ cmd[p].kind \in {"login", "call", "keep"} => profile[p].id \notin gone
    /\ cmd[p].kind = "use" => profile[p].id \in DOMAIN File.profiles

\* What it has loaded is still what the file holds, and the temporary file has
\* what it has written so far.
Loaded(p) ==
  /\ pc[p] \in Writing => data[p] = Changed(cmd[p], profile[p], File)
  /\ fd[p] = IF pc[p] = "writing" THEN "tmp" ELSE "closed"
  /\ pc[p] = "writing" => disk.tmp = Blank
  /\ pc[p] = "renaming" => disk.tmp = data[p]

Alone == \A p, o \in Procs : Changing(p) /\ Changing(o) => p = o

ProfileInv ==
  /\ ProfileTypeOK
  /\ GoodFile(disk.path)
  /\ Alone
  /\ \A p \in Procs : Chosen(p) /\ Loaded(p)

LEMMA CommandParts ==
  ASSUME NEW c \in Commands \cup {NoCommand}
  PROVE  /\ c.kind \in {"show", "login", "call", "logout", "keep", "use",
                        "delete"}
         /\ c.id \in Profiles \cup {"none"}
         /\ c.kind = "delete" => c.id \in Profiles
         /\ c.kind = "use" => c.resource \in Resources
         /\ c \in ByResource => c.kind # "use" /\ c.kind # "delete"
  BY DEF Commands, ByResource, ByProfile, Command, NoCommand

LEMMA InitInv == ProfileInit => ProfileInv
  <1>. SUFFICES ASSUME ProfileInit PROVE ProfileInv
    OBVIOUS
  <1>1. ProfileTypeOK
    BY DEF ProfileInit, ProfileTypeOK, Steps, NoCommand, NoProfile, Profile,
      Tokens
  <1>2. GoodFile(disk.path)
    BY DEF ProfileInit, GoodFile, Missing, Content, Nothing
  <1>3. Alone
    BY DEF ProfileInit, Alone, Changing
  <1>4. \A p \in Procs : Chosen(p) /\ Loaded(p)
    BY DEF ProfileInit, Chosen, Loaded, Ending, Writing
  <1>. QED
    BY <1>1, <1>2, <1>3, <1>4 DEF ProfileInv

-----------------------------------------------------------------------------
(* What a step leaves alone *)

\* Only the process that takes the step moves.
Own(p) ==
  \A o \in Procs \ {p} :
    /\ pc'[o] = pc[o] /\ cmd'[o] = cmd[o] /\ profile'[o] = profile[o]
    /\ data'[o] = data[o] /\ fd'[o] = fd[o]

LEMMA OthersStay ==
  ASSUME ProfileInv, NEW p \in Procs, Own(p),
         drawn \subseteq drawn',
         (UNCHANGED <<disk, gone>>) \/ Changing(p),
         NEW o \in Procs \ {p}
  PROVE  Chosen(o)' /\ Loaded(o)'
  <1>1. CASE UNCHANGED <<disk, gone>>
    <2>1. File' = File
      BY <1>1 DEF File
    <2>2. Chosen(o)'
      BY <1>1, <2>1 DEF Own, Chosen, ProfileInv
    <2>3. Loaded(o)'
      BY <1>1, <2>1 DEF Own, Loaded, ProfileInv
    <2>. QED
      BY <2>2, <2>3
  <1>2. CASE Changing(p)
    <2>1. ~Changing(o)
      BY <1>2 DEF ProfileInv, Alone
    <2>2. pc[o] \notin Ending
      BY <2>1 DEF ProfileInv, Chosen, Changing, Ending, Writing
    <2>3. fd[o] = "closed"
      BY <2>2 DEF ProfileInv, Loaded, Ending, Writing
    <2>. QED
      BY <2>2, <2>3 DEF Own, Chosen, Loaded, Ending, Writing
  <1>. QED
    BY <1>1, <1>2

\* A step that is not the first of its command makes no new one that changes
\* the file.
LEMMA AloneStays ==
  ASSUME ProfileInv, NEW p \in Procs, Own(p), Changing(p)' => Changing(p)
  PROVE  Alone'
  <1>1. \A o \in Procs : Changing(o)' => Changing(o)
    BY DEF Own, Changing
  <1>. QED
    BY <1>1 DEF ProfileInv, Alone

LEMMA FileStays ==
  ASSUME ProfileInv, UNCHANGED <<disk, gone>>, drawn \subseteq drawn'
  PROVE  GoodFile(disk.path)'
  BY DEF ProfileInv, GoodFile

\* A process that has ended asks for nothing.
LEMMA IdleIsFine ==
  ASSUME NEW p \in Procs, pc'[p] = "idle", fd'[p] = "closed"
  PROVE  Chosen(p)' /\ Loaded(p)'
  BY DEF Chosen, Loaded, Ending, Writing

-----------------------------------------------------------------------------
(* Each step preserves the invariant *)

LEMMA RunPreserves ==
  ASSUME ProfileInv, OneAtATime, NEW p \in Procs, NEW c \in Commands,
         Run(p, c)
  PROVE  ProfileInv'
  <1>. USE DEF ProfileInv
  <1>a. pc'[p] = (CASE c.kind = "delete" -> "loading"
                    [] c \in ByResource  -> "asking"
                    [] OTHER             -> "fetching")
    BY DEF Run, Goto, ProfileTypeOK
  <1>b. /\ pc[p] = "idle" /\ cmd'[p] = c
        /\ profile'[p] = Profile(c.id, "none")
        /\ UNCHANGED <<data, disk, fd, drawn, gone>>
    BY DEF Run, ProfileTypeOK
  <1>c. pc'[p] \in {"loading", "asking", "fetching"}
    BY <1>a
  <1>d. pc'[p] = "loading" => c.kind = "delete"
    BY <1>a
  <1>e. Own(p)
    BY <1>b DEF Run, Goto, Own, ProfileTypeOK
  <1>1. ProfileTypeOK'
    <2>1. pc' \in [Procs -> Steps]
      BY <1>c DEF Run, Goto, ProfileTypeOK, Steps, Ending
    <2>2. cmd' \in [Procs -> Commands \cup {NoCommand}]
      BY DEF Run, ProfileTypeOK
    <2>3. Profile(c.id, "none") \in [id : Profiles \cup {"none"},
                                     tokens : Tokens]
      BY CommandParts DEF Profile, Tokens
    <2>4. profile' \in [Procs -> [id : Profiles \cup {"none"},
                                  tokens : Tokens]]
      BY <2>3 DEF Run, ProfileTypeOK
    <2>. QED
      BY <2>1, <2>2, <2>4, <1>b DEF ProfileTypeOK
  <1>2. GoodFile(disk.path)'
    BY <1>b, FileStays
  <1>3. Alone'
    <2>1. CASE c.kind = "show"
      <3>1. ~Changing(p)'
        BY <1>b, <2>1 DEF Changing
      <3>. QED
        BY <3>1, <1>e, AloneStays
    <2>2. CASE c.kind # "show"
      <3>1. \A o \in Procs : ~Changing(o)
        BY <2>2 DEF Run
      <3>. QED
        BY <3>1, <1>e DEF Own, Alone, Changing
    <2>. QED
      BY <2>1, <2>2
  <1>4. Chosen(p)'
    <2>1. SUFFICES ASSUME pc'[p] \in Ending
                   PROVE  c.kind = "delete" /\ c.id \in drawn
      BY <1>b DEF Chosen, Profile
    <2>2. c.kind = "delete"
      BY <2>1, <1>c, <1>d DEF Ending, Writing
    <2>3. c.id \in DOMAIN File.profiles \cup gone \cup {"none"}
      BY DEF Run
    <2>4. c.id # "none"
      BY <2>2, CommandParts, ProfileAssumption
    <2>. QED
      BY <2>2, <2>3, <2>4 DEF GoodFile, ProfileTypeOK, File
  <1>5. Loaded(p)'
    <2>1. Loaded(p) /\ fd'[p] = "closed"
      BY <1>b DEF Loaded
    <2>. QED
      BY <2>1, <1>c DEF Loaded, Writing
  <1>6. \A o \in Procs \ {p} : Chosen(o)' /\ Loaded(o)'
    BY <1>b, <1>e, OthersStay
  <1>. QED
    BY <1>1, <1>2, <1>3, <1>4, <1>5, <1>6

\* Ask and Fetch: the command may get a profile, new or found in the file.
LEMMA LookupPreserves ==
  ASSUME ProfileInv, NEW p \in Procs,
         pc[p] \in {"asking", "fetching"},
         NEW step \in {"fetching", "loading"}, Goto(p, step),
         NEW q \in [id : Profiles \cup {"none"}, tokens : Tokens],
         profile' = [profile EXCEPT ![p] = q],
         drawn \subseteq drawn', drawn' \subseteq Profiles,
         step = "loading" =>
           /\ cmd[p].kind # "show"
           /\ q.id \in drawn' \ gone
           /\ cmd[p].kind # "login" => q.id \in DOMAIN File.profiles,
         UNCHANGED <<cmd, data, disk, fd, gone>>
  PROVE  ProfileInv'
  <1>. USE DEF ProfileInv
  <1>a. pc'[p] = step /\ profile'[p] = q
    BY DEF Goto, ProfileTypeOK
  <1>b. Own(p)
    BY DEF Goto, Own, ProfileTypeOK
  <1>1. ProfileTypeOK'
    BY DEF Goto, ProfileTypeOK, Steps, Ending
  <1>2. GoodFile(disk.path)'
    BY FileStays
  <1>3. Alone'
    BY <1>b, AloneStays DEF Changing
  <1>4. Chosen(p)'
    <2>1. File' = File
      BY DEF File
    <2>. QED
      BY <1>a, <2>1 DEF Chosen, Ending, Writing
  <1>5. Loaded(p)'
    <2>1. fd'[p] = "closed"
      BY DEF Loaded
    <2>. QED
      BY <1>a, <2>1 DEF Loaded, Writing
  <1>6. \A o \in Procs \ {p} : Chosen(o)' /\ Loaded(o)'
    BY <1>b, OthersStay
  <1>. QED
    BY <1>1, <1>2, <1>3, <1>4, <1>5, <1>6

LEMMA AskPreserves ==
  ASSUME ProfileInv, NEW p \in Procs, Ask(p)
  PROVE  ProfileInv'
  <1>1. CASE /\ cmd[p].resource \in DOMAIN File.active
             /\ Goto(p, "fetching")
             /\ profile' = [profile EXCEPT ![p] =
                              Profile(File.active[cmd[p].resource], "none")]
             /\ UNCHANGED drawn
    <2>1. File.active[cmd[p].resource] \in Profiles
      BY <1>1 DEF ProfileInv, GoodFile, File, ProfileTypeOK
    <2>2. Profile(File.active[cmd[p].resource], "none")
            \in [id : Profiles \cup {"none"}, tokens : Tokens]
      BY <2>1 DEF Profile, Tokens
    <2>. QED
      BY <1>1, <2>2, LookupPreserves DEF Ask, ProfileInv, ProfileTypeOK
  <1>2. ASSUME NEW id \in Profiles \ drawn, cmd[p].kind = "login",
               profile' = [profile EXCEPT ![p] = Profile(id, "first")],
               drawn' = drawn \cup {id},
               Goto(p, "loading")
        PROVE  ProfileInv'
    <2>1. Profile(id, "first") \in [id : Profiles \cup {"none"},
                                    tokens : Tokens]
      BY DEF Profile, Tokens
    <2>2. id \in drawn' \ gone /\ Profile(id, "first").id = id
      BY <1>2 DEF ProfileInv, ProfileTypeOK, Profile
    <2>3. drawn \subseteq drawn' /\ drawn' \subseteq Profiles
      BY <1>2 DEF ProfileInv, ProfileTypeOK
    <2>. QED
      BY <1>2, <2>1, <2>2, <2>3, LookupPreserves DEF Ask
  <1>. QED
    BY <1>1, <1>2 DEF Ask

LEMMA FetchPreserves ==
  ASSUME ProfileInv, NEW p \in Procs, Fetch(p)
  PROVE  ProfileInv'
  <1>1. ASSUME NEW id \in Profiles \ drawn, cmd[p].kind = "login",
               profile' = [profile EXCEPT ![p] = Profile(id, "first")],
               drawn' = drawn \cup {id}
        PROVE  ProfileInv'
    <2>1. Profile(id, "first") \in [id : Profiles \cup {"none"},
                                    tokens : Tokens]
      BY DEF Profile, Tokens
    <2>2. id \in drawn' \ gone /\ Profile(id, "first").id = id
      BY <1>1 DEF ProfileInv, ProfileTypeOK, Profile
    <2>3. drawn \subseteq drawn' /\ drawn' \subseteq Profiles
      BY <1>1 DEF ProfileInv, ProfileTypeOK
    <2>. QED
      BY <1>1, <2>1, <2>2, <2>3, LookupPreserves DEF Fetch
  <1>2. ASSUME profile[p].id \in DOMAIN File.profiles, UNCHANGED drawn,
               NEW t \in CASE cmd[p].kind = "call" ->
                                {File.profiles[profile[p].id], "renewed"}
                           [] cmd[p].kind = "keep" -> {"none"}
                           [] OTHER -> {File.profiles[profile[p].id]},
               profile' = [profile EXCEPT ![p] = Profile(profile[p].id, t)]
        PROVE  ProfileInv'
    <2>1. /\ File.profiles[profile[p].id] \in Tokens
          /\ profile[p].id \in drawn \ gone
          /\ drawn \subseteq Profiles
      BY <1>2 DEF ProfileInv, ProfileTypeOK, GoodFile, File
    <2>2. t \in Tokens
      BY <1>2, <2>1 DEF Tokens
    <2>3. Profile(profile[p].id, t) \in [id : Profiles \cup {"none"},
                                         tokens : Tokens]
      BY <2>1, <2>2 DEF Profile
    <2>4. Profile(profile[p].id, t).id = profile[p].id
      BY DEF Profile
    <2>. QED
      BY <1>2, <2>1, <2>3, <2>4, LookupPreserves DEF Fetch
  <1>. QED
    BY <1>1, <1>2 DEF Fetch

LEMMA LoadPreserves ==
  ASSUME ProfileInv, NEW p \in Procs, Load(p)
  PROVE  ProfileInv'
  <1>. USE DEF ProfileInv
  <1>a. /\ pc[p] = "loading" /\ pc'[p] = "opening"
        /\ data'[p] = Changed(cmd[p], profile[p], File)
        /\ UNCHANGED <<cmd, profile, disk, fd, drawn, gone>>
    BY DEF Load, Goto, ProfileTypeOK
  <1>b. Own(p)
    BY DEF Load, Goto, Own, ProfileTypeOK
  <1>c. File' = File
    BY <1>a DEF File
  <1>1. ProfileTypeOK'
    <2>1. pc' \in [Procs -> Steps]
      BY DEF Load, Goto, ProfileTypeOK, Steps, Ending, Writing
    <2>2. data' = [o \in Procs |-> data'[o]]
      BY DEF Load, ProfileTypeOK
    <2>. QED
      BY <1>a, <2>1, <2>2 DEF ProfileTypeOK
  <1>2. GoodFile(disk.path)'
    BY <1>a, FileStays
  <1>3. Alone'
    BY <1>a, <1>b, AloneStays DEF Changing
  <1>4. Chosen(p)'
    BY <1>a, <1>c DEF Chosen, Ending, Writing
  <1>5. Loaded(p)'
    BY <1>a, <1>c DEF Loaded, Writing
  <1>6. \A o \in Procs \ {p} : Chosen(o)' /\ Loaded(o)'
    BY <1>a, <1>b, OthersStay
  <1>. QED
    BY <1>1, <1>2, <1>3, <1>4, <1>5, <1>6

\* Open and Write: the command has written some more of the temporary file.
LEMMA WritingPreserves ==
  ASSUME ProfileInv, NEW p \in Procs, pc[p] \in Writing,
         NEW step \in {"writing", "renaming"}, Goto(p, step),
         NEW content, disk' = [disk EXCEPT !.tmp = content],
         fd' = [fd EXCEPT ![p] = IF step = "writing" THEN "tmp"
                                 ELSE "closed"],
         content = IF step = "writing" THEN Blank ELSE data[p],
         UNCHANGED <<cmd, profile, data, drawn, gone>>
  PROVE  ProfileInv'
  <1>. USE DEF ProfileInv
  <1>a. /\ pc'[p] = step /\ UNCHANGED disk.path /\ disk'.tmp = content
        /\ fd'[p] = IF step = "writing" THEN "tmp" ELSE "closed"
    BY DEF Goto, ProfileTypeOK
  <1>b. Own(p)
    BY DEF Goto, Own, ProfileTypeOK
  <1>c. File' = File
    BY <1>a DEF File
  <1>d. pc[p] \in Ending /\ Changing(p)
    BY DEF Chosen, Ending, Writing, Changing
  <1>1. ProfileTypeOK'
    <2>1. pc' \in [Procs -> Steps]
      BY DEF Goto, ProfileTypeOK, Steps, Ending, Writing
    <2>2. disk' = [path |-> disk'.path, tmp |-> disk'.tmp]
      BY DEF ProfileTypeOK
    <2>3. fd' \in [Procs -> {"closed", "tmp"}]
      BY DEF ProfileTypeOK
    <2>. QED
      BY <2>1, <2>2, <2>3 DEF ProfileTypeOK
  <1>2. GoodFile(disk.path)'
    BY <1>a DEF GoodFile
  <1>3. Alone'
    BY <1>b, <1>d, AloneStays
  <1>4. Chosen(p)'
    BY <1>a, <1>c, <1>d DEF Chosen
  <1>5. Loaded(p)'
    BY <1>a, <1>c DEF Loaded, Writing
  <1>6. \A o \in Procs \ {p} : Chosen(o)' /\ Loaded(o)'
    BY <1>b, <1>d, OthersStay
  <1>. QED
    BY <1>1, <1>2, <1>3, <1>4, <1>5, <1>6

LEMMA OpenPreserves ==
  ASSUME ProfileInv, NEW p \in Procs, Open(p)
  PROVE  ProfileInv'
  <1>1. pc[p] \in Writing
    BY DEF Open, Writing
  <1>. QED
    BY <1>1, WritingPreserves DEF Open, TempPath

\* The file was truncated when it was opened, and nobody else wrote to it.
LEMMA WritePreserves ==
  ASSUME ProfileInv, NEW p \in Procs, Write(p)
  PROVE  ProfileInv'
  <1>1. pc[p] = "writing" /\ fd[p] = "tmp" /\ disk.tmp = Blank
    BY DEF Write, ProfileInv, Loaded
  <1>2. PICK content \in {data[p], Torn} :
          /\ content = Torn => disk[fd[p]] # Blank
          /\ disk' = [disk EXCEPT ![fd[p]] = content]
    BY <1>1 DEF Write
  <1>3. content = data[p]
    BY <1>1, <1>2
  <1>4. disk' = [disk EXCEPT !.tmp = data[p]]
    BY <1>1, <1>2, <1>3
  <1>5. pc[p] \in Writing
    BY <1>1 DEF Writing
  <1>. QED
    BY <1>4, <1>5, WritingPreserves DEF Write

\* WriteFails and Quit: the process ends and leaves the file.
LEMMA EndPreserves ==
  ASSUME ProfileInv, NEW p \in Procs, Stop(p),
         fd' = [fd EXCEPT ![p] = "closed"],
         UNCHANGED <<drawn, gone>>,
         \/ UNCHANGED disk
         \/ Changing(p) /\ disk' = [disk EXCEPT !.tmp = Torn]
  PROVE  ProfileInv'
  <1>. USE DEF ProfileInv
  <1>a. pc'[p] = "idle" /\ fd'[p] = "closed" /\ UNCHANGED disk.path
    BY DEF Stop, Goto, ProfileTypeOK
  <1>b. Own(p)
    BY DEF Stop, Goto, Own, ProfileTypeOK
  <1>1. ProfileTypeOK'
    <2>1. NoProfile \in [id : Profiles \cup {"none"}, tokens : Tokens]
      BY DEF NoProfile, Profile, Tokens
    <2>2. /\ pc' \in [Procs -> Steps]
          /\ cmd' \in [Procs -> Commands \cup {NoCommand}]
      BY DEF Stop, Goto, ProfileTypeOK, Steps, NoCommand
    <2>3. /\ profile' \in [Procs -> [id : Profiles \cup {"none"},
                                     tokens : Tokens]]
          /\ data' = [o \in Procs |-> data'[o]]
      BY <2>1 DEF Stop, ProfileTypeOK
    <2>4. disk' = [path |-> disk'.path, tmp |-> disk'.tmp]
      BY DEF ProfileTypeOK
    <2>. QED
      BY <2>2, <2>3, <2>4 DEF ProfileTypeOK
  <1>2. GoodFile(disk.path)'
    BY <1>a DEF GoodFile
  <1>3. Alone'
    BY <1>a, <1>b, AloneStays DEF Changing
  <1>4. Chosen(p)' /\ Loaded(p)'
    BY <1>a, IdleIsFine
  <1>5. \A o \in Procs \ {p} : Chosen(o)' /\ Loaded(o)'
    BY <1>b, OthersStay
  <1>. QED
    BY <1>1, <1>2, <1>3, <1>4, <1>5

LEMMA WriteFailsPreserves ==
  ASSUME ProfileInv, NEW p \in Procs, WriteFails(p)
  PROVE  ProfileInv'
  <1>1. fd[p] = "tmp" /\ Changing(p)
    BY DEF WriteFails, ProfileInv, Chosen, Loaded, Changing, Ending, Writing
  <1>. QED
    BY <1>1, EndPreserves DEF WriteFails

LEMMA QuitPreserves ==
  ASSUME ProfileInv, NEW p \in Procs, Quit(p)
  PROVE  ProfileInv'
  BY EndPreserves DEF Quit

-----------------------------------------------------------------------------
(* The step that changes the file *)

\* What the rename puts in place is what the command makes of the file there
\* was; a deleted profile has gone then.
LEMMA ReplaceEffect ==
  ASSUME ProfileInv, NEW p \in Procs, Replace(p)
  PROVE  /\ Changing(p) /\ Chosen(p) /\ pc[p] \in Ending
         /\ disk'.path = Changed(cmd[p], profile[p], File)
         /\ disk' = [path |-> disk'.path, tmp |-> disk'.tmp]
         /\ fd' = [o \in Procs |-> "closed"]
         /\ gone' = IF cmd[p].kind \in {"delete", "logout"}
                    THEN gone \cup {profile[p].id} ELSE gone
         /\ UNCHANGED drawn
         /\ Stop(p)
  <1>. USE DEF ProfileInv
  <1>1. pc[p] = "renaming"
    BY DEF Replace
  <1>2. Changing(p) /\ Chosen(p) /\ pc[p] \in Ending
    BY <1>1 DEF Chosen, Changing, Ending, Writing
  <1>3. disk.tmp = Changed(cmd[p], profile[p], File)
    BY <1>1 DEF Loaded, Writing
  <1>4. \A o \in Procs : fd[o] = "closed"
    <2>1. SUFFICES ASSUME NEW o \in Procs, fd[o] # "closed" PROVE FALSE
      OBVIOUS
    <2>2. pc[o] = "writing"
      BY <2>1 DEF Loaded
    <2>3. Changing(o)
      BY <2>2 DEF Chosen, Changing, Ending, Writing
    <2>. QED
      BY <1>1, <1>2, <2>2, <2>3 DEF Alone
  <1>5. fd' = [o \in Procs |-> "closed"]
    BY <1>4 DEF Replace
  <1>. QED
    BY <1>2, <1>3, <1>5 DEF Replace

\* A change, made for a profile that was chosen for it, leaves the file good.
LEMMA ChangeIsGood ==
  ASSUME ProfileInv, NEW p \in Procs, Replace(p)
  PROVE  GoodFile(disk.path)'
  <1>. DEFINE q == profile[p]
              d == File
  <1>a. /\ Chosen(p) /\ pc[p] \in Ending
        /\ disk'.path = Changed(cmd[p], q, d)
        /\ gone' = IF cmd[p].kind \in {"delete", "logout"}
                   THEN gone \cup {q.id} ELSE gone
        /\ UNCHANGED drawn
    BY ReplaceEffect
  <1>b. /\ q.id \in drawn /\ q.tokens \in Tokens
        /\ GoodFile(d)
    BY <1>a DEF ProfileInv, ProfileTypeOK, Chosen, File
  <1>c. cmd[p] \in Commands \cup {NoCommand}
    BY DEF ProfileInv, ProfileTypeOK
  <1>. HIDE DEF q, d
  <1>1. CASE cmd[p].kind \in {"login", "call", "keep"}
    <2>1. q.id \in drawn \ gone /\ UNCHANGED <<drawn, gone>>
      BY <1>1, <1>a DEF Chosen, q
    <2>2. PICK makeActive \in BOOLEAN :
            disk'.path = Saved(d, q, makeActive)
      BY <1>1, <1>a DEF Changed
    <2>3. PICK ps : ps = With(d.profiles, q.id, q.tokens)
      OBVIOUS
    <2>4. PICK as : as = IF makeActive
                         THEN With(d.active, ResourceOf[q.id], q.id)
                         ELSE d.active
      OBVIOUS
    <2>5. /\ disk'.path.state = "whole"
          /\ disk'.path.profiles = ps /\ disk'.path.active = as
      BY <2>2, <2>3, <2>4 DEF Saved, Data, Content
    <2>6. /\ DOMAIN ps = DOMAIN d.profiles \cup {q.id}
          /\ \A id \in DOMAIN ps : ps[id] \in Tokens
      BY <2>3, <1>b DEF With, GoodFile
    <2>7. \A r \in DOMAIN as : as[r] \in DOMAIN ps
      BY <2>4, <2>6, <1>b DEF With, GoodFile
    <2>. QED
      BY <2>1, <2>5, <2>6, <2>7, <1>b DEF GoodFile
  <1>2. CASE cmd[p].kind = "use"
    <2>1. q.id \in DOMAIN d.profiles /\ UNCHANGED <<drawn, gone>>
      BY <1>2, <1>a DEF Chosen, q, d
    <2>2. disk'.path = Activated(d, cmd[p].resource, q.id)
      BY <1>2, <1>a DEF Changed
    <2>3. PICK as : as = With(d.active, cmd[p].resource, q.id)
      OBVIOUS
    <2>4. /\ disk'.path.state = "whole"
          /\ disk'.path.profiles = d.profiles /\ disk'.path.active = as
      BY <2>2, <2>3 DEF Activated, Data, Content
    <2>5. \A r \in DOMAIN as : as[r] \in DOMAIN d.profiles
      BY <2>1, <2>3, <1>b DEF With, GoodFile
    <2>. QED
      BY <2>1, <2>4, <2>5, <1>b DEF GoodFile
  <1>3. CASE cmd[p].kind \in {"delete", "logout"}
    <2>1. gone' = gone \cup {q.id} /\ UNCHANGED drawn
      BY <1>3, <1>a
    <2>2. disk'.path = Deleted(d, q.id)
      BY <1>3, <1>a DEF Changed
    <2>3. PICK ps : ps = Restrict(d.profiles, DOMAIN d.profiles \ {q.id})
      OBVIOUS
    <2>4. PICK as : as = Restrict(d.active, {r \in DOMAIN d.active :
                                               d.active[r] # q.id})
      OBVIOUS
    <2>5. /\ disk'.path.state = "whole"
          /\ disk'.path.profiles = ps /\ disk'.path.active = as
      BY <2>2, <2>3, <2>4 DEF Deleted, Data, Content
    <2>6. /\ DOMAIN ps = DOMAIN d.profiles \ {q.id}
          /\ \A id \in DOMAIN ps : ps[id] \in Tokens
      BY <2>3, <1>b DEF Restrict, GoodFile
    <2>7. \A r \in DOMAIN as : as[r] \in DOMAIN ps
      BY <2>4, <2>6, <1>b DEF Restrict, GoodFile
    <2>. QED
      BY <2>1, <2>5, <2>6, <2>7, <1>b DEF GoodFile
  <1>. QED
    BY <1>1, <1>2, <1>3, <1>a, <1>c, CommandParts DEF Chosen

LEMMA ReplacePreserves ==
  ASSUME ProfileInv, NEW p \in Procs, Replace(p)
  PROVE  ProfileInv'
  <1>. USE DEF ProfileInv
  <1>a. /\ Changing(p) /\ profile[p].id \in drawn
        /\ disk' = [path |-> disk'.path, tmp |-> disk'.tmp]
        /\ fd' = [o \in Procs |-> "closed"]
        /\ gone' \subseteq gone \cup {profile[p].id}
        /\ UNCHANGED drawn
        /\ Stop(p)
    BY ReplaceEffect DEF Chosen
  <1>b. \A o \in Procs \ {p} : pc[o] \notin Writing
    BY <1>a DEF Alone, Chosen, Changing, Ending, Writing
  <1>c. Own(p)
    BY <1>a, <1>b DEF Own, Stop, Goto, ProfileTypeOK, Loaded, Writing
  <1>d. pc'[p] = "idle" /\ fd'[p] = "closed"
    BY <1>a DEF Stop, Goto, ProfileTypeOK
  <1>1. ProfileTypeOK'
    <2>1. NoProfile \in [id : Profiles \cup {"none"}, tokens : Tokens]
      BY DEF NoProfile, Profile, Tokens
    <2>2. /\ pc' \in [Procs -> Steps]
          /\ cmd' \in [Procs -> Commands \cup {NoCommand}]
      BY <1>a DEF Stop, Goto, ProfileTypeOK, Steps, NoCommand
    <2>3. /\ profile' \in [Procs -> [id : Profiles \cup {"none"},
                                     tokens : Tokens]]
          /\ data' = [o \in Procs |-> data'[o]]
      BY <1>a, <2>1 DEF Stop, ProfileTypeOK
    <2>4. /\ fd' \in [Procs -> {"closed", "tmp"}]
          /\ drawn' \subseteq Profiles /\ gone' \subseteq drawn'
      BY <1>a DEF ProfileTypeOK
    <2>. QED
      BY <1>a, <2>2, <2>3, <2>4 DEF ProfileTypeOK
  <1>2. GoodFile(disk.path)'
    BY ChangeIsGood
  <1>3. Alone'
    BY <1>c, <1>d, AloneStays DEF Changing
  <1>4. Chosen(p)' /\ Loaded(p)'
    BY <1>d, IdleIsFine
  <1>5. \A o \in Procs \ {p} : Chosen(o)' /\ Loaded(o)'
    BY <1>a, <1>c, OthersStay
  <1>. QED
    BY <1>1, <1>2, <1>3, <1>4, <1>5

-----------------------------------------------------------------------------
(* The invariant *)

LEMMA NextPreserves ==
  ASSUME OneAtATime, ProfileInv, [ProfileNext]_profileVars
  PROVE  ProfileInv'
  <1>1. CASE UNCHANGED profileVars
    BY <1>1 DEF profileVars, procVars, ProfileInv, ProfileTypeOK, GoodFile,
      Alone, Changing, Chosen, Loaded, File
  <1>2. CASE ProfileNext
    BY <1>2, RunPreserves, AskPreserves, FetchPreserves, LoadPreserves,
      OpenPreserves, WritePreserves, WriteFailsPreserves, ReplacePreserves,
      QuitPreserves
    DEF ProfileNext
  <1>. QED
    BY <1>1, <1>2

THEOREM ProfileInvariant == OneAtATime /\ ProfileSpec => []ProfileInv
  <1>. SUFFICES ASSUME OneAtATime PROVE ProfileSpec => []ProfileInv
    OBVIOUS
  <1>1. ProfileInv /\ [ProfileNext]_profileVars => ProfileInv'
    BY NextPreserves
  <1>. QED
    BY <1>1, InitInv, PTL DEF ProfileSpec

\* Whatever the commands are and wherever they are killed: as long as those
\* that change profiles wait for each other, every load finds a whole file
\* (_save).
THEOREM FilesAreWhole == OneAtATime /\ ProfileSpec => []FileIsWhole
  <1>1. ProfileInv => FileIsWhole
    BY DEF ProfileInv, GoodFile, FileIsWhole, Readable
  <1>. QED
    BY <1>1, ProfileInvariant, PTL

\* The active profile of each resource is one the file has (set_active_profile,
\* delete_profile).
THEOREM ActiveOnesExist == OneAtATime /\ ProfileSpec => []ActiveProfilesExist
  <1>1. ProfileInv => ActiveProfilesExist
    BY DEF ProfileInv, GoodFile, ActiveProfilesExist, File
  <1>. QED
    BY <1>1, ProfileInvariant, PTL

\* What was logged out or deleted stays out of the file (delete_profile).
THEOREM RemovedStaysOut == OneAtATime /\ ProfileSpec => []LoggedOutStaysOut
  <1>1. ProfileInv => LoggedOutStaysOut
    BY DEF ProfileInv, GoodFile, LoggedOutStaysOut, File
  <1>. QED
    BY <1>1, ProfileInvariant, PTL

-----------------------------------------------------------------------------
(* Refinement *)

LEMMA LedgerStart == ProfileInit => Ledger!LedgerInit
  BY DEF ProfileInit, Ledger!LedgerInit, File, Missing, Content, Nothing

\* A rename is the one step that changes the ledger.
LEMMA ReplaceIsLedgerStep ==
  ASSUME ProfileInv, NEW p \in Procs, Replace(p)
  PROVE  Ledger!LedgerNext
  <1>. DEFINE q == profile[p]
              d == File
  <1>a. /\ Chosen(p) /\ pc[p] \in Ending
        /\ File' = Changed(cmd[p], q, d)
        /\ gone' = IF cmd[p].kind \in {"delete", "logout"}
                   THEN gone \cup {q.id} ELSE gone
    BY ReplaceEffect DEF File
  <1>b. q.id \in Profiles /\ q.tokens \in Tokens
    BY <1>a DEF ProfileInv, ProfileTypeOK, Chosen
  <1>c. cmd[p] \in Commands \cup {NoCommand}
    BY DEF ProfileInv, ProfileTypeOK
  <1>1. CASE cmd[p].kind \in {"login", "call", "keep"}
    <2>1. q.id \notin gone /\ UNCHANGED gone
      BY <1>1, <1>a DEF Chosen
    <2>2. /\ File'.profiles = With(d.profiles, q.id, q.tokens)
          /\ File'.active \in {d.active,
                               With(d.active, ResourceOf[q.id], q.id)}
      BY <1>1, <1>a DEF Changed, Saved, Data, Content
    <2>3. Ledger!Store(q.id)
      BY <2>1, <2>2, <1>b DEF Ledger!Store, Ledger!With, With
    <2>. QED
      BY <2>3, <1>b DEF Ledger!LedgerNext
  <1>2. CASE cmd[p].kind = "use"
    <2>1. q.id \in DOMAIN d.profiles /\ UNCHANGED gone
      BY <1>2, <1>a DEF Chosen
    <2>2. /\ File'.profiles = d.profiles
          /\ File'.active = With(d.active, cmd[p].resource, q.id)
      BY <1>2, <1>a DEF Changed, Activated, Data, Content
    <2>3. Ledger!Activate(cmd[p].resource, q.id)
      BY <2>1, <2>2 DEF Ledger!Activate, Ledger!With, With
    <2>4. cmd[p].resource \in Resources
      BY <1>2, <1>c, CommandParts
    <2>. QED
      BY <2>3, <2>4, <1>b DEF Ledger!LedgerNext
  <1>3. CASE cmd[p].kind \in {"delete", "logout"}
    <2>1. gone' = gone \cup {q.id}
      BY <1>3, <1>a
    <2>2. /\ File'.profiles =
               Restrict(d.profiles, DOMAIN d.profiles \ {q.id})
          /\ File'.active =
               Restrict(d.active, {r \in DOMAIN d.active :
                                     d.active[r] # q.id})
      BY <1>3, <1>a DEF Changed, Deleted, Data, Content
    <2>3. Ledger!Remove(q.id)
      BY <2>1, <2>2 DEF Ledger!Remove, Ledger!Restrict, Restrict
    <2>. QED
      BY <2>3, <1>b DEF Ledger!LedgerNext
  <1>. QED
    BY <1>1, <1>2, <1>3, <1>a, <1>c, CommandParts DEF Chosen

LEMMA LedgerStutters ==
  ASSUME UNCHANGED <<File, gone>>
  PROVE  UNCHANGED Ledger!ledgerVars
  BY DEF Ledger!ledgerVars

LEMMA StepIsLedgerStep ==
  ASSUME ProfileInv, [ProfileNext]_profileVars
  PROVE  [Ledger!LedgerNext]_(Ledger!ledgerVars)
  <1>1. CASE UNCHANGED profileVars
    BY <1>1, LedgerStutters DEF profileVars, File
  <1>2. ASSUME NEW p \in Procs,
               \/ \E c \in Commands : Run(p, c)
               \/ Ask(p) \/ Fetch(p) \/ Load(p) \/ Quit(p)
        PROVE  UNCHANGED Ledger!ledgerVars
    <2>1. UNCHANGED <<disk, gone>>
      BY <1>2 DEF Run, Ask, Fetch, Load, Quit
    <2>. QED
      BY <2>1, LedgerStutters DEF File
  <1>3. ASSUME NEW p \in Procs, Open(p) \/ Write(p) \/ WriteFails(p)
        PROVE  UNCHANGED Ledger!ledgerVars
    <2>1. pc[p] = "writing" => fd[p] = "tmp"
      BY DEF ProfileInv, Loaded
    <2>2. UNCHANGED <<disk.path, gone>>
      BY <1>3, <2>1
      DEF Open, TempPath, Write, WriteFails, ProfileInv, ProfileTypeOK
    <2>. QED
      BY <2>2, LedgerStutters DEF File
  <1>. QED
    BY <1>1, <1>2, <1>3, ReplaceIsLedgerStep DEF ProfileNext

\* However many steps it takes to write the file, and wherever they are cut
\* off, it is a store that changes in one go.
THEOREM ProfileLedgerRefinement ==
  OneAtATime /\ ProfileSpec => ImplementsProfileLedger
  <1>1. ProfileInv /\ [ProfileNext]_profileVars
          => [Ledger!LedgerNext]_(Ledger!ledgerVars)
    BY StepIsLedgerStep
  <1>. QED
    BY <1>1, LedgerStart, ProfileInvariant, PTL
    DEF ProfileSpec, ImplementsProfileLedger, Ledger!LedgerSpec
=============================================================================
