---------------------------- MODULE ProfileStore ----------------------------
(***************************************************************************)
(* The profiles of the CLI: one JSON file (profiles/store.py), used by the *)
(* commands of cli/commands.py, each of them a process of its own.         *)
(*                                                                         *)
(* Every operation of the store loads the whole file; one that changes it  *)
(* writes the whole file to a temporary one, of the same name in every     *)
(* process, and renames that.  Nothing locks either file, and a command    *)
(* does network requests between its operations.                           *)
(*                                                                         *)
(* A process that is killed, or whose request fails, stops where it is.    *)
(* The machine itself does not crash: nothing is synced to the disk.       *)
(***************************************************************************)
EXTENDS Functions

CONSTANTS
  Procs,       \* processes that run commands, one after another
  Profiles,    \* profile ids to draw
  Resources,
  ResourceOf,  \* the resource each profile is made for
  OneAtATime   \* whether commands that change profiles wait for each other

Tokens == {"first", "renewed", "none"}
Profile(id, tokens) == [id |-> id, tokens |-> tokens]
NoProfile == Profile("none", "none")

Command(kind, resource, id) ==
  [kind |-> kind, resource |-> resource, id |-> id]

\* `profile show` stands for all that only read; "keep" is
\* `logout --keep-client`.  A command names a resource or a profile.
ByResource == {Command(k, r, "none") :
                 k \in {"show", "login", "call", "logout", "keep"},
                 r \in Resources}
ByProfile == {Command(k, "none", id) : k \in {"show", "call", "delete"},
                                       id \in Profiles}
Commands ==
  ByResource \cup ByProfile
    \cup {Command("use", r, id) : r \in Resources, id \in Profiles}

\* Contents of a file: a JSON object with profiles and active_profiles; or no
\* file, an empty one, or no JSON.
Content(state, profiles, active) ==
  [state |-> state, profiles |-> profiles, active |-> active]

Nothing == [n \in {} |-> "none"]
Data(profiles, active) == Content("whole", profiles, active)
NoData == Data(Nothing, Nothing)
Missing == Content("missing", Nothing, Nothing)
Blank == Content("blank", Nothing, Nothing)
Torn == Content("torn", Nothing, Nothing)

Readable(content) == content.state \in {"whole", "missing"}

ASSUME ProfileAssumption ==
  /\ ResourceOf \in [Profiles -> Resources]
  /\ "none" \notin Profiles \cup Resources

VARIABLES
  pc,       \* what each process does next; the steps are named below
  cmd,      \* its command
  profile,  \* the Profile object of its command
  data,     \* what it is going to write
  disk,     \* contents of profiles.json ("path") and profiles.tmp ("tmp")
  fd,       \* the file each process has open: a file that was renamed or
            \* replaced while it was open goes on under its new name, or none
  \* History: login never draws an id twice.
  drawn,    \* profile ids drawn so far
  gone      \* profiles deleted by a command that came to its end

procVars == <<pc, cmd, profile, data>>
profileVars == <<procVars, disk, fd, drawn, gone>>

ProfileInit ==
  /\ pc = [p \in Procs |-> "idle"]
  /\ cmd = [p \in Procs |-> Command("show", "none", "none")]
  /\ profile = [p \in Procs |-> NoProfile]
  /\ data = [p \in Procs |-> NoData]
  /\ disk = [path |-> Missing, tmp |-> Missing]
  /\ fd = [p \in Procs |-> "closed"]
  /\ drawn = {}
  /\ gone = {}

\* What _load returns if it does not raise; it takes no file for no profiles.
File == disk.path

-----------------------------------------------------------------------------
(* Operations of the store on the data they loaded *)

With(f, k, v) == [n \in DOMAIN f \cup {k} |-> IF n = k THEN v ELSE f[n]]

\* Slip: the profile made active is the only active one.
OnlyActive(d, q, makeActive) ==
  Data(With(d.profiles, q.id, q.tokens),
       IF makeActive THEN With(Nothing, ResourceOf[q.id], q.id)
       ELSE d.active)

\* save_profile
Saved(d, q, makeActive) ==
  Data(With(d.profiles, q.id, q.tokens),
       IF makeActive THEN With(d.active, ResourceOf[q.id], q.id)
       ELSE d.active)

\* set_active_profile
Activated(d, r, id) == Data(d.profiles, With(d.active, r, id))

\* Slips: leaves the profile, or leaves it active.
OnlyInactive(d, id) ==
  Data(d.profiles,
       Restrict(d.active, {r \in DOMAIN d.active : d.active[r] # id}))
StillActive(d, id) ==
  Data(Restrict(d.profiles, DOMAIN d.profiles \ {id}), d.active)

\* delete_profile
Deleted(d, id) ==
  Data(Restrict(d.profiles, DOMAIN d.profiles \ {id}),
       Restrict(d.active, {r \in DOMAIN d.active : d.active[r] # id}))

\* The operation a command ends with.
Changed(c, q, d) ==
  CASE c.kind \in {"login", "call"}    -> Saved(d, q, TRUE)
    [] c.kind = "keep"                 -> Saved(d, q, FALSE)
    [] c.kind = "use"                  -> Activated(d, c.resource, q.id)
    [] c.kind \in {"delete", "logout"} -> Deleted(d, q.id)

-----------------------------------------------------------------------------
(* The steps of a command *)

Goto(p, step) == pc' = [pc EXCEPT ![p] = step]

Changing(p) == pc[p] # "idle" /\ cmd[p].kind # "show"

\* A command that names a profile names one that the file has or had.
Run(p, c) ==
  /\ pc[p] = "idle"
  /\ OneAtATime /\ c.kind # "show" => \A o \in Procs : ~Changing(o)
  /\ c.id \in DOMAIN File.profiles \cup gone \cup {"none"}
  /\ Goto(p, CASE c.kind = "delete" -> "loading"
               [] c \in ByResource  -> "asking"
               [] OTHER             -> "fetching")
  /\ cmd' = [cmd EXCEPT ![p] = c]
  /\ profile' = [profile EXCEPT ![p] = Profile(c.id, "none")]
  /\ UNCHANGED <<data, disk, fd, drawn, gone>>

\* The process ends: it is done, it raises, or it is killed.  Open files are
\* closed, and what was not written yet is lost.
Stop(p) ==
  /\ Goto(p, "idle")
  /\ cmd' = [cmd EXCEPT ![p] = Command("show", "none", "none")]
  /\ profile' = [profile EXCEPT ![p] = NoProfile]
  /\ data' = [data EXCEPT ![p] = NoData]

\* The first load of get_active_profile: which one is active?  To a login it
\* only matters for the choice of its mode; it draws an id of its own.
Ask(p) ==
  LET c == cmd[p] IN
  /\ pc[p] = "asking"
  /\ Readable(disk.path)
  /\ \/ /\ c.resource \in DOMAIN File.active
        /\ Goto(p, "fetching")
        /\ profile' = [profile EXCEPT ![p] =
                         Profile(File.active[c.resource], "none")]
        /\ UNCHANGED drawn
     \/ /\ c.kind = "login" /\ c.resource \notin DOMAIN File.active
        /\ \E id \in Profiles \ drawn :
             /\ ResourceOf[id] = c.resource
             /\ profile' = [profile EXCEPT ![p] = Profile(id, "first")]
             /\ drawn' = drawn \cup {id}
        /\ Goto(p, "loading")
  /\ UNCHANGED <<cmd, data, disk, fd, gone>>

\* get_profile, and what the command makes of the profile before it saves it:
\* a call may renew its tokens.
Fetch(p) ==
  LET c == cmd[p]  q == profile[p].id  found == q \in DOMAIN File.profiles IN
  /\ pc[p] = "fetching"
  /\ c.kind # "show"
  /\ Readable(disk.path)
  /\ \/ /\ found /\ c.kind # "login"
        /\ \E t \in CASE c.kind = "call" -> {File.profiles[q], "renewed"}
                      [] c.kind = "keep" -> {"none"}
                      [] OTHER           -> {File.profiles[q]} :
             profile' = [profile EXCEPT ![p] = Profile(q, t)]
        /\ c.kind = "call" => profile'[p].tokens # "none"
        /\ UNCHANGED drawn
     \/ /\ c.kind = "login"
        /\ \E id \in Profiles \ drawn :
             /\ ResourceOf[id] = c.resource
             /\ profile' = [profile EXCEPT ![p] = Profile(id, "first")]
             /\ drawn' = drawn \cup {id}
  /\ Goto(p, "loading")
  /\ UNCHANGED <<cmd, data, disk, fd, gone>>

\* The load of the operation that changes the profiles.
Load(p) ==
  /\ pc[p] = "loading"
  /\ Readable(disk.path)
  /\ data' = [data EXCEPT ![p] = Changed(cmd[p], profile[p], File)]
  /\ Goto(p, "opening")
  /\ UNCHANGED <<cmd, profile, disk, fd, drawn, gone>>

\* Slip: writes the file itself.
InPlace(p) == "path"

TempPath(p) == "tmp"

\* write_text: opens and truncates,
Open(p) ==
  /\ pc[p] = "opening"
  /\ disk' = [disk EXCEPT ![TempPath(p)] = Blank]
  /\ fd' = [fd EXCEPT ![p] = TempPath(p)]
  /\ Goto(p, "writing")
  /\ UNCHANGED <<cmd, profile, data, drawn, gone>>

\* then writes; over something longer that another process wrote since, it
\* leaves the end of that.
Write(p) ==
  /\ pc[p] = "writing"
  /\ IF fd[p] = "unlinked" THEN UNCHANGED disk
     ELSE \E content \in {data[p], Torn} :
            /\ content = Torn => disk[fd[p]] # Blank
            /\ disk' = [disk EXCEPT ![fd[p]] = content]
  /\ fd' = [fd EXCEPT ![p] = "closed"]
  /\ Goto(p, "renaming")
  /\ UNCHANGED <<cmd, profile, data, drawn, gone>>

\* The disk is full.
WriteFails(p) ==
  /\ pc[p] = "writing"
  /\ disk' = IF fd[p] = "unlinked" THEN disk
             ELSE [disk EXCEPT ![fd[p]] = Torn]
  /\ fd' = [fd EXCEPT ![p] = "closed"]
  /\ Stop(p)
  /\ UNCHANGED <<drawn, gone>>

\* os.replace, which raises if the temporary file was renamed already.
Replace(p) ==
  /\ pc[p] = "renaming"
  /\ disk.tmp # Missing
  /\ disk' = [path |-> disk.tmp, tmp |-> Missing]
  /\ fd' = [o \in Procs |-> CASE fd[o] = "path" -> "unlinked"
                              [] fd[o] = "tmp"  -> "path"
                              [] OTHER          -> fd[o]]
  /\ gone' = IF cmd[p].kind \in {"delete", "logout"}
             THEN gone \cup {profile[p].id} ELSE gone
  /\ Stop(p)
  /\ UNCHANGED drawn

\* It ends before its time, or has shown what it was asked for.
Quit(p) ==
  /\ pc[p] # "idle"
  /\ Stop(p)
  /\ fd' = [fd EXCEPT ![p] = "closed"]
  /\ UNCHANGED <<disk, drawn, gone>>

ProfileNext ==
  \E p \in Procs :
    \/ \E c \in Commands : Run(p, c)
    \/ Ask(p) \/ Fetch(p) \/ Load(p)
    \/ Open(p) \/ Write(p) \/ WriteFails(p) \/ Replace(p)
    \/ Quit(p)

ProfileSpec == ProfileInit /\ [][ProfileNext]_profileVars

-----------------------------------------------------------------------------
(* Properties *)

\* Whenever a command loads the profiles, there is a whole file: one that is
\* being written, or whose writer was killed, is never in its place (_save).
FileIsWhole == Readable(disk.path)

\* The active profile of a resource is in the file, so get_active_profile
\* finds what its second load looks for (delete_profile, `profile use`).
ActiveProfilesExist ==
  Readable(disk.path) =>
    \A r \in DOMAIN File.active : File.active[r] \in DOMAIN File.profiles

\* A profile that was logged out or deleted does not come back with its
\* tokens ("Remove the active profile for a resource", README.md:295).
LoggedOutStaysOut ==
  Readable(disk.path) => gone \cap DOMAIN File.profiles = {}

\* The file, whatever steps it takes to write and whenever they are cut off,
\* is a store that changes in one go.
Ledger == INSTANCE ProfileLedger WITH
  profiles <- File.profiles, active <- File.active, removed <- gone

ImplementsProfileLedger == Ledger!LedgerSpec
=============================================================================
