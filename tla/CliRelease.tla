------------------------------ MODULE CliRelease ------------------------------
(* Releases of the cjob command: administrators place versions on a volume   *)
(* with `cjobctl cli deploy`, `set-latest` and `remove`, each a series of    *)
(* kubectl calls through a temporary Pod; the Submit API serves whatever the *)
(* volume holds at the moment; and users replace their own executable with   *)
(* `cjob update`.                                                            *)
(*                                                                           *)
(* Nothing locks the volume and nothing locks the user's directory.  Every   *)
(* call can fail and every command can be interrupted, which ends it where   *)
(* it stands.                                                                *)
EXTENDS Integers, FiniteSets

CONSTANTS
    Versions,     \* versions there are, in their order
    Stable,       \* those without a pre-release part
    Admins,       \* who runs cjobctl
    Terminals,    \* where `cjob update` is run; they share one executable
    MaxCommands,  \* bound: cjobctl commands
    MaxUpdates    \* bound: updates

ASSUME CliReleaseAssumption ==
    /\ Versions \subseteq Nat \ {0} /\ IsFiniteSet(Versions)
    /\ Stable \subseteq Versions /\ Stable # {}
    /\ IsFiniteSet(Terminals)
    /\ MaxCommands \in Nat /\ MaxUpdates \in Nat

VARIABLES
    store,     \* by version: what its directory on the volume holds
    writer,    \* by version: whose copy wrote the file there
    latest,    \* the version the file `latest` names
    admin,     \* by administrator: the command that runs
    commands,  \* how many commands were given
    content,   \* by inode of the user's file system: the binary in it
    exe,       \* inode of the executable
    tmp,       \* inode of .cjob.update.tmp, or NoInode
    update,    \* by terminal: the update that runs there
    updates,   \* how many updates were begun
    overtaken, \* history: administrators under whose command another one has
               \* undone what it has read or written
    killed     \* history: an update was interrupted while it wrote

vars == <<store, writer, latest, admin, commands, content, exe, tmp, update, updates, overtaken, killed>>
volume == <<store, writer, latest>>
disk == <<content, exe, tmp>>

Blank == 0                          \* the file is being written
NoInode == 0
Nobody == "nobody"
Inodes == 1..(2 + Cardinality(Terminals))
Idle == [stage |-> "idle"]

Holds == {"absent", "empty", "partial", "whole"}
HasFile(v) == store[v] \in {"partial", "whole"}

Binary == [of : Versions, is : {"whole", "partial"}]
Torn == [of |-> Blank, is |-> "torn"]         \* opened, not yet written

\* A command between two of its calls; only a stable version can be a release.
Deploys ==
    [stage : {"wait", "mkdir", "copy", "copying", "chmod"}, to : {"deploy"},
     version : Versions, release : {FALSE}]
    \cup [stage : {"wait", "mkdir", "copy", "copying", "chmod", "point", "pointing"}, to : {"deploy"},
          version : Stable, release : {TRUE}]
Pointings ==
    [stage : {"wait", "check", "compare", "point", "pointing"}, to : {"set-latest"}, version : Stable]
\* A removal that tests the versions, one by one, knows the latest it has read.
Removals ==
    [stage : {"wait", "check", "confirm"}, to : {"remove"}, versions : SUBSET Versions]
    \cup [stage : {"test"}, to : {"remove"}, versions : SUBSET Versions,
          untested : SUBSET Versions, seen : Stable \cup {Blank}]

\* An update between two of its calls.
Updates ==
    [stage : {"confirm"}, target : Versions \cup {Blank}]
    \cup [stage : {"open", "mode", "rename"}, data : Binary]
    \cup [stage : {"write"}, data : Binary, into : Inodes]

TypeOK ==
    /\ store \in [Versions -> Holds]
    /\ writer \in [Versions -> Admins \cup {Nobody}]
    /\ latest \in Stable \cup {Blank}
    /\ admin \in [Admins -> {Idle} \cup Deploys \cup Pointings \cup Removals]
    /\ commands \in 0..MaxCommands
    /\ content \in [Inodes -> Binary \cup {Torn}]
    /\ exe \in Inodes /\ tmp \in Inodes \cup {NoInode}
    /\ update \in [Terminals -> {Idle} \cup Updates]
    /\ updates \in 0..MaxUpdates
    /\ overtaken \subseteq Admins
    /\ killed \in BOOLEAN

\* The versions so far are deployed, one is released and the user has it.
Init ==
    /\ \E newest \in Stable :
          store = [v \in Versions |-> IF v <= newest THEN "whole" ELSE "absent"]
    /\ writer = [v \in Versions |-> Nobody]
    /\ latest \in {v \in Stable : store[v] = "whole"}
    /\ content = [i \in Inodes |-> [of |-> latest, is |-> "whole"]]
    /\ exe = 1 /\ tmp = NoInode
    /\ admin = [a \in Admins |-> Idle] /\ commands = 0
    /\ update = [t \in Terminals |-> Idle] /\ updates = 0
    /\ overtaken = {} /\ killed = FALSE

---------------------------------------------------------------------------
(* cjobctl cli.                                                              *)

At(a, stage) == admin[a].stage = stage
Goes(a, stage) == admin' = [admin EXCEPT ![a].stage = stage]
Ends(a) == admin' = [admin EXCEPT ![a] = Idle]
Puts(v, what) == store' = [store EXCEPT ![v] = what]

\* The others that rely on the directory of v, on the copy they made there, or
\* on v not being the latest.
RelyOnDirectory(a, v) ==
    {b \in Admins \ {a} : /\ admin[b].stage \in {"compare", "copying", "chmod", "point", "pointing"}
                          /\ admin[b].version = v}
RelyOnCopy(a, v) == {b \in RelyOnDirectory(a, v) : admin[b].to = "deploy"}
RelyOnLatest(a, v) ==
    {b \in Admins \ {a} : admin[b].stage \in {"test", "confirm"} /\ v \in admin[b].versions}

\* Each command checks what it can before it starts its Pod.
Give(a, command) ==
    /\ admin[a] = Idle
    /\ commands < MaxCommands
    /\ commands' = commands + 1
    /\ admin' = [admin EXCEPT ![a] = command]
    /\ UNCHANGED <<volume, disk, update, updates, overtaken, killed>>

SlipDeploy(a) ==                        \* any version can be a release
    \E v \in Versions, release \in BOOLEAN :
        Give(a, [stage |-> "wait", to |-> "deploy", version |-> v, release |-> release])

Deploy(a) ==
    \E v \in Versions, release \in BOOLEAN :
        /\ release => v \in Stable
        /\ Give(a, [stage |-> "wait", to |-> "deploy", version |-> v, release |-> release])

SetLatest(a) ==
    \E v \in Stable : Give(a, [stage |-> "wait", to |-> "set-latest", version |-> v])

Remove(a) ==
    \E V \in (SUBSET Versions) \ {{}} :
        Give(a, [stage |-> "wait", to |-> "remove", versions |-> V])

\* The Pod's name is the kind of the command and the second.  A command that
\* meets the name of another one ends, and deletes the Pod of the other, which
\* then ends too.
CreateTempPod(a) ==
    /\ At(a, "wait")
    /\ \/ Goes(a, IF admin[a].to = "deploy" THEN "mkdir" ELSE "check")
       \/ \E b \in Admins \ {a} :
             /\ At(b, "wait") /\ admin[b].to = admin[a].to
             /\ admin' = [admin EXCEPT ![a] = Idle, ![b] = Idle]
    /\ UNCHANGED <<volume, commands, disk, update, updates, overtaken, killed>>

\* deploy: mkdir -p, kubectl cp, chmod, and for a release the file `latest`.
MakeDirectory(a) ==
    /\ At(a, "mkdir")
    /\ LET v == admin[a].version
       IN  Puts(v, IF store[v] = "absent" THEN "empty" ELSE store[v])
    /\ Goes(a, "copy")
    /\ UNCHANGED <<writer, latest, commands, disk, update, updates, overtaken, killed>>

BeginCopy(a) ==
    /\ At(a, "copy")
    /\ LET v == admin[a].version
       IN  /\ store[v] # "absent"
           /\ Puts(v, "partial")
           /\ writer' = [writer EXCEPT ![v] = a]
           /\ overtaken' = (overtaken \ {a}) \cup RelyOnCopy(a, v)
    /\ Goes(a, "copying")
    /\ UNCHANGED <<latest, commands, disk, update, updates, killed>>

SlipEndCopy(a) ==                       \* a copy that failed is not noticed
    /\ At(a, "copying")
    /\ \E what \in {store[admin[a].version], "whole"} :
          Puts(admin[a].version, IF HasFile(admin[a].version) THEN what ELSE "absent")
    /\ Goes(a, "chmod")
    /\ UNCHANGED <<writer, latest, commands, disk, update, updates, overtaken, killed>>

\* The bytes go to the file that this copy made, also when it was removed or
\* replaced meanwhile.
EndCopy(a) ==
    /\ At(a, "copying")
    /\ LET v == admin[a].version
       IN  Puts(v, IF HasFile(v) /\ writer[v] = a THEN "whole" ELSE store[v])
    /\ Goes(a, "chmod")
    /\ UNCHANGED <<writer, latest, commands, disk, update, updates, overtaken, killed>>

SetMode(a) ==
    /\ At(a, "chmod")
    /\ HasFile(admin[a].version)
    /\ IF admin[a].release THEN Goes(a, "point") ELSE Ends(a)
    /\ UNCHANGED <<volume, commands, disk, update, updates, overtaken, killed>>

\* echo > latest empties the file before it writes.
OpenLatest(a) ==
    /\ At(a, "point")
    /\ latest' = Blank
    /\ Goes(a, "pointing")
    /\ UNCHANGED <<store, writer, commands, disk, update, updates, overtaken, killed>>

WriteLatest(a) ==
    /\ At(a, "pointing")
    /\ latest' = admin[a].version
    /\ overtaken' = overtaken \cup RelyOnLatest(a, admin[a].version)
    /\ Ends(a)
    /\ UNCHANGED <<store, writer, commands, disk, update, updates, killed>>

\* set-latest: test -d, then cat latest, which only saves the write and may
\* fail.  A directory is no proof of a finished deploy.
CheckDirectory(a) ==
    /\ At(a, "check") /\ admin[a].to = "set-latest"
    /\ store[admin[a].version] # "absent"
    /\ Goes(a, "compare")
    /\ overtaken' = overtaken \ {a}
    /\ UNCHANGED <<volume, commands, disk, update, updates, killed>>

CompareLatest(a) ==
    /\ At(a, "compare")
    /\ Goes(a, "point") \/ (latest = admin[a].version /\ Ends(a))
    /\ UNCHANGED <<volume, commands, disk, update, updates, overtaken, killed>>

\* remove: cat latest, then a test -d for every version, then the
\* administrator is asked, then the directories go one by one.
ReadLatest(a) ==
    /\ At(a, "check") /\ admin[a].to = "remove"
    /\ LET V == admin[a].versions
       IN  admin' = [admin EXCEPT ![a] = [stage |-> "test", to |-> "remove", versions |-> V,
                                          untested |-> V, seen |-> latest]]
    /\ overtaken' = overtaken \ {a}
    /\ UNCHANGED <<volume, commands, disk, update, updates, killed>>

SlipTestVersion(a) ==                   \* the latest version is not excepted
    /\ At(a, "test")
    /\ \E v \in admin[a].untested :
          LET rest == admin[a].untested \ {v}
          IN  /\ store[v] # "absent"
              /\ admin' = [admin EXCEPT ![a] =
                    IF rest = {}
                    THEN [stage |-> "confirm", to |-> "remove", versions |-> admin[a].versions]
                    ELSE [admin[a] EXCEPT !.untested = rest]]
    /\ UNCHANGED <<volume, commands, disk, update, updates, overtaken, killed>>

TestVersion(a) ==
    /\ At(a, "test")
    /\ \E v \in admin[a].untested :
          LET rest == admin[a].untested \ {v}
          IN  /\ v # admin[a].seen /\ store[v] # "absent"
              /\ admin' = [admin EXCEPT ![a] =
                    IF rest = {}
                    THEN [stage |-> "confirm", to |-> "remove", versions |-> admin[a].versions]
                    ELSE [admin[a] EXCEPT !.untested = rest]]
    /\ UNCHANGED <<volume, commands, disk, update, updates, overtaken, killed>>

RemoveVersion(a) ==
    /\ At(a, "confirm")
    /\ \E v \in admin[a].versions :
          LET rest == admin[a].versions \ {v}
          IN  /\ Puts(v, "absent")
              /\ IF rest = {} THEN Ends(a)
                 ELSE admin' = [admin EXCEPT ![a].versions = rest]
              /\ overtaken' = overtaken \cup RelyOnDirectory(a, v)
    /\ UNCHANGED <<writer, latest, commands, disk, update, updates, killed>>

\* A check or a call fails, the answer is no, or the command is interrupted.
Stop(a) ==
    /\ admin[a] # Idle
    /\ Ends(a)
    /\ UNCHANGED <<volume, commands, disk, update, updates, overtaken, killed>>

---------------------------------------------------------------------------
(* cjob update.                                                              *)

Now(t, stage) == update[t].stage = stage
Turns(t, what) == update' = [update EXCEPT ![t] = what]

Listed == {v \in Versions : store[v] # "absent"}

\* The two answers of the Submit API: the latest, and the newest of all (--pre).
Newest == {v \in Listed \cup {Blank} : \A w \in Listed : w <= v}
Told == {latest} \cup Newest

\* The target is what the Submit API tells or what the user names.  A process knows its version from when it was built.
AskVersion(t) ==
    /\ update[t] = Idle
    /\ updates < MaxUpdates
    /\ content[exe].is = "whole"             \* or else it cannot be run
    /\ updates' = updates + 1
    /\ \E target \in Told \cup Versions :
          Turns(t, IF target = content[exe].of THEN Idle
                   ELSE [stage |-> "confirm", target |-> target])
    /\ UNCHANGED <<volume, admin, commands, disk, overtaken, killed>>

\* The Submit API sends the file as it is: 404 without one, 400 for no version.
Download(t) ==
    /\ Now(t, "confirm")
    /\ LET v == update[t].target
       IN  IF v # Blank /\ HasFile(v)
             THEN Turns(t, [stage |-> "open", data |-> [of |-> v, is |-> store[v]]])
             ELSE Turns(t, Idle)
    /\ UNCHANGED <<volume, admin, commands, disk, updates, overtaken, killed>>

\* fs::write opens and empties the file of that name, or makes one, and writes
\* to what it has opened.
Unused == Inodes \ ({exe, tmp} \cup {update[t].into : t \in {u \in Terminals : Now(u, "write")}})

OpenTmp(t) ==
    /\ Now(t, "open")
    /\ LET i == IF tmp # NoInode THEN tmp ELSE CHOOSE x \in Unused : TRUE
       IN  /\ tmp' = i
           /\ content' = [content EXCEPT ![i] = Torn]
           /\ Turns(t, [stage |-> "write", data |-> update[t].data, into |-> i])
    /\ UNCHANGED <<volume, admin, commands, exe, updates, overtaken, killed>>

WriteTmp(t) ==
    /\ Now(t, "write")
    /\ content' = [content EXCEPT ![update[t].into] = update[t].data]
    /\ Turns(t, [stage |-> "mode", data |-> update[t].data])
    /\ UNCHANGED <<volume, admin, commands, exe, tmp, updates, overtaken, killed>>

\* Mode and rename go by the name; another update may have renamed the file.
SetPermissions(t) ==
    /\ Now(t, "mode")
    /\ Turns(t, IF tmp = NoInode THEN Idle ELSE [update[t] EXCEPT !.stage = "rename"])
    /\ UNCHANGED <<volume, admin, commands, disk, updates, overtaken, killed>>

SlipReplace(t) ==                       \* the file is copied over the executable
    /\ Now(t, "rename")
    /\ tmp # NoInode
    /\ content' = [content EXCEPT ![exe] = content[tmp]]
    /\ tmp' = NoInode
    /\ Turns(t, Idle)
    /\ UNCHANGED <<volume, admin, commands, exe, updates, overtaken, killed>>

\* A rename that fails is followed by the removal of the file of that name.
Replace(t) ==
    /\ Now(t, "rename")
    /\ exe' \in {exe} \cup ({tmp} \ {NoInode})
    /\ tmp' = NoInode
    /\ Turns(t, Idle)
    /\ UNCHANGED <<volume, admin, commands, content, updates, overtaken, killed>>

\* The answer to the prompt is no, a call fails, or the user ends the command.
Interrupt(t) ==
    /\ update[t] # Idle
    /\ Turns(t, Idle)
    /\ killed' = (killed \/ Now(t, "write"))
    /\ UNCHANGED <<volume, admin, commands, disk, updates, overtaken>>

---------------------------------------------------------------------------
AdminStep(a) ==
    \/ Deploy(a) \/ SetLatest(a) \/ Remove(a) \/ CreateTempPod(a)
    \/ MakeDirectory(a) \/ BeginCopy(a) \/ EndCopy(a) \/ SetMode(a)
    \/ OpenLatest(a) \/ WriteLatest(a)
    \/ CheckDirectory(a) \/ CompareLatest(a)
    \/ ReadLatest(a) \/ TestVersion(a) \/ RemoveVersion(a)
    \/ Stop(a)

UpdateStep(t) ==
    \/ AskVersion(t) \/ Download(t) \/ OpenTmp(t) \/ WriteTmp(t)
    \/ SetPermissions(t) \/ Replace(t) \/ Interrupt(t)

Next ==
    \/ \E a \in Admins : AdminStep(a)
    \/ \E t \in Terminals : UpdateStep(t)

Spec == Init /\ [][Next]_vars

---------------------------------------------------------------------------
(* Properties.                                                               *)

\* Users are told to take a version that is not there.
Dangles == latest # Blank /\ store[latest] = "absent"

\* The calls of a removal, a set-latest and a deploy each trust what the command
\* read or wrote calls before.  However they overlap, and wherever they fail, the
\* latest version is missing only through a command that another one has
\* overtaken since: a removal whose version was made the latest after it had
\* read `latest`, or one that points to a version that was removed after it had
\* found or written it.
LatestIsServed ==
    [][Dangles' => Dangles \/ \E a \in overtaken : admin'[a] # admin[a]]_vars

\* A deploy releases what it has copied to the end, or nothing: in between no
\* call failed, and nobody else wrote or removed the file without overtaking it.
ReleaseIsWhole ==
    [][\A a \in Admins \ overtaken :
          WriteLatest(a) /\ admin[a].to = "deploy" => store[latest'] = "whole"]_vars

\* When no update is under way and none was interrupted while it wrote, the
\* executable is not torn, however the updates of two terminals overlapped.
SettledIsWritten ==
    (\A t \in Terminals : ~Now(t, "write")) /\ ~killed => content[exe] # Torn
=============================================================================
