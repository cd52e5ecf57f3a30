--------------------------- MODULE CliReleaseProofs ---------------------------
(***************************************************************************)
(* Theorems about CliRelease, for every number of versions, administrators *)
(* and terminals, and however their commands overlap, fail and are         *)
(* interrupted.                                                            *)
(***************************************************************************)
EXTENDS CliRelease, FiniteSetTheorems, TLAPS

-----------------------------------------------------------------------------
(* The inductive invariants *)

\* What a command has read or written calls before still is so: a copy that
\* runs is its own, one that ended is whole, the directory a set-latest found is
\* there, a removal has let no version pass that is the latest.
Sound(a) ==
    /\ At(a, "copying") => store[admin[a].version] = "partial" /\ writer[admin[a].version] = a
    /\ admin[a].stage \in {"chmod", "point", "pointing"} /\ admin[a].to = "deploy"
         => store[admin[a].version] = "whole"
    /\ admin[a].stage \in {"compare", "point", "pointing"} => store[admin[a].version] # "absent"
    /\ At(a, "test") => /\ latest \in admin[a].versions => latest = admin[a].seen
                        /\ admin[a].seen \in admin[a].versions => admin[a].seen \in admin[a].untested
    /\ At(a, "confirm") => latest \notin admin[a].versions

ReleaseInv == \A a \in Admins \ overtaken : Sound(a)

\* A file that is empty is being written, unless an update was interrupted then.
TornIsBeingWritten ==
    ~killed => \A i \in Inodes : content[i] = Torn
                  => \E t \in Terminals : Now(t, "write") /\ update[t].into = i
-----------------------------------------------------------------------------
(* Types are kept *)

Commands == {Idle} \cup Deploys \cup Pointings \cup Removals
UpdateSteps == {Idle} \cup Updates

\* Which commands there are at a stage.
LEMMA CommandShapes ==
  ASSUME NEW c \in Commands
  PROVE  /\ c.stage = "idle" => c = Idle
         /\ c.stage \in {"mkdir", "copy", "copying", "chmod"} => c \in Deploys /\ c.version \in Versions
         /\ c.stage \in {"point", "pointing"} => c \in Deploys \cup Pointings /\ c.version \in Stable
         /\ c.stage = "compare" => c \in Pointings /\ c.version \in Stable
         /\ c.stage = "check" => c \in Pointings \cup Removals
         /\ c.stage \in {"test", "confirm"} => c \in Removals
         /\ c # Idle => c.stage # "idle" /\ c \in Deploys \cup Pointings \cup Removals
         /\ c \in Deploys => c.to = "deploy"
         /\ c \in Pointings => c.to = "set-latest"
         /\ c \in Removals => c.to = "remove"
         /\ c.stage \in {"idle", "wait", "mkdir", "copy", "copying", "chmod", "point", "pointing",
                         "check", "compare", "test", "confirm"}
  <1>1. CASE c = Idle
    BY <1>1 DEF Idle, Deploys, Pointings, Removals
  <1>2. CASE c \in Deploys
    BY <1>2, CliReleaseAssumption DEF Idle, Deploys, Pointings, Removals
  <1>3. CASE c \in Pointings
    BY <1>3, CliReleaseAssumption DEF Idle, Deploys, Pointings, Removals
  <1>4. CASE c \in Removals
    BY <1>4 DEF Idle, Deploys, Pointings, Removals
  <1> QED BY <1>1, <1>2, <1>3, <1>4 DEF Commands

LEMMA StageTyped ==
  ASSUME NEW c \in Commands, NEW stage
  PROVE  LET d == [c EXCEPT !.stage = stage]
         IN  /\ c \in Deploys /\ stage \in {"mkdir", "copy", "copying", "chmod"} => d \in Deploys
             /\ c \in Deploys /\ c.release /\ stage = "point" => d \in Deploys
             /\ c \in Deploys /\ c.stage = "point" /\ stage = "pointing" => d \in Deploys
             /\ c \in Pointings /\ stage \in {"check", "compare", "point", "pointing"} => d \in Pointings
             /\ c \in Removals /\ c.stage = "wait" /\ stage = "check" => d \in Removals
             /\ d.stage = stage
             /\ c \in Deploys \cup Pointings => d.version = c.version
             /\ c \in Deploys \cup Pointings \cup Removals => d.to = c.to
             /\ c \in Removals => d.versions = c.versions
  BY DEF Commands, Idle, Deploys, Pointings, Removals

LEMMA InitTyped ==
  ASSUME Init
  PROVE  TypeOK
  <1>1. Cardinality(Terminals) \in Nat
    BY CliReleaseAssumption, FS_CardinalityType
  <1>2. 1 \in Inodes
    BY <1>1 DEF Inodes
  <1>3. store \in [Versions -> Holds] /\ writer \in [Versions -> Admins \cup {Nobody}]
    BY DEF Init, Holds
  <1>4. content \in [Inodes -> Binary \cup {Torn}]
    BY CliReleaseAssumption DEF Init, Binary
  <1>5. exe \in Inodes /\ tmp \in Inodes \cup {NoInode} /\ latest \in Stable \cup {Blank}
    BY <1>2 DEF Init
  <1>6. commands \in 0..MaxCommands /\ updates \in 0..MaxUpdates
    BY CliReleaseAssumption DEF Init
  <1>7. admin \in [Admins -> {Idle} \cup Deploys \cup Pointings \cup Removals]
    BY DEF Init
  <1>8. update \in [Terminals -> {Idle} \cup Updates]
    BY DEF Init
  <1>9. overtaken \subseteq Admins /\ killed \in BOOLEAN
    BY DEF Init
  <1> QED BY <1>3, <1>4, <1>5, <1>6, <1>7, <1>8, <1>9 DEF TypeOK

LEMMA GiveTyped ==
  ASSUME TypeOK, NEW a \in Admins, NEW c \in Commands, Give(a, c)
  PROVE  TypeOK'
  BY CliReleaseAssumption DEF TypeOK, Give, Commands, volume, disk

LEMMA GoesTyped ==
  ASSUME TypeOK, NEW a \in Admins, NEW stage, Goes(a, stage),
         [admin[a] EXCEPT !.stage = stage] \in Commands
  PROVE  admin' \in [Admins -> Commands]
  BY DEF TypeOK, Goes, Commands

LEMMA EndsTyped ==
  ASSUME TypeOK, NEW a \in Admins, Ends(a)
  PROVE  admin' \in [Admins -> Commands]
  BY DEF TypeOK, Ends, Commands

LEMMA PutsTyped ==
  ASSUME TypeOK, NEW v \in Versions, NEW what \in Holds, Puts(v, what)
  PROVE  store' \in [Versions -> Holds]
  BY DEF TypeOK, Puts

\* c is the command of a after one more test.
NextTest(a, c) ==
    \E v \in admin[a].untested :
        LET rest == admin[a].untested \ {v}
        IN  /\ v # admin[a].seen
            /\ c = IF rest = {}
                   THEN [stage |-> "confirm", to |-> "remove", versions |-> admin[a].versions]
                   ELSE [stage |-> "test", to |-> "remove", versions |-> admin[a].versions,
                         untested |-> rest, seen |-> admin[a].seen]

\* The fields of a removal that tests, and what is left of it after a test.
LEMMA TestShape ==
  ASSUME NEW c \in Commands, c.stage = "test"
  PROVE  /\ c.versions \subseteq Versions /\ c.untested \subseteq Versions
         /\ c.seen \in Stable \cup {Blank}
         /\ \A S : [c EXCEPT !.untested = S]
                   = [stage |-> "test", to |-> "remove", versions |-> c.versions,
                      untested |-> S, seen |-> c.seen]
  <1>1. c \in [stage : {"test"}, to : {"remove"}, versions : SUBSET Versions,
                untested : SUBSET Versions, seen : Stable \cup {Blank}]
    BY CommandShapes DEF Removals
  <1> QED BY <1>1

LEMMA TestsNext ==
  ASSUME TypeOK, NEW a \in Admins, TestVersion(a)
  PROVE  \E c : admin' = [admin EXCEPT ![a] = c] /\ NextTest(a, c)
  <1>1. admin[a] \in Commands /\ admin[a].stage = "test"
    BY DEF TypeOK, Commands, TestVersion, At
  <1>2. \A S : [admin[a] EXCEPT !.untested = S]
              = [stage |-> "test", to |-> "remove", versions |-> admin[a].versions,
                 untested |-> S, seen |-> admin[a].seen]
    BY <1>1, TestShape
  <1>3. PICK v \in admin[a].untested :
           /\ v # admin[a].seen
           /\ admin' = [admin EXCEPT ![a] =
                 IF admin[a].untested \ {v} = {}
                 THEN [stage |-> "confirm", to |-> "remove", versions |-> admin[a].versions]
                 ELSE [admin[a] EXCEPT !.untested = admin[a].untested \ {v}]]
    BY DEF TestVersion
  <1> DEFINE c == IF admin[a].untested \ {v} = {}
                  THEN [stage |-> "confirm", to |-> "remove", versions |-> admin[a].versions]
                  ELSE [stage |-> "test", to |-> "remove", versions |-> admin[a].versions,
                        untested |-> admin[a].untested \ {v}, seen |-> admin[a].seen]
  <1>4. admin' = [admin EXCEPT ![a] = c]
    BY <1>2, <1>3
  <1>5. NextTest(a, c)
    BY <1>3 DEF NextTest
  <1> QED BY <1>4, <1>5

LEMMA TestTyped ==
  ASSUME TypeOK, NEW a \in Admins, At(a, "test"), NEW c, NextTest(a, c)
  PROVE  c \in Commands
  <1>1. /\ admin[a].versions \subseteq Versions /\ admin[a].untested \subseteq Versions
        /\ admin[a].seen \in Stable \cup {Blank}
    BY TestShape DEF TypeOK, Commands, At
  <1>2. PICK v \in admin[a].untested :
           c = IF admin[a].untested \ {v} = {}
               THEN [stage |-> "confirm", to |-> "remove", versions |-> admin[a].versions]
               ELSE [stage |-> "test", to |-> "remove", versions |-> admin[a].versions,
                     untested |-> admin[a].untested \ {v}, seen |-> admin[a].seen]
    BY DEF NextTest
  <1> QED BY <1>1, <1>2 DEF Commands, Removals

LEMMA AdminTyped ==
  ASSUME TypeOK, NEW a \in Admins, AdminStep(a)
  PROVE  TypeOK'
  <1> USE DEF volume, disk
  <1>a. admin[a] \in Commands
    BY DEF TypeOK, Commands
  <1>1. CASE Deploy(a)
    <2>1. PICK v \in Versions, release \in BOOLEAN :
             /\ release => v \in Stable
             /\ Give(a, [stage |-> "wait", to |-> "deploy", version |-> v, release |-> release])
      BY <1>1 DEF Deploy
    <2>2. [stage |-> "wait", to |-> "deploy", version |-> v, release |-> release] \in Commands
      BY <2>1 DEF Commands, Deploys
    <2> QED BY <2>1, <2>2, GiveTyped
  <1>2. CASE SetLatest(a)
    <2>1. PICK v \in Stable : Give(a, [stage |-> "wait", to |-> "set-latest", version |-> v])
      BY <1>2 DEF SetLatest
    <2>2. [stage |-> "wait", to |-> "set-latest", version |-> v] \in Commands
      BY DEF Commands, Pointings
    <2> QED BY <2>1, <2>2, GiveTyped
  <1>3. CASE Remove(a)
    <2>1. PICK V \in SUBSET Versions : Give(a, [stage |-> "wait", to |-> "remove", versions |-> V])
      BY <1>3 DEF Remove
    <2>2. [stage |-> "wait", to |-> "remove", versions |-> V] \in Commands
      BY DEF Commands, Removals
    <2> QED BY <2>1, <2>2, GiveTyped
  <1>4. CASE CreateTempPod(a)
    <2>1. admin' \in [Admins -> Commands]
      <3>1. CASE Goes(a, IF admin[a].to = "deploy" THEN "mkdir" ELSE "check")
        <4>1. admin[a] \in Deploys \cup Pointings \cup Removals
          BY <1>4, <1>a, CommandShapes DEF CreateTempPod, At, Idle
        <4>2. CASE admin[a] \in Deploys
          BY <3>1, <4>2, <1>a, CommandShapes, StageTyped, GoesTyped DEF Commands
        <4>3. CASE admin[a] \in Pointings \cup Removals
          <5>1. CASE admin[a] \in Pointings
            BY <3>1, <5>1, <1>a, CommandShapes, StageTyped, GoesTyped DEF Commands
          <5>2. CASE admin[a] \in Removals
            <6>1. admin[a].stage = "wait"
              BY <1>4 DEF CreateTempPod, At
            <6>2. [admin[a] EXCEPT !.stage = "check"] \in Commands
              BY <5>2, <6>1, <1>a, StageTyped DEF Commands
            <6>3. Goes(a, "check")
              BY <3>1, <5>2, <1>a, CommandShapes
            <6> QED BY <6>2, <6>3, GoesTyped
          <5> QED BY <4>3, <5>1, <5>2
        <4> QED BY <4>1, <4>2, <4>3
      <3>2. ASSUME NEW b \in Admins \ {a}, admin' = [admin EXCEPT ![a] = Idle, ![b] = Idle]
            PROVE  admin' \in [Admins -> Commands]
        BY <3>2 DEF TypeOK, Commands
      <3> QED BY <1>4, <3>1, <3>2 DEF CreateTempPod
    <2> QED BY <1>4, <2>1 DEF CreateTempPod, TypeOK, Commands
  <1>5. CASE MakeDirectory(a)
    <2>1. admin[a] \in Deploys /\ admin[a].version \in Versions
      BY <1>5, <1>a, CommandShapes DEF MakeDirectory, At
    <2>2. admin' \in [Admins -> Commands]
      BY <1>5, <2>1, <1>a, StageTyped, GoesTyped DEF MakeDirectory, Commands
    <2>3. store' \in [Versions -> Holds]
      BY <1>5, <2>1, PutsTyped DEF MakeDirectory, Holds, TypeOK
    <2> QED BY <1>5, <2>2, <2>3 DEF MakeDirectory, TypeOK, Commands
  <1>6. CASE BeginCopy(a)
    <2>1. admin[a] \in Deploys /\ admin[a].version \in Versions
      BY <1>6, <1>a, CommandShapes DEF BeginCopy, At
    <2>2. admin' \in [Admins -> Commands]
      BY <1>6, <2>1, <1>a, StageTyped, GoesTyped DEF BeginCopy, Commands
    <2>3. store' \in [Versions -> Holds]
      BY <1>6, <2>1, PutsTyped DEF BeginCopy, Holds
    <2>4. writer' \in [Versions -> Admins \cup {Nobody}] /\ overtaken' \subseteq Admins
      BY <1>6, <2>1 DEF BeginCopy, TypeOK, RelyOnCopy, RelyOnDirectory
    <2> QED BY <1>6, <2>2, <2>3, <2>4 DEF BeginCopy, TypeOK, Commands
  <1>7. CASE EndCopy(a)
    <2>1. admin[a] \in Deploys /\ admin[a].version \in Versions
      BY <1>7, <1>a, CommandShapes DEF EndCopy, At
    <2>2. admin' \in [Admins -> Commands]
      BY <1>7, <2>1, <1>a, StageTyped, GoesTyped DEF EndCopy, Commands
    <2>3. store' \in [Versions -> Holds]
      BY <1>7, <2>1, PutsTyped DEF EndCopy, Holds, TypeOK
    <2> QED BY <1>7, <2>2, <2>3 DEF EndCopy, TypeOK, Commands
  <1>8. CASE SetMode(a)
    <2>1. admin[a] \in Deploys /\ admin[a].release \in BOOLEAN
      BY <1>8, <1>a, CommandShapes DEF SetMode, At, Deploys
    <2>2. admin' \in [Admins -> Commands]
      BY <1>8, <2>1, <1>a, StageTyped, GoesTyped, EndsTyped DEF SetMode, Commands
    <2> QED BY <1>8, <2>2 DEF SetMode, TypeOK, Commands
  <1>9. CASE OpenLatest(a)
    <2>1. admin[a] \in Deploys \cup Pointings /\ admin[a].version \in Stable /\ admin[a].stage = "point"
      BY <1>9, <1>a, CommandShapes DEF OpenLatest, At
    <2>2. admin' \in [Admins -> Commands]
      BY <1>9, <2>1, <1>a, StageTyped, GoesTyped DEF OpenLatest, Commands
    <2> QED BY <1>9, <2>2 DEF OpenLatest, TypeOK, Commands
  <1>10. CASE WriteLatest(a)
    <2>1. admin[a].version \in Stable
      BY <1>10, <1>a, CommandShapes DEF WriteLatest, At
    <2>2. overtaken' \subseteq Admins
      BY <1>10 DEF WriteLatest, TypeOK, RelyOnLatest
    <2> QED BY <1>10, <2>1, <2>2, EndsTyped DEF WriteLatest, TypeOK, Commands
  <1>11. CASE CheckDirectory(a)
    <2>1. admin[a] \in Pointings
      BY <1>11, <1>a, CommandShapes DEF CheckDirectory, At
    <2>2. admin' \in [Admins -> Commands]
      BY <1>11, <2>1, <1>a, StageTyped, GoesTyped DEF CheckDirectory, Commands
    <2>3. overtaken' \subseteq Admins
      BY <1>11 DEF CheckDirectory, TypeOK
    <2> QED BY <1>11, <2>2, <2>3 DEF CheckDirectory, TypeOK, Commands
  <1>12. CASE CompareLatest(a)
    <2>1. admin[a] \in Pointings
      BY <1>12, <1>a, CommandShapes DEF CompareLatest, At
    <2>2. admin' \in [Admins -> Commands]
      BY <1>12, <2>1, <1>a, StageTyped, GoesTyped, EndsTyped DEF CompareLatest, Commands
    <2> QED BY <1>12, <2>2 DEF CompareLatest, TypeOK, Commands
  <1>15. CASE ReadLatest(a)
    <2> DEFINE c == [stage |-> "test", to |-> "remove", versions |-> admin[a].versions,
                     untested |-> admin[a].versions, seen |-> latest]
    <2>1. admin[a] \in Removals
      BY <1>15, <1>a, CommandShapes DEF ReadLatest, At
    <2>2. c \in Commands
      BY <2>1 DEF Removals, Commands, TypeOK
    <2>3. admin' = [admin EXCEPT ![a] = c]
      BY <1>15 DEF ReadLatest
    <2> HIDE DEF c
    <2>4. admin' \in [Admins -> Commands]
      BY <2>2, <2>3 DEF TypeOK, Commands
    <2>5. overtaken' \subseteq Admins
      BY <1>15 DEF ReadLatest, TypeOK
    <2> QED BY <1>15, <2>4, <2>5 DEF ReadLatest, TypeOK, Commands
  <1>16. CASE TestVersion(a)
    <2>1. PICK c : admin' = [admin EXCEPT ![a] = c] /\ NextTest(a, c)
      BY <1>16, TestsNext
    <2>2. c \in Commands
      BY <1>16, <1>a, <2>1, TestTyped DEF TestVersion
    <2>3. admin' \in [Admins -> Commands]
      BY <2>1, <2>2 DEF TypeOK, Commands
    <2> QED BY <1>16, <2>3 DEF TestVersion, TypeOK, Commands
  <1>13. CASE RemoveVersion(a)
    <2>1. admin[a] \in Removals
      BY <1>13, <1>a, CommandShapes DEF RemoveVersion, At
    <2>2. PICK v \in admin[a].versions :
             /\ Puts(v, "absent")
             /\ IF admin[a].versions \ {v} = {} THEN Ends(a)
                ELSE admin' = [admin EXCEPT ![a].versions = admin[a].versions \ {v}]
      BY <1>13 DEF RemoveVersion
    <2>3. v \in Versions
      BY <2>1 DEF Removals
    <2>4. [admin[a] EXCEPT !.versions = admin[a].versions \ {v}] \in Removals
      BY <2>1 DEF Removals
    <2>5. admin' \in [Admins -> Commands]
      BY <2>2, <2>4, EndsTyped DEF TypeOK, Commands
    <2>6. store' \in [Versions -> Holds]
      BY <2>2, <2>3, PutsTyped DEF Holds
    <2>7. overtaken' \subseteq Admins
      BY <1>13 DEF RemoveVersion, TypeOK, RelyOnDirectory
    <2> QED BY <1>13, <2>5, <2>6, <2>7 DEF RemoveVersion, TypeOK, Commands
  <1>14. CASE Stop(a)
    BY <1>14, EndsTyped DEF Stop, TypeOK, Commands
  <1> QED
    BY <1>1, <1>2, <1>3, <1>4, <1>5, <1>6, <1>7, <1>8, <1>9, <1>10, <1>11, <1>12, <1>13, <1>14,
       <1>15, <1>16
    DEF AdminStep

LEMMA UpdateShapes ==
  ASSUME NEW u \in UpdateSteps
  PROVE  /\ u.stage = "idle" => u = Idle
         /\ u.stage = "confirm" => u.target \in Versions \cup {Blank}
         /\ u.stage \in {"open", "write", "mode", "rename"} => u.data \in Binary
         /\ u.stage = "mode" => [u EXCEPT !.stage = "rename"] \in Updates
         /\ u.stage = "write" => u.into \in Inodes
  <1>1. CASE u = Idle
    BY <1>1 DEF Idle
  <1>2. CASE u \in Updates
    BY <1>2 DEF Updates, Idle
  <1> QED BY <1>1, <1>2 DEF UpdateSteps

LEMMA TurnsTyped ==
  ASSUME TypeOK, NEW t \in Terminals, NEW what \in UpdateSteps, Turns(t, what)
  PROVE  /\ update' \in [Terminals -> UpdateSteps]
         /\ update'[t] = what
         /\ \A u \in Terminals \ {t} : update'[u] = update[u]
  BY DEF TypeOK, Turns, UpdateSteps

\* There is an inode for a new file: each terminal writes at most one.
LEMMA SomeInodeIsUnused ==
  ASSUME TypeOK, tmp = NoInode
  PROVE  Unused # {} /\ Unused \subseteq Inodes
  <1> DEFINE n == Cardinality(Terminals)
             writers == {u \in Terminals : Now(u, "write")}
             written == {update[t].into : t \in writers}
  <1>1. n \in Nat /\ IsFiniteSet(writers) /\ Cardinality(writers) \in Nat /\ Cardinality(writers) <= n
    <2>1. IsFiniteSet(Terminals) /\ writers \in SUBSET Terminals
      BY CliReleaseAssumption
    <2>2. IsFiniteSet(writers) /\ Cardinality(writers) <= n
      BY <2>1, FS_Subset
    <2> QED BY <2>1, <2>2, FS_CardinalityType
  <1>2. IsFiniteSet(written) /\ Cardinality(written) <= Cardinality(writers)
    <2> DEFINE into == [t \in writers |-> update[t].into]
    <2>1. into \in Surjection(writers, written)
      BY DEF Surjection
    <2> HIDE DEF into, writers, written
    <2> QED BY <1>1, <2>1, FS_Surjection
  <1> HIDE DEF written, writers
  <1>3. IsFiniteSet(written \cup {exe}) /\ Cardinality(written \cup {exe}) <= 1 + n
    <2>1. Cardinality(written) \in Nat
      BY <1>2, FS_CardinalityType
    <2>2. /\ IsFiniteSet(written \cup {exe})
          /\ Cardinality(written \cup {exe})
               = IF exe \in written THEN Cardinality(written) ELSE Cardinality(written) + 1
      BY <1>2, FS_AddElement
    <2> HIDE DEF n
    <2> QED BY <1>1, <1>2, <2>1, <2>2
  <1>4. Cardinality(Inodes) = 2 + n
    BY <1>1, FS_Interval DEF Inodes
  <1>5. ASSUME Unused = {} PROVE FALSE
    <2>1. Inodes \subseteq written \cup {exe}
      BY <1>1, <1>5 DEF Unused, Inodes, NoInode, written, writers
    <2>2. Cardinality(Inodes) <= Cardinality(written \cup {exe})
      BY <2>1, <1>3, FS_Subset
    <2>3. Cardinality(written \cup {exe}) \in Nat
      BY <1>3, FS_CardinalityType
    <2> HIDE DEF n
    <2> QED BY <2>2, <2>3, <1>1, <1>3, <1>4
  <1> QED BY <1>5 DEF Unused

LEMMA UpdateTyped ==
  ASSUME TypeOK, NEW t \in Terminals, UpdateStep(t)
  PROVE  TypeOK'
  <1> USE DEF volume, disk
  <1>a. update[t] \in UpdateSteps
    BY DEF TypeOK, UpdateSteps
  <1>1. CASE AskVersion(t)
    <2>1. PICK target \in Told \cup Versions :
             Turns(t, IF target = content[exe].of THEN Idle
                      ELSE [stage |-> "confirm", target |-> target])
      BY <1>1 DEF AskVersion
    <2>2. target \in Versions \cup {Blank}
      BY CliReleaseAssumption DEF Told, Newest, Listed, TypeOK
    <2>3. [stage |-> "confirm", target |-> target] \in UpdateSteps /\ Idle \in UpdateSteps
      BY <2>2 DEF UpdateSteps, Updates
    <2>4. update' \in [Terminals -> UpdateSteps]
      BY <2>1, <2>3, TurnsTyped
    <2>5. updates' \in 0..MaxUpdates
      BY <1>1, CliReleaseAssumption DEF AskVersion, TypeOK
    <2> QED BY <1>1, <2>4, <2>5 DEF AskVersion, TypeOK, UpdateSteps
  <1>2. CASE Download(t)
    <2>1. update[t].target \in Versions \cup {Blank}
      BY <1>2, <1>a, UpdateShapes DEF Download, Now
    <2> DEFINE v == update[t].target
               binary == [of |-> v, is |-> store[v]]
    <2>2. CASE v # Blank /\ HasFile(v)
      <3>1. binary \in Binary
        BY <2>1, <2>2 DEF HasFile, Binary, TypeOK
      <3>2. [stage |-> "open", data |-> binary] \in UpdateSteps
        BY <3>1 DEF UpdateSteps, Updates
      <3>3. Turns(t, [stage |-> "open", data |-> binary])
        BY <1>2, <2>2 DEF Download
      <3>4. update' \in [Terminals -> UpdateSteps]
        BY <3>2, <3>3, TurnsTyped
      <3> QED BY <1>2, <3>4 DEF Download, TypeOK, UpdateSteps
    <2>3. CASE ~(v # Blank /\ HasFile(v))
      <3>1. Turns(t, Idle) /\ Idle \in UpdateSteps
        BY <1>2, <2>3 DEF Download, UpdateSteps
      <3>2. update' \in [Terminals -> UpdateSteps]
        BY <3>1, TurnsTyped
      <3> QED BY <1>2, <3>2 DEF Download, TypeOK, UpdateSteps
    <2> QED BY <2>2, <2>3
  <1>3. CASE OpenTmp(t)
    <2> DEFINE i == IF tmp # NoInode THEN tmp ELSE CHOOSE x \in Unused : TRUE
    <2>1. i \in Inodes
      BY SomeInodeIsUnused DEF TypeOK
    <2>2. update[t].data \in Binary
      BY <1>3, <1>a, UpdateShapes DEF OpenTmp, Now
    <2>3. [stage |-> "write", data |-> update[t].data, into |-> i] \in UpdateSteps
      BY <2>1, <2>2 DEF UpdateSteps, Updates
    <2>4. /\ tmp' = i
          /\ content' = [content EXCEPT ![i] = Torn]
          /\ Turns(t, [stage |-> "write", data |-> update[t].data, into |-> i])
      BY <1>3 DEF OpenTmp
    <2> HIDE DEF i
    <2>5. update' \in [Terminals -> UpdateSteps]
      BY <2>3, <2>4, TurnsTyped
    <2>6. content' \in [Inodes -> Binary \cup {Torn}]
      BY <2>1, <2>4 DEF TypeOK
    <2> QED BY <1>3, <2>1, <2>4, <2>5, <2>6 DEF OpenTmp, TypeOK, UpdateSteps
  <1>4. CASE WriteTmp(t)
    <2>1. update[t].data \in Binary /\ update[t].into \in Inodes
      BY <1>4, <1>a, UpdateShapes DEF WriteTmp, Now
    <2>2. [stage |-> "mode", data |-> update[t].data] \in UpdateSteps
      BY <2>1 DEF UpdateSteps, Updates
    <2>3. update' \in [Terminals -> UpdateSteps]
      BY <1>4, <2>2, TurnsTyped DEF WriteTmp
    <2>4. content' \in [Inodes -> Binary \cup {Torn}]
      BY <1>4, <2>1 DEF WriteTmp, TypeOK
    <2> QED BY <1>4, <2>3, <2>4 DEF WriteTmp, TypeOK, UpdateSteps
  <1>5. CASE SetPermissions(t)
    <2>1. [update[t] EXCEPT !.stage = "rename"] \in UpdateSteps /\ Idle \in UpdateSteps
      BY <1>5, <1>a, UpdateShapes DEF SetPermissions, Now, UpdateSteps
    <2>2. update' \in [Terminals -> UpdateSteps]
      BY <1>5, <2>1, TurnsTyped DEF SetPermissions
    <2> QED BY <1>5, <2>2 DEF SetPermissions, TypeOK, UpdateSteps
  <1>6. CASE Replace(t)
    <2>1. update' \in [Terminals -> UpdateSteps]
      BY <1>6, TurnsTyped DEF Replace, UpdateSteps
    <2> QED BY <1>6, <2>1 DEF Replace, TypeOK, UpdateSteps
  <1>7. CASE Interrupt(t)
    <2>1. update' \in [Terminals -> UpdateSteps]
      BY <1>7, TurnsTyped DEF Interrupt, UpdateSteps
    <2>2. killed' \in BOOLEAN
      BY <1>7 DEF Interrupt, TypeOK, Now
    <2> QED BY <1>7, <2>1, <2>2 DEF Interrupt, TypeOK, UpdateSteps
  <1> QED BY <1>1, <1>2, <1>3, <1>4, <1>5, <1>6, <1>7 DEF UpdateStep

\* However commands and updates overlap, what each carries from one call to the
\* next is what its next call needs, and there is always an inode for the file
\* an update opens.
THEOREM ReleaseTypes ==
  Spec => []TypeOK
  <1>1. ASSUME TypeOK, UNCHANGED vars
        PROVE  TypeOK'
    BY <1>1 DEF TypeOK, vars
  <1>2. TypeOK /\ [Next]_vars => TypeOK'
    BY <1>1, AdminTyped, UpdateTyped DEF Next
  <1> QED BY InitTyped, <1>2, PTL DEF Spec
-----------------------------------------------------------------------------
(* The latest version is served *)

LEMMA EndsHere ==
  ASSUME TypeOK, NEW a \in Admins, Ends(a)
  PROVE  /\ admin'[a] = Idle
         /\ \A b \in Admins \ {a} : admin'[b] = admin[b]
  BY DEF TypeOK, Ends

LEMMA GoesTo ==
  ASSUME TypeOK, NEW a \in Admins, NEW stage, Goes(a, stage)
  PROVE  /\ \A b \in Admins \ {a} : admin'[b] = admin[b]
         /\ admin'[a].stage = stage
         /\ admin[a] \in Deploys \cup Pointings => /\ admin'[a].version = admin[a].version
                                                  /\ admin'[a].to = admin[a].to
  <1>1. admin[a] \in Commands
    BY DEF TypeOK, Commands
  <1>2. /\ admin'[a] = [admin[a] EXCEPT !.stage = stage]
        /\ \A b \in Admins \ {a} : admin'[b] = admin[b]
    BY DEF TypeOK, Goes
  <1> QED BY <1>1, <1>2, StageTyped

LEMMA GivenIs ==
  ASSUME TypeOK, NEW a \in Admins, NEW c, Give(a, c)
  PROVE  /\ admin'[a] = c
         /\ \A b \in Admins \ {a} : admin'[b] = admin[b]
         /\ UNCHANGED <<store, writer, latest, overtaken>>
  BY DEF Give, TypeOK, volume

\* A command that has not read or written anything is sound.
LEMMA FreshIsSound ==
  ASSUME NEW a, admin[a].stage \in {"idle", "wait", "check", "mkdir", "copy"}
  PROVE  Sound(a)
  BY DEF Sound, At

LEMMA StaysSound ==
  ASSUME NEW a, Sound(a), admin'[a] = admin[a], UNCHANGED <<store, writer, latest>>
  PROVE  Sound(a)'
  BY DEF Sound, At

\* A step of a keeps the invariant if it leaves a sound and every other command
\* too unless it overtakes it.
LEMMA OneCommandSteps ==
  ASSUME ReleaseInv, NEW a \in Admins,
         overtaken \ {a} \subseteq overtaken',
         a \notin overtaken' => Sound(a)',
         \A b \in Admins \ ({a} \cup overtaken') :
            /\ admin'[b] \in {admin[b], Idle}
            /\ admin'[b] = admin[b] /\ Sound(b) => Sound(b)'
  PROVE  ReleaseInv'
  <1> SUFFICES ASSUME NEW b \in Admins \ overtaken', b # a
               PROVE  Sound(b)'
    BY DEF ReleaseInv
  <1>1. Sound(b)
    BY DEF ReleaseInv
  <1>2. CASE admin'[b] = Idle
    BY <1>2 DEF Sound, At, Idle
  <1> QED BY <1>1, <1>2

\* A step of a that leaves the volume alone and overtakes nobody.
LEMMA NothingTouched ==
  ASSUME ReleaseInv, NEW a \in Admins,
         UNCHANGED <<store, writer, latest>>,
         overtaken \ {a} \subseteq overtaken',
         \A b \in Admins \ {a} : admin'[b] \in {admin[b], Idle},
         a \notin overtaken' => Sound(a)'
  PROVE  ReleaseInv'
  <1>1. \A b : admin'[b] = admin[b] /\ Sound(b) => Sound(b)'
    BY StaysSound
  <1> QED BY <1>1, OneCommandSteps

\* What a command relies on when it is sound, as far as another may disturb it.
LEMMA OthersRely ==
  ASSUME TypeOK, NEW a \in Admins, NEW b \in Admins \ {a},
         admin'[b] = admin[b], Sound(b)
  PROVE  LET v == admin[b].version
             copied == admin[b].stage \in {"copying", "chmod", "point", "pointing"}
                       /\ admin[b].to = "deploy"
             found == admin[b].stage \in {"compare", "copying", "chmod", "point", "pointing"}
             tested == admin[b].stage \in {"test", "confirm"}
         IN  /\ (/\ tested => latest' = latest \/ latest' \notin admin[b].versions
                 /\ copied => store'[v] = store[v] /\ writer'[v] = writer[v]
                 /\ found /\ store[v] # "absent" => store'[v] # "absent") => Sound(b)'
             /\ found => v \in Versions
             /\ tested => admin[b].versions \subseteq Versions
  <1>1. admin[b] \in Commands
    BY DEF TypeOK, Commands
  <1>2. admin[b].stage \in {"copying", "chmod"} => admin[b].to = "deploy"
    BY <1>1, CommandShapes
  <1>3. admin[b].stage \in {"compare", "copying", "chmod", "point", "pointing"}
          => admin[b].version \in Versions
    BY <1>1, CommandShapes, CliReleaseAssumption
  <1>4. admin[b].stage \in {"test", "confirm"} => admin[b].versions \subseteq Versions
    BY <1>1, CommandShapes DEF Removals
  <1>5. ASSUME admin[b].stage \in {"test", "confirm"}, latest' = latest \/ latest' \notin admin[b].versions
        PROVE  Sound(b)'
    <2>1. admin[b].stage = "test" =>
             /\ latest' \in admin[b].versions => latest' = admin[b].seen
             /\ admin[b].seen \in admin[b].versions => admin[b].seen \in admin[b].untested
      BY <1>5 DEF Sound, At
    <2>2. admin[b].stage = "confirm" => latest' \notin admin[b].versions
      BY <1>5 DEF Sound, At
    <2> QED BY <1>5, <2>1, <2>2 DEF Sound, At
  <1>6. ASSUME admin[b].stage \notin {"test", "confirm"},
               LET v == admin[b].version IN
               /\ admin[b].stage \in {"copying", "chmod", "point", "pointing"} /\ admin[b].to = "deploy"
                    => store'[v] = store[v] /\ writer'[v] = writer[v]
               /\ admin[b].stage \in {"compare", "copying", "chmod", "point", "pointing"}
                  /\ store[v] # "absent" => store'[v] # "absent"
        PROVE  Sound(b)'
    BY <1>2, <1>6 DEF Sound, At
  <1> QED BY <1>3, <1>4, <1>5, <1>6

LEMMA AdminKeepsRelease ==
  ASSUME TypeOK, ReleaseInv, NEW a \in Admins, AdminStep(a)
  PROVE  ReleaseInv'
  <1>a. admin[a] \in Commands
    BY DEF TypeOK, Commands
  <1>b. a \notin overtaken => Sound(a)
    BY DEF ReleaseInv
  <1>1. CASE Deploy(a) \/ SetLatest(a) \/ Remove(a)
    <2>1. PICK c : Give(a, c) /\ c.stage = "wait"
      <3>1. CASE Deploy(a)
        <4>1. PICK v \in Versions, release \in BOOLEAN :
                 Give(a, [stage |-> "wait", to |-> "deploy", version |-> v, release |-> release])
          BY <3>1 DEF Deploy
        <4> QED BY <4>1
      <3>2. CASE SetLatest(a)
        <4>1. PICK v \in Stable : Give(a, [stage |-> "wait", to |-> "set-latest", version |-> v])
          BY <3>2 DEF SetLatest
        <4> QED BY <4>1
      <3>3. CASE Remove(a)
        <4>1. PICK V \in SUBSET Versions : Give(a, [stage |-> "wait", to |-> "remove", versions |-> V])
          BY <3>3 DEF Remove
        <4> QED BY <4>1
      <3> QED BY <1>1, <3>1, <3>2, <3>3
    <2>2. admin'[a].stage = "wait" /\ \A b \in Admins \ {a} : admin'[b] = admin[b]
      BY <2>1, GivenIs
    <2>3. UNCHANGED <<store, writer, latest, overtaken>>
      BY <2>1, GivenIs
    <2>4. Sound(a)'
      BY <2>2 DEF Sound, At
    <2> QED BY <2>2, <2>3, <2>4, NothingTouched
  <1>2. CASE CreateTempPod(a)
    <2>1. UNCHANGED <<store, writer, latest, overtaken>>
      BY <1>2 DEF CreateTempPod, volume
    <2>2. CASE Goes(a, IF admin[a].to = "deploy" THEN "mkdir" ELSE "check")
      <3>1. admin'[a].stage \in {"mkdir", "check"} /\ \A b \in Admins \ {a} : admin'[b] = admin[b]
        BY <2>2, GoesTo
      <3>2. Sound(a)'
        BY <3>1 DEF Sound, At
      <3> QED BY <2>1, <3>1, <3>2, NothingTouched
    <2>3. ASSUME NEW c \in Admins \ {a}, admin' = [admin EXCEPT ![a] = Idle, ![c] = Idle]
          PROVE  ReleaseInv'
      <3>1. admin'[a] = Idle /\ \A b \in Admins \ {a} : admin'[b] \in {admin[b], Idle}
        BY <2>3 DEF TypeOK
      <3>2. Sound(a)'
        BY <3>1 DEF Sound, At, Idle
      <3> QED BY <2>1, <3>1, <3>2, NothingTouched
    <2> QED BY <1>2, <2>2, <2>3 DEF CreateTempPod
  <1>3. CASE MakeDirectory(a)
    <2> DEFINE v == admin[a].version
    <2>1. v \in Versions
      BY <1>3, <1>a, CommandShapes DEF MakeDirectory, At
    <2>2. admin'[a].stage = "copy" /\ \A b \in Admins \ {a} : admin'[b] = admin[b]
      BY <1>3, GoesTo DEF MakeDirectory
    <2>3. /\ UNCHANGED <<writer, latest, overtaken>>
          /\ \A w \in Versions : store[w] # "absent" => store'[w] = store[w]
      BY <1>3, <2>1 DEF MakeDirectory, Puts, TypeOK
    <2>4. Sound(a)'
      BY <2>2 DEF Sound, At
    <2>5. ASSUME NEW b \in Admins \ {a}, Sound(b) PROVE Sound(b)'
      <3>1. admin[b].stage \in {"copying", "chmod", "point", "pointing"} /\ admin[b].to = "deploy"
              => store[admin[b].version] # "absent"
        BY <2>5 DEF Sound, At
      <3> QED BY <2>2, <2>3, <2>5, <3>1, OthersRely
    <2> QED BY <2>2, <2>3, <2>4, <2>5, OneCommandSteps
  <1>4. CASE BeginCopy(a)
    <2> DEFINE v == admin[a].version
    <2>1. v \in Versions
      BY <1>4, <1>a, CommandShapes DEF BeginCopy, At
    <2>2. /\ \A b \in Admins \ {a} : admin'[b] = admin[b]
          /\ admin'[a].stage = "copying" /\ admin'[a].version = v
      BY <1>4, <1>a, CommandShapes, GoesTo DEF BeginCopy, At
    <2>3. /\ latest' = latest
          /\ overtaken' = (overtaken \ {a}) \cup RelyOnCopy(a, v)
          /\ store[v] # "absent" /\ store'[v] = "partial" /\ writer'[v] = a
          /\ \A w \in Versions \ {v} : store'[w] = store[w] /\ writer'[w] = writer[w]
      BY <1>4, <2>1 DEF BeginCopy, Puts, TypeOK
    <2>4. Sound(a)'
      BY <2>2, <2>3 DEF Sound, At
    <2>5. ASSUME NEW b \in Admins \ ({a} \cup overtaken'), Sound(b) PROVE Sound(b)'
      <3>1. ~(/\ admin[b].stage \in {"copying", "chmod", "point", "pointing"}
              /\ admin[b].to = "deploy" /\ admin[b].version = v)
        BY <2>3, <2>5 DEF RelyOnCopy, RelyOnDirectory
      <3> QED BY <2>2, <2>3, <2>5, <3>1, OthersRely
    <2> QED BY <2>2, <2>3, <2>4, <2>5, OneCommandSteps
  <1>5. CASE EndCopy(a)
    <2> DEFINE v == admin[a].version
    <2>1. admin[a] \in Deploys /\ v \in Versions
      BY <1>5, <1>a, CommandShapes DEF EndCopy, At
    <2>2. /\ \A b \in Admins \ {a} : admin'[b] = admin[b]
          /\ admin'[a].stage = "chmod" /\ admin'[a].version = v
      BY <1>5, <2>1, GoesTo DEF EndCopy
    <2>3. /\ UNCHANGED <<writer, latest, overtaken>>
          /\ store'[v] = IF HasFile(v) /\ writer[v] = a THEN "whole" ELSE store[v]
          /\ \A w \in Versions \ {v} : store'[w] = store[w]
      BY <1>5, <2>1 DEF EndCopy, Puts, TypeOK
    <2>4. a \notin overtaken => Sound(a)'
      <3>1. a \notin overtaken => store[v] = "partial" /\ writer[v] = a
        BY <1>5, <1>b DEF EndCopy, Sound
      <3> QED BY <2>2, <2>3, <3>1 DEF Sound, At, HasFile
    <2>5. ASSUME NEW b \in Admins \ {a}, Sound(b) PROVE Sound(b)'
      <3>1. /\ At(b, "copying") /\ admin[b].version = v => store'[v] = store[v]
            /\ store[v] = "whole" => store'[v] = "whole"
            /\ store[v] # "absent" => store'[v] # "absent"
        BY <2>3, <2>5 DEF Sound, HasFile
      <3>2. admin[b].stage \in {"compare", "copying", "chmod", "point", "pointing"}
              => admin[b].version \in Versions
        BY OthersRely, <2>2, <2>5
      <3> QED BY <2>2, <2>3, <2>5, <3>1, <3>2 DEF Sound, At
    <2> QED BY <2>2, <2>3, <2>4, <2>5, OneCommandSteps
  <1>6. CASE SetMode(a)
    <2>1. admin[a] \in Deploys
      BY <1>6, <1>a, CommandShapes DEF SetMode, At
    <2>2. UNCHANGED <<store, writer, latest, overtaken>>
      BY <1>6 DEF SetMode, volume
    <2>3. CASE Ends(a)
      <3>1. Sound(a)' /\ \A b \in Admins \ {a} : admin'[b] = admin[b]
        BY <2>3, EndsHere DEF Sound, At, Idle
      <3> QED BY <2>2, <3>1, NothingTouched
    <2>4. CASE Goes(a, "point")
      <3>1. /\ \A b \in Admins \ {a} : admin'[b] = admin[b]
            /\ admin'[a].stage = "point" /\ admin'[a].version = admin[a].version
        BY <2>1, <2>4, GoesTo
      <3>2. a \notin overtaken => store[admin[a].version] = "whole"
        <4>1. admin[a].stage = "chmod" /\ admin[a].to = "deploy"
          BY <1>6, <2>1, <1>a, CommandShapes DEF SetMode, At
        <4> QED BY <4>1, <1>b DEF Sound
      <3>3. a \notin overtaken => Sound(a)'
        BY <2>2, <3>1, <3>2 DEF Sound, At
      <3> QED BY <2>2, <3>1, <3>3, NothingTouched
    <2> QED BY <1>6, <2>3, <2>4 DEF SetMode
  <1>7. CASE OpenLatest(a)
    <2> DEFINE v == admin[a].version
    <2>1. admin[a] \in Deploys \cup Pointings
      BY <1>7, <1>a, CommandShapes DEF OpenLatest, At
    <2>2. /\ \A b \in Admins \ {a} : admin'[b] = admin[b]
          /\ admin'[a].stage = "pointing" /\ admin'[a].version = v /\ admin'[a].to = admin[a].to
      BY <1>7, <2>1, GoesTo DEF OpenLatest
    <2>3. UNCHANGED <<store, writer, overtaken>> /\ latest' = Blank
      BY <1>7 DEF OpenLatest
    <2>4. a \notin overtaken => Sound(a)'
      BY <1>7, <1>b, <2>2, <2>3 DEF OpenLatest, Sound, At
    <2>5. ASSUME NEW b \in Admins \ {a}, Sound(b) PROVE Sound(b)'
      <3>1. admin[b].stage \in {"test", "confirm"} => Blank \notin admin[b].versions
        BY <2>2, <2>5, OthersRely, CliReleaseAssumption DEF Blank
      <3> QED BY <2>2, <2>3, <2>5, <3>1, OthersRely
    <2> QED BY <2>2, <2>3, <2>4, <2>5, OneCommandSteps
  <1>8. CASE WriteLatest(a)
    <2> DEFINE v == admin[a].version
    <2>1. admin'[a] = Idle /\ \A b \in Admins \ {a} : admin'[b] = admin[b]
      BY <1>8, EndsHere DEF WriteLatest
    <2>2. /\ UNCHANGED <<store, writer>> /\ latest' = v
          /\ overtaken' = overtaken \cup RelyOnLatest(a, v)
      BY <1>8 DEF WriteLatest
    <2>3. Sound(a)'
      BY <2>1 DEF Sound, At, Idle
    <2>4. ASSUME NEW b \in Admins \ ({a} \cup overtaken'), Sound(b) PROVE Sound(b)'
      <3>1. admin[b].stage \in {"test", "confirm"} => v \notin admin[b].versions
        BY <2>2, <2>4 DEF RelyOnLatest
      <3> QED BY <2>1, <2>2, <2>4, <3>1, OthersRely
    <2> QED BY <2>1, <2>2, <2>3, <2>4, OneCommandSteps
  <1>9. CASE CheckDirectory(a)
    <2>1. admin[a] \in Pointings
      BY <1>9, <1>a, CommandShapes DEF CheckDirectory, At
    <2>2. /\ \A b \in Admins \ {a} : admin'[b] = admin[b]
          /\ admin'[a].stage = "compare" /\ admin'[a].version = admin[a].version
      BY <1>9, <2>1, GoesTo DEF CheckDirectory
    <2>3. /\ UNCHANGED <<store, writer, latest>> /\ store[admin[a].version] # "absent"
          /\ overtaken' = overtaken \ {a}
      BY <1>9 DEF CheckDirectory, volume
    <2>4. Sound(a)'
      BY <2>2, <2>3 DEF Sound, At
    <2> QED BY <2>2, <2>3, <2>4, NothingTouched
  <1>10. CASE CompareLatest(a)
    <2>1. admin[a] \in Pointings /\ admin[a].to = "set-latest" /\ admin[a].stage = "compare"
      BY <1>10, <1>a, CommandShapes DEF CompareLatest, At
    <2>2. UNCHANGED <<store, writer, latest, overtaken>>
      BY <1>10 DEF CompareLatest, volume
    <2>3. CASE Ends(a)
      <3>1. Sound(a)' /\ \A b \in Admins \ {a} : admin'[b] = admin[b]
        BY <2>3, EndsHere DEF Sound, At, Idle
      <3> QED BY <2>2, <3>1, NothingTouched
    <2>4. CASE Goes(a, "point")
      <3>1. /\ \A b \in Admins \ {a} : admin'[b] = admin[b]
            /\ admin'[a].stage = "point" /\ admin'[a].version = admin[a].version
            /\ admin'[a].to = "set-latest"
        BY <2>1, <2>4, GoesTo
      <3>2. a \notin overtaken => Sound(a)'
        BY <2>1, <2>2, <3>1, <1>b DEF Sound, At
      <3> QED BY <2>2, <3>1, <3>2, NothingTouched
    <2> QED BY <1>10, <2>3, <2>4 DEF CompareLatest
  <1>11. CASE ReadLatest(a)
    <2> DEFINE c == [stage |-> "test", to |-> "remove", versions |-> admin[a].versions,
                     untested |-> admin[a].versions, seen |-> latest]
    <2>1. /\ UNCHANGED <<store, writer, latest>> /\ overtaken' = overtaken \ {a}
          /\ admin' = [admin EXCEPT ![a] = c]
      BY <1>11 DEF ReadLatest, volume
    <2>2. admin'[a] = c /\ \A b \in Admins \ {a} : admin'[b] = admin[b]
      BY <2>1 DEF TypeOK
    <2>3. Sound(a)'
      BY <2>1, <2>2 DEF Sound, At
    <2> QED BY <2>1, <2>2, <2>3, NothingTouched
  <1>12. CASE TestVersion(a)
    <2>1. PICK c : admin' = [admin EXCEPT ![a] = c] /\ NextTest(a, c)
      BY <1>12, TestsNext
    <2>2. UNCHANGED <<store, writer, latest, overtaken>> /\ At(a, "test")
      BY <1>12 DEF TestVersion, volume
    <2>3. admin'[a] = c /\ \A b \in Admins \ {a} : admin'[b] = admin[b]
      BY <2>1 DEF TypeOK
    <2>4. PICK v \in admin[a].untested :
             /\ v # admin[a].seen
             /\ c = IF admin[a].untested \ {v} = {}
                    THEN [stage |-> "confirm", to |-> "remove", versions |-> admin[a].versions]
                    ELSE [stage |-> "test", to |-> "remove", versions |-> admin[a].versions,
                          untested |-> admin[a].untested \ {v}, seen |-> admin[a].seen]
      BY <2>1 DEF NextTest
    <2>5. a \notin overtaken =>
             /\ latest \in admin[a].versions => latest = admin[a].seen
             /\ admin[a].seen \in admin[a].versions => admin[a].seen \in admin[a].untested \ {v}
      <3> SUFFICES ASSUME a \notin overtaken
                   PROVE  /\ latest \in admin[a].versions => latest = admin[a].seen
                          /\ admin[a].seen \in admin[a].versions
                               => admin[a].seen \in admin[a].untested \ {v}
        OBVIOUS
      <3>1. /\ latest \in admin[a].versions => latest = admin[a].seen
            /\ admin[a].seen \in admin[a].versions => admin[a].seen \in admin[a].untested
        BY <1>b, <2>2 DEF Sound
      <3> QED BY <2>4, <3>1
    <2>6. a \notin overtaken => Sound(a)'
      <3>1. CASE admin[a].untested \ {v} = {}
        <4>1. admin'[a].stage = "confirm" /\ admin'[a].versions = admin[a].versions
          BY <2>3, <2>4, <3>1
        <4>2. a \notin overtaken => latest \notin admin[a].versions
          BY <2>5, <3>1
        <4> QED BY <2>2, <4>1, <4>2 DEF Sound, At
      <3>2. CASE admin[a].untested \ {v} # {}
        <4>1. /\ admin'[a].stage = "test" /\ admin'[a].versions = admin[a].versions
              /\ admin'[a].untested = admin[a].untested \ {v} /\ admin'[a].seen = admin[a].seen
          BY <2>3, <2>4, <3>2
        <4> QED BY <2>2, <2>5, <4>1 DEF Sound, At
      <3> QED BY <3>1, <3>2
    <2> QED BY <2>2, <2>3, <2>6, NothingTouched
  <1>13. CASE RemoveVersion(a)
    <2>1. admin[a] \in Removals /\ admin[a].versions \subseteq Versions
      BY <1>13, <1>a, CommandShapes DEF RemoveVersion, At, Removals
    <2>2. PICK v \in admin[a].versions :
             /\ Puts(v, "absent")
             /\ IF admin[a].versions \ {v} = {} THEN Ends(a)
                ELSE admin' = [admin EXCEPT ![a].versions = admin[a].versions \ {v}]
             /\ overtaken' = overtaken \cup RelyOnDirectory(a, v)
      BY <1>13 DEF RemoveVersion
    <2>3. /\ UNCHANGED <<writer, latest>>
          /\ \A w \in Versions \ {v} : store'[w] = store[w]
      BY <1>13, <2>1, <2>2 DEF RemoveVersion, Puts, TypeOK
    <2>4. /\ \A b \in Admins \ {a} : admin'[b] = admin[b]
          /\ admin'[a] = Idle \/ (/\ admin'[a].stage = "confirm"
                                  /\ admin'[a].versions \subseteq admin[a].versions)
      <3>1. CASE Ends(a)
        BY <3>1, EndsHere
      <3>2. CASE admin' = [admin EXCEPT ![a].versions = admin[a].versions \ {v}]
        <4>1. /\ admin'[a] = [admin[a] EXCEPT !.versions = admin[a].versions \ {v}]
              /\ \A b \in Admins \ {a} : admin'[b] = admin[b]
          BY <3>2 DEF TypeOK
        <4>2. admin'[a].stage = admin[a].stage /\ admin'[a].versions = admin[a].versions \ {v}
          BY <2>1, <4>1 DEF Removals
        <4> QED BY <1>13, <4>1, <4>2 DEF RemoveVersion, At
      <3> QED BY <2>2, <3>1, <3>2
    <2>5. a \notin overtaken => Sound(a)'
      <3>1. a \notin overtaken => latest \notin admin[a].versions
        BY <1>13, <1>b DEF RemoveVersion, Sound
      <3> QED BY <2>3, <2>4, <3>1 DEF Sound, At, Idle
    <2>6. ASSUME NEW b \in Admins \ ({a} \cup overtaken'), Sound(b) PROVE Sound(b)'
      <3>1. ~(/\ admin[b].stage \in {"compare", "copying", "chmod", "point", "pointing"}
              /\ admin[b].version = v)
        BY <2>2, <2>6 DEF RelyOnDirectory
      <3> QED BY <2>3, <2>4, <2>6, <3>1, OthersRely
    <2> QED BY <2>2, <2>4, <2>5, <2>6, OneCommandSteps
  <1>14. CASE Stop(a)
    <2>1. UNCHANGED <<store, writer, latest, overtaken>> /\ Ends(a)
      BY <1>14 DEF Stop, volume
    <2>2. Sound(a)' /\ \A b \in Admins \ {a} : admin'[b] = admin[b]
      BY <2>1, EndsHere DEF Sound, At, Idle
    <2> QED BY <2>1, <2>2, NothingTouched
  <1> QED
    BY <1>1, <1>2, <1>3, <1>4, <1>5, <1>6, <1>7, <1>8, <1>9, <1>10, <1>11, <1>12, <1>13, <1>14
    DEF AdminStep

LEMMA UpdateKeepsVolume ==
  ASSUME NEW t \in Terminals, UpdateStep(t)
  PROVE  UNCHANGED <<store, writer, latest, admin, overtaken>>
  BY DEF UpdateStep, AskVersion, Download, OpenTmp, WriteTmp, SetPermissions, Replace, Interrupt, volume

LEMMA ReleaseInductive ==
  TypeOK /\ ReleaseInv /\ [Next]_vars => ReleaseInv'
  <1>1. ASSUME ReleaseInv, UNCHANGED <<store, writer, latest, admin, overtaken>>
        PROVE  ReleaseInv'
    BY <1>1 DEF ReleaseInv, Sound, At
  <1> QED BY <1>1, AdminKeepsRelease, UpdateKeepsVolume DEF Next, vars

LEMMA ReleaseInitially ==
  Init => ReleaseInv
  BY DEF Init, ReleaseInv, Sound, At, Idle

LEMMA DanglingIsOvertaken ==
  ASSUME TypeOK, ReleaseInv, [Next]_vars, Dangles'
  PROVE  Dangles \/ \E a \in overtaken : admin'[a] # admin[a]
  <1>1. ASSUME NEW a \in Admins, AdminStep(a), ~Dangles
        PROVE  a \in overtaken /\ admin'[a] # admin[a]
    <2>a. admin[a] \in Commands /\ latest \in Versions \cup {Blank}
      BY CliReleaseAssumption DEF TypeOK, Commands
    <2>b. a \notin overtaken => Sound(a)
      BY DEF ReleaseInv
    <2>1. CASE WriteLatest(a)
      <3>1. admin'[a] = Idle /\ latest' = admin[a].version /\ store' = store
            /\ admin[a].stage = "pointing"
        BY <2>1, EndsHere DEF WriteLatest, At
      <3>2. a \notin overtaken => store[admin[a].version] # "absent"
        BY <2>b, <3>1 DEF Sound
      <3> QED BY <3>1, <3>2 DEF Dangles, Idle
    <2>2. CASE RemoveVersion(a)
      <3>1. admin[a] \in Removals /\ admin[a].versions \subseteq Versions
        BY <2>2, <2>a, CommandShapes DEF RemoveVersion, At, Removals
      <3>2. PICK v \in admin[a].versions :
               /\ Puts(v, "absent")
               /\ IF admin[a].versions \ {v} = {} THEN Ends(a)
                  ELSE admin' = [admin EXCEPT ![a].versions = admin[a].versions \ {v}]
        BY <2>2 DEF RemoveVersion
      <3>3. latest' = latest /\ \A w \in Versions \ {v} : store'[w] = store[w]
        BY <2>2, <3>1, <3>2 DEF RemoveVersion, Puts, TypeOK
      <3>4. v = latest
        BY <1>1, <2>a, <3>3 DEF Dangles
      <3>5. a \in overtaken
        BY <2>2, <2>b, <3>2, <3>4 DEF Sound, RemoveVersion
      <3>6. admin'[a] # admin[a]
        <4>1. CASE Ends(a)
          BY <2>2, <4>1, EndsHere DEF RemoveVersion, At, Idle
        <4>2. CASE admin' = [admin EXCEPT ![a].versions = admin[a].versions \ {v}]
          <5>1. admin'[a].versions = admin[a].versions \ {v}
            BY <3>1, <4>2 DEF TypeOK, Removals
          <5> QED BY <3>2, <5>1
        <4> QED BY <3>2, <4>1, <4>2
      <3> QED BY <3>5, <3>6
    <2>3. CASE MakeDirectory(a) \/ BeginCopy(a) \/ EndCopy(a)
      <3>1. admin[a].version \in Versions /\ latest' = latest
        BY <2>3, <2>a, CommandShapes DEF MakeDirectory, BeginCopy, EndCopy, At
      <3>2. \A w \in Versions : store[w] # "absent" => store'[w] # "absent"
        BY <2>3, <3>1 DEF MakeDirectory, BeginCopy, EndCopy, Puts, TypeOK
      <3> QED BY <1>1, <2>a, <3>1, <3>2 DEF Dangles
    <2>4. CASE OpenLatest(a)
      BY <2>4 DEF OpenLatest, Dangles
    <2>5. ASSUME UNCHANGED <<store, latest>> PROVE FALSE
      BY <1>1, <2>5 DEF Dangles
    <2>6. ASSUME NEW c, Give(a, c) PROVE UNCHANGED <<store, latest>>
      BY <2>6 DEF Give, volume
    <2>7. CASE Deploy(a) \/ SetLatest(a) \/ Remove(a)
      BY <2>5, <2>6, <2>7, Zenon DEF Deploy, SetLatest, Remove
    <2>8. CASE CreateTempPod(a) \/ SetMode(a) \/ CheckDirectory(a) \/ CompareLatest(a)
               \/ ReadLatest(a) \/ TestVersion(a) \/ Stop(a)
      BY <2>5, <2>8 DEF CreateTempPod, SetMode, CheckDirectory, CompareLatest, ReadLatest,
           TestVersion, Stop, volume
    <2> QED BY <1>1, <2>1, <2>2, <2>3, <2>4, <2>7, <2>8 DEF AdminStep
  <1>2. ASSUME UNCHANGED <<store, latest>> PROVE Dangles
    BY <1>2 DEF Dangles
  <1>3. ASSUME NEW a \in Admins, AdminStep(a), ~Dangles PROVE \E b \in overtaken : admin'[b] # admin[b]
    BY <1>1, <1>3
  <1> QED BY <1>2, <1>3, UpdateKeepsVolume DEF Next, vars

\* Every removal, set-latest and deploy trusts what it has read or written calls
\* before.  However many of them overlap, and wherever they fail, the latest
\* version goes missing only by a call of a command that was overtaken in that.
THEOREM LatestStaysServed ==
  Spec => LatestIsServed
  <1>1. TypeOK /\ ReleaseInv /\ [Next]_vars
          => [Dangles' => Dangles \/ \E a \in overtaken : admin'[a] # admin[a]]_vars
    BY DanglingIsOvertaken
  <1> QED BY ReleaseTypes, ReleaseInitially, ReleaseInductive, <1>1, PTL DEF Spec, LatestIsServed

\* A deploy that nobody overtook releases a file that is whole.
THEOREM ReleasesAreWhole ==
  Spec => ReleaseIsWhole
  <1>1. ASSUME ReleaseInv, NEW a \in Admins \ overtaken, WriteLatest(a), admin[a].to = "deploy"
        PROVE  store[latest'] = "whole"
    BY <1>1 DEF ReleaseInv, Sound, WriteLatest, At
  <1>2. ReleaseInv /\ [Next]_vars
          => [\A a \in Admins \ overtaken :
                 WriteLatest(a) /\ admin[a].to = "deploy" => store[latest'] = "whole"]_vars
    BY <1>1
  <1> QED BY ReleaseTypes, ReleaseInitially, ReleaseInductive, <1>2, PTL DEF Spec, ReleaseIsWhole

-----------------------------------------------------------------------------
(* The executable is not torn *)

LEMMA TornInductive ==
  TypeOK /\ TornIsBeingWritten /\ [Next]_vars => TornIsBeingWritten'
  <1> SUFFICES ASSUME TypeOK, TornIsBeingWritten, [Next]_vars PROVE TornIsBeingWritten'
    OBVIOUS
  <1>1. ASSUME NEW a \in Admins, AdminStep(a)
        PROVE  UNCHANGED <<disk, update, killed>>
    BY <1>1 DEF AdminStep, Deploy, SetLatest, Remove, Give, CreateTempPod, MakeDirectory, BeginCopy,
         EndCopy, SetMode, OpenLatest, WriteLatest, CheckDirectory, CompareLatest,
         ReadLatest, TestVersion, RemoveVersion, Stop, disk
  <1>2. ASSUME UNCHANGED <<content, update, killed>>
        PROVE  TornIsBeingWritten'
    BY <1>2 DEF TornIsBeingWritten, Now
  <1>3. ASSUME NEW t \in Terminals, content' = content, killed' = killed,
               ~Now(t, "write"), \A u \in Terminals \ {t} : update'[u] = update[u]
        PROVE  TornIsBeingWritten'
    BY <1>3 DEF TornIsBeingWritten, Now
  <1>4. ASSUME NEW t \in Terminals, UpdateStep(t)
        PROVE  TornIsBeingWritten'
    <2>1. \A u \in Terminals \ {t} : update'[u] = update[u]
      BY <1>4 DEF UpdateStep, AskVersion, Download, OpenTmp, WriteTmp, SetPermissions, Replace,
           Interrupt, Turns, TypeOK
    <2>2. CASE AskVersion(t) \/ Download(t) \/ SetPermissions(t) \/ Replace(t)
      <3>1. content' = content /\ killed' = killed /\ ~Now(t, "write")
        BY <2>2 DEF AskVersion, Download, SetPermissions, Replace, Now, Idle, disk
      <3> QED BY <2>1, <3>1, <1>3
    <2>3. CASE OpenTmp(t)
      <3> DEFINE i == IF tmp # NoInode THEN tmp ELSE CHOOSE x \in Unused : TRUE
      <3>1. /\ content' = [content EXCEPT ![i] = Torn] /\ killed' = killed
            /\ ~Now(t, "write")
            /\ update'[t] = [stage |-> "write", data |-> update[t].data, into |-> i]
        BY <2>3 DEF OpenTmp, Turns, Now, TypeOK
      <3> HIDE DEF i
      <3>2. Now(t, "write")' /\ update'[t].into = i
        BY <3>1 DEF Now
      <3>3. \A j \in Inodes \ {i} : content'[j] = content[j]
        BY <3>1 DEF TypeOK
      <3> QED BY <2>1, <3>1, <3>2, <3>3 DEF TornIsBeingWritten, Now
    <2>4. CASE WriteTmp(t)
      <3> DEFINE i == update[t].into
      <3>1. update[t].data \in Binary /\ i \in Inodes /\ Now(t, "write")
        <4>1. update[t] \in UpdateSteps
          BY DEF TypeOK, UpdateSteps
        <4> QED BY <2>4, <4>1, UpdateShapes DEF WriteTmp, Now
      <3>2. update[t].data # Torn
        BY <3>1, CliReleaseAssumption DEF Binary, Torn, Blank
      <3>3. /\ content' = [content EXCEPT ![i] = update[t].data] /\ killed' = killed
        BY <2>4 DEF WriteTmp
      <3>4. content'[i] # Torn /\ \A j \in Inodes \ {i} : content'[j] = content[j]
        BY <3>1, <3>2, <3>3 DEF TypeOK
      <3> QED BY <2>1, <3>3, <3>4 DEF TornIsBeingWritten, Now
    <2>5. CASE Interrupt(t)
      <3>1. content' = content /\ killed' = (killed \/ Now(t, "write"))
        BY <2>5 DEF Interrupt, disk
      <3> QED BY <2>1, <3>1 DEF TornIsBeingWritten, Now
    <2> QED BY <1>4, <2>2, <2>3, <2>4, <2>5 DEF UpdateStep
  <1> QED BY <1>1, <1>2, <1>4 DEF Next, vars, disk

LEMMA TornInitially ==
  Init => TornIsBeingWritten
  BY CliReleaseAssumption DEF Init, TornIsBeingWritten, Torn, Blank

\* When no update is under way and none was interrupted while it wrote, the
\* executable is not torn: two updates share the temporary file and one may
\* rename it while the other writes, but the other still has it open and ends.
THEOREM ExecutableIsWritten ==
  Spec => []SettledIsWritten
  <1>1. TypeOK /\ TornIsBeingWritten => SettledIsWritten
    BY DEF TypeOK, TornIsBeingWritten, SettledIsWritten
  <1> QED BY ReleaseTypes, TornInitially, TornInductive, <1>1, PTL DEF Spec
=============================================================================
