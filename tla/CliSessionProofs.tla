--------------------------- MODULE CliSessionProofs ---------------------------
(***************************************************************************)
(* Theorems about CliSession, for every number of terminals that give      *)
(* commands and that follow logs, of jobs, ids and tasks, and wherever a   *)
(* command is interrupted.                                                 *)
(***************************************************************************)
EXTENDS CliSession, TLAPS

-----------------------------------------------------------------------------
(* Types are kept *)

\* Which commands there are at a stage.
LEMMA CommandShapes ==
  ASSUME NEW c \in Commands
  PROVE  /\ c.stage = "removing"
              => c \in [stage : {"removing"}, ids : SUBSET Ids, upto : 0..MaxUids]
         /\ c.stage = "confirm" => c.upto \in 0..MaxUids
         /\ c.stage \in {"reading", "waiting", "opening"}
              => c.id \in Ids /\ c.uid \in Uids /\ c.slots \in SUBSET Slots
         /\ c.stage \in {"waiting", "opening"}
              => c \in [stage : {"waiting", "opening"}, id : Ids, uid : Uids,
                        slots : SUBSET Slots, tries : 0..(MaxPolls + MaxLooks)]
         /\ c.stage \in {"shown", "following"} => c.uid \in Uids /\ c.of \in SUBSET Uids
         /\ c.stage = "following"
              => c \in [stage : {"following"}, uid : Uids, of : SUBSET Uids, shown : 0..MaxOutput]
         /\ c.stage \in {"idle", "removing", "confirm", "removed", "reading", "waiting", "opening",
                         "shown", "following"}
         /\ c.stage = "idle" => c = Idle
  BY DEF Commands, Idle

LEMMA RowShapes ==
  ASSUME NEW r \in Row \cup {NoRow}
  PROVE  /\ r.status \in Statuses <=> r \in Row
         /\ r.status \in Statuses <=> r.status # "NONE"
         /\ r \in Row => r.uid \in Uids
         /\ \A status \in Statuses : r \in Row => [r EXCEPT !.status = status] \in Row
  BY DEF Row, NoRow, Statuses, Active, NotStarted, Terminal

LEMMA StatusSets ==
  /\ Statuses = {"QUEUED", "DISPATCHED", "RUNNING", "HELD", "ENDED", "CANCELLED", "DELETING"}
  /\ Active = {"QUEUED", "DISPATCHED", "RUNNING", "HELD"}
  /\ Terminal = {"ENDED", "CANCELLED"}
  /\ NotStarted = {"QUEUED", "DISPATCHED"}
  BY DEF Statuses, Active, NotStarted, Terminal

LEMMA SlotsOfInSlots ==
  ASSUME NEW r PROVE SlotsOf(r) \subseteq Slots
  BY DEF SlotsOf, Slots

LEMMA MovesTyped ==
  ASSUME TypeOK, NEW ids, NEW from, from \subseteq Statuses, NEW to \in Statuses,
         Moves(ids, from, to)
  PROVE  rows' \in [Ids -> Row \cup {NoRow}]
  <1> SUFFICES ASSUME NEW i \in Ids
               PROVE  (IF i \in ids /\ rows[i].status \in from
                         THEN [rows[i] EXCEPT !.status = to] ELSE rows[i]) \in Row \cup {NoRow}
    BY DEF Moves
  <1>1. rows[i] \in Row \cup {NoRow}
    BY DEF TypeOK
  <1> QED BY <1>1, RowShapes

LEMMA GoesTyped ==
  ASSUME TypeOK, NEW s \in Terminals, NEW c \in Commands, Goes(s, c)
  PROVE  session' \in [Terminals -> Commands]
  BY DEF TypeOK, Goes

LEMMA InitTyped ==
  ASSUME Init PROVE TypeOK
  <1>1. rows \in [Ids -> Row \cup {NoRow}] /\ nextId \in 1..(MaxJobs + 1) /\ uids \in 0..MaxUids
    BY CliSessionAssumption DEF Init
  <1>2. pods \in [Uids -> [state : {"none", "on", "over"}, begun : SUBSET Slots]]
    BY DEF Init, NoPods
  <1>3. files \in [Ids -> [Slots -> Uids \cup {NoFile}]]
    BY DEF Init
  <1>4. written \in [Uids -> 0..MaxOutput]
    BY CliSessionAssumption DEF Init
  <1>5. session \in [Terminals -> Commands]
    BY DEF Init, Commands
  <1> QED BY <1>1, <1>2, <1>3, <1>4, <1>5 DEF TypeOK

LEMMA UserStepTyped ==
  ASSUME TypeOK, NEW s \in Users, UserStep(s)
  PROVE  TypeOK'
  <1> s \in Terminals
    BY DEF Terminals
  <1>idle. Idle \in Commands
    BY DEF Commands
  <1>1. CASE Submit(s)
    <2>1. nextId \in Ids /\ nextId' \in 1..(MaxJobs + 1) /\ uids' \in 0..MaxUids /\ uids + 1 \in Uids
      BY <1>1, CliSessionAssumption DEF Submit, Accepted, TypeOK, Ids, Uids
    <2>2. [status |-> "QUEUED", uid |-> uids + 1] \in Row
      BY <2>1, StatusSets DEF Row
    <2>3. rows' \in [Ids -> Row \cup {NoRow}]
      BY <1>1, <2>1, <2>2 DEF Submit, Accepted, TypeOK
    <2> QED BY <1>1, <2>1, <2>3 DEF Submit, TypeOK
  <1>2. CASE Cancel(s)
    <2>1. rows' \in [Ids -> Row \cup {NoRow}]
      BY <1>2, MovesTyped, StatusSets DEF Cancel
    <2> QED BY <1>2, <2>1 DEF Cancel, TypeOK
  <1>3. CASE Hold(s)
    <2>1. rows' \in [Ids -> Row \cup {NoRow}]
      BY <1>3, MovesTyped, StatusSets DEF Hold
    <2> QED BY <1>3, <2>1 DEF Hold, TypeOK
  <1>4. CASE Release(s)
    <2>1. rows' \in [Ids -> Row \cup {NoRow}]
      BY <1>4, MovesTyped, StatusSets DEF Release
    <2> QED BY <1>4, <2>1 DEF Release, TypeOK
  <1>5. CASE Delete(s)
    <2>1. PICK ids \in Selections(Terminal) :
            /\ rows' = [i \in Ids |-> IF i \in ids \cap Bearers(Terminal) THEN NoRow ELSE rows[i]]
            /\ Goes(s, [stage |-> "removing", ids |-> ids \cap Bearers(Terminal), upto |-> uids])
      BY <1>5 DEF Delete
    <2>2. rows' \in [Ids -> Row \cup {NoRow}]
      BY <2>1 DEF TypeOK
    <2>3. [stage |-> "removing", ids |-> ids \cap Bearers(Terminal), upto |-> uids]
            \in Commands
      BY DEF Commands, Bearers, TypeOK
    <2>4. session' \in [Terminals -> Commands]
      BY <2>1, <2>3, GoesTyped
    <2> QED BY <1>5, <2>2, <2>4 DEF Delete, TypeOK
  <1>6. CASE RemoveLogDir(s)
    <2>1. PICK i \in session[s].ids :
            /\ files' = [files EXCEPT ![i] = NoFiles]
            /\ Goes(s, IF session[s].ids \ {i} = {} THEN Idle
                       ELSE [session[s] EXCEPT !.ids = session[s].ids \ {i}])
      BY <1>6 DEF RemoveLogDir
    <2>2. session[s] \in [stage : {"removing"}, ids : SUBSET Ids, upto : 0..MaxUids]
      BY <1>6, CommandShapes DEF RemoveLogDir, At, TypeOK
    <2>3. [session[s] EXCEPT !.ids = session[s].ids \ {i}] \in Commands
      BY <2>2 DEF Commands
    <2>4. session' \in [Terminals -> Commands]
      BY <2>1, <2>3, <1>idle, GoesTyped
    <2>5. files' \in [Ids -> [Slots -> Uids \cup {NoFile}]]
      BY <2>1 DEF TypeOK, NoFiles
    <2> QED BY <1>6, <2>4, <2>5 DEF RemoveLogDir, TypeOK
  <1>7. CASE CheckReset(s)
    <2>1. [stage |-> "confirm", upto |-> uids] \in Commands
      BY DEF Commands, TypeOK
    <2>2. session' \in [Terminals -> Commands]
      BY <1>7, <2>1, GoesTyped DEF CheckReset
    <2> QED BY <1>7, <2>2 DEF CheckReset, TypeOK
  <1>8. CASE RemoveAllLogs(s)
    <2>1. [stage |-> "removed"] \in Commands
      BY DEF Commands
    <2>2. session' \in [Terminals -> Commands]
      BY <1>8, <2>1, GoesTyped DEF RemoveAllLogs
    <2>3. files' \in [Ids -> [Slots -> Uids \cup {NoFile}]]
      BY <1>8 DEF RemoveAllLogs, Cleared, NoFiles
    <2> QED BY <1>8, <2>2, <2>3 DEF RemoveAllLogs, TypeOK
  <1>9. CASE RequestReset(s)
    <2>1. session' \in [Terminals -> Commands]
      BY <1>9, <1>idle, GoesTyped DEF RequestReset
    <2>2. rows' \in [Ids -> Row \cup {NoRow}]
      <3>1. CASE Moves(Ids, Terminal, "DELETING")
        BY <3>1, MovesTyped, StatusSets
      <3>2. CASE UNCHANGED rows
        BY <3>2 DEF TypeOK
      <3> QED BY <1>9, <3>1, <3>2 DEF RequestReset
    <2> QED BY <1>9, <2>1, <2>2 DEF RequestReset, TypeOK
  <1> QED BY <1>1, <1>2, <1>3, <1>4, <1>5, <1>6, <1>7, <1>8, <1>9 DEF UserStep

LEMMA AskedInSlots ==
  ASSUME NEW r, NEW follow, NEW slots \in Asked(r, follow)
  PROVE  slots \in SUBSET Slots
  BY DEF Asked, Slots

\* What ShowLogs goes to.
LEMMA ShowLogsGoes ==
  ASSUME NEW s, NEW i, NEW follow, ShowLogs(s, i, follow)
  PROVE  \E slots \in SUBSET Slots :
            \/ Goes(s, [stage |-> "reading", id |-> i, uid |-> rows[i].uid, slots |-> slots])
            \/ \E stage \in {"waiting", "opening"} :
                  Goes(s, [stage |-> stage, id |-> i, uid |-> rows[i].uid,
                           slots |-> slots, tries |-> 0])
  <1>1. PICK slots \in Asked(rows[i], follow) :
          \/ Goes(s, [stage |-> "waiting", id |-> i, uid |-> rows[i].uid,
                      slots |-> slots, tries |-> 0])
          \/ Goes(s, [stage |-> "opening", id |-> i, uid |-> rows[i].uid,
                      slots |-> slots, tries |-> 0])
          \/ Goes(s, [stage |-> "reading", id |-> i, uid |-> rows[i].uid, slots |-> slots])
          \/ Goes(s, [stage |-> "reading", id |-> i, uid |-> rows[i].uid, slots |-> {Whole}])
    BY DEF ShowLogs
  <1>2. slots \in SUBSET Slots /\ {Whole} \in SUBSET Slots
    BY AskedInSlots DEF Slots
  <1> QED BY <1>1, <1>2

LEMMA TerminalStepTyped ==
  ASSUME TypeOK, NEW s \in Terminals, TerminalStep(s)
  PROVE  TypeOK'
  <1> SUFFICES \E c \in Commands : Goes(s, c) /\ UNCHANGED <<rows, nextId, uids, pods, files, written>>
    BY GoesTyped DEF TypeOK
  <1>idle. Idle \in Commands
    BY DEF Commands
  <1>c. session[s] \in Commands
    BY DEF TypeOK
  <1>1. ASSUME NEW i \in Ids, ShowLogs(s, i, s \in Viewers)
        PROVE  \E c \in Commands : Goes(s, c) /\ UNCHANGED <<rows, nextId, uids, pods, files, written>>
    <2>1. rows[i].uid \in Uids
      BY <1>1, RowShapes DEF ShowLogs, Present, TypeOK
    <2>2. \A slots \in SUBSET Slots :
            [stage |-> "reading", id |-> i, uid |-> rows[i].uid, slots |-> slots] \in Commands
      BY <2>1 DEF Commands
    <2>3. \A slots \in SUBSET Slots, stage \in {"waiting", "opening"} :
            [stage |-> stage, id |-> i, uid |-> rows[i].uid, slots |-> slots, tries |-> 0] \in Commands
      BY <2>1, CliSessionAssumption DEF Commands
    <2>4. UNCHANGED <<rows, nextId, uids, pods, files, written>>
      BY <1>1 DEF ShowLogs
    <2> QED BY <1>1, <2>2, <2>3, <2>4, ShowLogsGoes
  <1>2. CASE PrintLogs(s)
    <2>1. session[s].id \in Ids /\ session[s].uid \in Uids /\ session[s].slots \in SUBSET Slots
      BY <1>2, <1>c, CommandShapes DEF PrintLogs, At
    <2>2. {files[session[s].id][k] : k \in session[s].slots} \ {NoFile} \in SUBSET Uids
      BY <2>1 DEF TypeOK
    <2> DEFINE c == [stage |-> "shown", uid |-> session[s].uid,
                     of |-> {files[session[s].id][k] : k \in session[s].slots} \ {NoFile}]
    <2>3. c \in Commands
      BY <2>1, <2>2 DEF Commands
    <2>4. Goes(s, c) /\ UNCHANGED <<rows, nextId, uids, pods, files, written>>
      BY <1>2 DEF PrintLogs
    <2> HIDE DEF c
    <2> QED BY <2>3, <2>4
  <1>3. CASE LogsEnd(s)
    BY <1>3, <1>idle DEF LogsEnd
  <1>4. CASE WaitForStart(s)
    <2>1. session[s] \in [stage : {"waiting", "opening"}, id : Ids, uid : Uids,
                          slots : SUBSET Slots, tries : 0..(MaxPolls + MaxLooks)]
      BY <1>4, <1>c, CommandShapes DEF WaitForStart, At
    <2>2. ASSUME ~GivesUp(s, MaxPolls) PROVE Again(s) \in Commands
      <3>1. session[s].tries + 1 \in 0..(MaxPolls + MaxLooks)
        BY <2>1, <2>2, CliSessionAssumption DEF GivesUp
      <3>2. Again(s) \in [stage : {"waiting", "opening"}, id : Ids, uid : Uids,
                          slots : SUBSET Slots, tries : 0..(MaxPolls + MaxLooks)]
        BY <2>1, <3>1 DEF Again
      <3> QED BY <3>2 DEF Commands
    <2>3. [session[s] EXCEPT !.stage = "opening", !.tries = 0] \in Commands
      <3>1. [session[s] EXCEPT !.stage = "opening", !.tries = 0]
              \in [stage : {"waiting", "opening"}, id : Ids, uid : Uids,
                   slots : SUBSET Slots, tries : 0..(MaxPolls + MaxLooks)]
        <4>1. 0 \in 0..(MaxPolls + MaxLooks)
          BY CliSessionAssumption
        <4> QED BY <2>1, <4>1
      <3> QED BY <3>1 DEF Commands
    <2> QED BY <1>4, <1>idle, <2>2, <2>3 DEF WaitForStart
  <1>5. CASE OpenLog(s)
    <2>1. session[s] \in [stage : {"waiting", "opening"}, id : Ids, uid : Uids,
                          slots : SUBSET Slots, tries : 0..(MaxPolls + MaxLooks)]
      BY <1>5, <1>c, CommandShapes DEF OpenLog, At
    <2>2. ASSUME ~GivesUp(s, MaxLooks) PROVE Again(s) \in Commands
      <3>1. session[s].tries + 1 \in 0..(MaxPolls + MaxLooks)
        BY <2>1, <2>2, CliSessionAssumption DEF GivesUp
      <3>2. Again(s) \in [stage : {"waiting", "opening"}, id : Ids, uid : Uids,
                          slots : SUBSET Slots, tries : 0..(MaxPolls + MaxLooks)]
        BY <2>1, <3>1 DEF Again
      <3> QED BY <3>2 DEF Commands
    <2>3. {files[session[s].id][k] : k \in session[s].slots} \ {NoFile} \in SUBSET Uids
      BY <2>1 DEF TypeOK
    <2>4. [stage |-> "following", uid |-> session[s].uid,
           of |-> {files[session[s].id][k] : k \in session[s].slots} \ {NoFile},
           shown |-> 0] \in Commands
      BY <2>1, <2>3, CliSessionAssumption DEF Commands
    <2> QED BY <1>5, <1>idle, <2>2, <2>4 DEF OpenLog
  <1>6. CASE TailLog(s)
    <2>1. session[s] \in [stage : {"following"}, uid : Uids, of : SUBSET Uids, shown : 0..MaxOutput]
      BY <1>6, <1>c, CommandShapes DEF TailLog, At
    <2>2. PICK u \in session[s].of : session[s].shown < written[u]
      BY <1>6 DEF TailLog, Behind
    <2>3. written[u] \in 0..MaxOutput
      BY <2>1, <2>2 DEF TypeOK
    <2>4. session[s].shown + 1 \in 0..MaxOutput
      BY <2>1, <2>2, <2>3, CliSessionAssumption
    <2>5. [session[s] EXCEPT !.shown = @ + 1] \in Commands
      BY <2>1, <2>4 DEF Commands
    <2> QED BY <1>6, <2>5 DEF TailLog
  <1>7. CASE Interrupt(s)
    BY <1>7, <1>idle DEF Interrupt
  <1> QED BY <1>1, <1>2, <1>3, <1>4, <1>5, <1>6, <1>7 DEF TerminalStep, LogStep

LEMMA SystemStepTyped ==
  ASSUME TypeOK, SystemStep
  PROVE  TypeOK'
  <1>r. \A i \in Ids : rows[i] \in Row \cup {NoRow}
    BY DEF TypeOK
  <1>1. ASSUME NEW i \in Ids, Dispatch(i) PROVE TypeOK'
    <2>1. rows[i] \in Row /\ rows[i].uid \in Uids
      BY <1>1, <1>r, RowShapes, StatusSets DEF Dispatch
    <2>2. rows' \in [Ids -> Row \cup {NoRow}]
      <3>1. [rows[i] EXCEPT !.status = "DISPATCHED"] \in Row
        BY <2>1, RowShapes, StatusSets
      <3> QED BY <1>1, <3>1 DEF Dispatch, TypeOK
    <2>3. pods' \in [Uids -> [state : {"none", "on", "over"}, begun : SUBSET Slots]]
      BY <1>1, <2>1 DEF Dispatch, TypeOK
    <2> QED BY <1>1, <2>2, <2>3 DEF Dispatch, TypeOK
  <1>2. ASSUME NEW i \in Ids, PodStarts(i) PROVE TypeOK'
    <2>1. rows[i] \in Row /\ rows[i].uid \in Uids
      BY <1>2, <1>r, RowShapes, StatusSets DEF PodStarts, Present
    <2>2. PICK k \in SlotsOf(rows[i]) :
            /\ pods' = [pods EXCEPT ![rows[i].uid].begun = @ \cup {k}]
            /\ files' = [files EXCEPT ![i][k] = rows[i].uid]
      BY <1>2 DEF PodStarts
    <2>3. k \in Slots
      BY SlotsOfInSlots
    <2>4. pods' \in [Uids -> [state : {"none", "on", "over"}, begun : SUBSET Slots]]
      BY <2>1, <2>2, <2>3 DEF TypeOK
    <2>5. files' \in [Ids -> [Slots -> Uids \cup {NoFile}]]
      BY <2>1, <2>2, <2>3 DEF TypeOK
    <2> QED BY <1>2, <2>4, <2>5 DEF PodStarts, TypeOK
  <1>3. ASSUME NEW i \in Ids, Observe(i) PROVE TypeOK'
    <2>1. rows[i] \in Row
      BY <1>3, <1>r, RowShapes, StatusSets DEF Observe
    <2>2. [rows[i] EXCEPT !.status = "RUNNING"] \in Row /\ [rows[i] EXCEPT !.status = "ENDED"] \in Row
      BY <2>1, RowShapes, StatusSets
    <2>3. rows' \in [Ids -> Row \cup {NoRow}]
      BY <1>3, <2>2 DEF Observe, TypeOK
    <2> QED BY <1>3, <2>3 DEF Observe, TypeOK
  <1>4. ASSUME NEW i \in Ids, StopJob(i) PROVE TypeOK'
    <2>1. pods' \in [Uids -> [state : {"none", "on", "over"}, begun : SUBSET Slots]]
      BY <1>4 DEF StopJob, TypeOK, NoPods
    <2> QED BY <1>4, <2>1 DEF StopJob, TypeOK
  <1>5. ASSUME NEW u \in Uids, PodWrites(u) PROVE TypeOK'
    <2>1. written' \in [Uids -> 0..MaxOutput]
      BY <1>5, CliSessionAssumption DEF PodWrites, TypeOK
    <2> QED BY <1>5, <2>1 DEF PodWrites, TypeOK
  <1>6. ASSUME NEW u \in Uids, JobEnds(u) PROVE TypeOK'
    <2>1. pods' \in [Uids -> [state : {"none", "on", "over"}, begun : SUBSET Slots]]
      BY <1>6 DEF JobEnds, TypeOK
    <2> QED BY <1>6, <2>1 DEF JobEnds, TypeOK
  <1>7. CASE FinishReset
    <2>1. rows' \in [Ids -> Row \cup {NoRow}] /\ nextId' \in 1..(MaxJobs + 1)
      BY <1>7, CliSessionAssumption DEF FinishReset
    <2> QED BY <1>7, <2>1 DEF FinishReset, TypeOK
  <1> QED BY <1>1, <1>2, <1>3, <1>4, <1>5, <1>6, <1>7 DEF SystemStep

LEMMA NextTyped ==
  ASSUME TypeOK, [Next]_vars
  PROVE  TypeOK'
  <1>1. CASE Next
    BY <1>1, UserStepTyped, TerminalStepTyped, SystemStepTyped DEF Next
  <1>2. CASE UNCHANGED vars
    BY <1>2 DEF vars, TypeOK
  <1> QED BY <1>1, <1>2

\* Whatever commands, Pods and daemons do in between, a command remembers what
\* its stage needs, a wait is given up after its number of looks, and every log
\* has a job for its writer.
THEOREM SessionTypes == Spec => []TypeOK
  <1>1. Init => TypeOK
    BY InitTyped
  <1>2. TypeOK /\ [Next]_vars => TypeOK'
    BY NextTyped
  <1> QED BY <1>1, <1>2, PTL DEF Spec
-----------------------------------------------------------------------------
(* What a command relies on between its steps *)

\* Jobs submitted later apart, no job is active once a reset has looked, and
\* none bears an id whose logs a delete still has to remove.  Whatever other
\* terminals do, only a submission makes a job active that was not.
Relies(s) ==
    /\ session[s].stage \in {"confirm", "removing"} => session[s].upto <= uids
    /\ session[s].stage = "confirm" =>
          \A i \in Ids : rows[i].status \in Active => rows[i].uid > session[s].upto
    /\ session[s].stage = "removing" =>
          \A i \in session[s].ids : Present(i) => rows[i].uid > session[s].upto

CommandsRely == \A s \in Users : Relies(s)

\* A row of the next state was there before, and active if it is so now, or it
\* is a submission.
RowAges(i) ==
    /\ Present(i)' => \/ Present(i) /\ rows'[i].uid = rows[i].uid
                      \/ rows'[i].uid > uids
    /\ rows'[i].status \in Active => \/ rows[i].status \in Active /\ rows'[i].uid = rows[i].uid
                                     \/ rows'[i].uid > uids

RowsAge == uids' >= uids /\ \A i \in Ids : RowAges(i)

LEMMA SameRowsAge ==
  ASSUME TypeOK, rows' = rows, uids' = uids
  PROVE  RowsAge
  <1>1. uids' >= uids
    BY DEF TypeOK
  <1>2. \A i \in Ids : RowAges(i)
    BY DEF RowAges, Present
  <1> QED BY <1>1, <1>2 DEF RowsAge

\* A request that only changes the status of rows that are there.
LEMMA RowsKept ==
  ASSUME TypeOK, NEW ids, NEW from, from \subseteq Statuses, NEW to \in Statuses,
         Moves(ids, from, to), NEW i \in Ids
  PROVE  /\ Present(i)' <=> Present(i)
         /\ rows'[i].uid = rows[i].uid
         /\ rows'[i].status = IF i \in ids /\ rows[i].status \in from THEN to ELSE rows[i].status
  <1>1. rows[i] \in Row \cup {NoRow}
    BY DEF TypeOK
  <1>2. rows'[i] = IF i \in ids /\ rows[i].status \in from
                     THEN [rows[i] EXCEPT !.status = to] ELSE rows[i]
    BY DEF Moves
  <1>3. CASE i \in ids /\ rows[i].status \in from
    <2>1. rows[i] \in Row /\ "NONE" \notin Statuses
      BY <1>1, <1>3, RowShapes, StatusSets
    <2> QED BY <1>2, <1>3, <2>1, StatusSets DEF Present, Row
  <1>4. CASE ~(i \in ids /\ rows[i].status \in from)
    BY <1>2, <1>4 DEF Present
  <1> QED BY <1>3, <1>4

LEMMA MovesAge ==
  ASSUME TypeOK, NEW ids, NEW from, from \subseteq Statuses, NEW to \in Statuses,
         Moves(ids, from, to), to \in Active => from \subseteq Active, uids' = uids
  PROVE  RowsAge
  <1>1. uids' >= uids
    BY DEF TypeOK
  <1>2. ASSUME NEW i \in Ids PROVE RowAges(i)
    <2>1. /\ Present(i)' <=> Present(i)
          /\ rows'[i].uid = rows[i].uid
          /\ rows'[i].status = IF i \in ids /\ rows[i].status \in from THEN to ELSE rows[i].status
      BY <1>2, RowsKept
    <2>2. rows'[i].status \in Active => rows[i].status \in Active
      BY <2>1
    <2> QED BY <2>1, <2>2 DEF RowAges
  <1> QED BY <1>1, <1>2 DEF RowsAge

LEMMA UserRowsAge ==
  ASSUME TypeOK, NEW s \in Users, UserStep(s)
  PROVE  RowsAge
  <1>1. CASE Submit(s)
    <2>1. uids \in Nat /\ uids' = uids + 1
      BY <1>1, CliSessionAssumption DEF Submit, Accepted, TypeOK
    <2>2. ASSUME NEW i \in Ids PROVE RowAges(i)
      <3>1. CASE i = nextId
        <4>1. rows'[i].uid = uids + 1
          BY <1>1, <2>2, <3>1 DEF Submit, Accepted, TypeOK
        <4> QED BY <2>1, <4>1 DEF RowAges
      <3>2. CASE i # nextId
        <4>1. rows'[i] = rows[i]
          BY <1>1, <2>2, <3>2 DEF Submit, Accepted, TypeOK
        <4> QED BY <4>1 DEF RowAges, Present
      <3> QED BY <3>1, <3>2
    <2> QED BY <2>1, <2>2 DEF RowsAge
  <1>2. CASE Cancel(s)
    BY <1>2, MovesAge, StatusSets DEF Cancel
  <1>3. CASE Hold(s)
    BY <1>3, MovesAge, StatusSets DEF Hold
  <1>4. CASE Release(s)
    BY <1>4, MovesAge, StatusSets DEF Release
  <1>5. CASE Delete(s)
    <2>1. uids' >= uids
      BY <1>5 DEF Delete, TypeOK
    <2>2. ASSUME NEW i \in Ids PROVE RowAges(i)
      <3>1. rows'[i] = rows[i] \/ rows'[i] = NoRow
        BY <1>5, <2>2 DEF Delete
      <3> QED BY <3>1, StatusSets DEF RowAges, Present, NoRow
    <2> QED BY <2>1, <2>2 DEF RowsAge
  <1>6. CASE RequestReset(s)
    <2>1. CASE Moves(Ids, Terminal, "DELETING")
      BY <1>6, <2>1, MovesAge, StatusSets DEF RequestReset
    <2>2. CASE rows' = rows
      BY <1>6, <2>2, SameRowsAge DEF RequestReset
    <2> QED BY <1>6, <2>1, <2>2 DEF RequestReset
  <1>7. CASE RemoveLogDir(s) \/ CheckReset(s) \/ RemoveAllLogs(s)
    BY <1>7, SameRowsAge DEF RemoveLogDir, CheckReset, RemoveAllLogs
  <1> QED BY <1>1, <1>2, <1>3, <1>4, <1>5, <1>6, <1>7 DEF UserStep

LEMMA SystemRowsAge ==
  ASSUME TypeOK, SystemStep
  PROVE  RowsAge
  <1>1. ASSUME NEW i \in Ids, Dispatch(i) \/ Observe(i) PROVE RowsAge
    <2>1. rows[i] \in Row /\ rows[i].status \in Active /\ Present(i)
      BY <1>1, RowShapes, StatusSets DEF Dispatch, Observe, TypeOK, Present
    <2>2. ASSUME NEW j \in Ids PROVE RowAges(j)
      <3>1. CASE j # i
        <4>1. rows'[j] = rows[j]
          BY <1>1, <2>2, <3>1 DEF Dispatch, Observe, TypeOK
        <4> QED BY <4>1 DEF RowAges, Present
      <3>2. CASE j = i
        <4>1. rows'[i].uid = rows[i].uid
          BY <1>1, <2>1 DEF Dispatch, Observe, TypeOK, Row
        <4> QED BY <2>1, <3>2, <4>1 DEF RowAges
      <3> QED BY <3>1, <3>2
    <2>3. uids' >= uids
      BY <1>1 DEF Dispatch, Observe, TypeOK
    <2> QED BY <2>2, <2>3 DEF RowsAge
  <1>2. ASSUME NEW i \in Ids, PodStarts(i) \/ StopJob(i) PROVE RowsAge
    BY <1>2, SameRowsAge DEF PodStarts, StopJob
  <1>3. ASSUME NEW u \in Uids, PodWrites(u) \/ JobEnds(u) PROVE RowsAge
    BY <1>3, SameRowsAge DEF PodWrites, JobEnds
  <1>4. CASE FinishReset
    <2>1. uids' >= uids
      BY <1>4 DEF FinishReset, TypeOK
    <2>2. ASSUME NEW i \in Ids PROVE RowAges(i)
      <3>1. rows'[i] = NoRow
        BY <1>4, <2>2 DEF FinishReset
      <3> QED BY <3>1, StatusSets DEF RowAges, Present, NoRow
    <2> QED BY <2>1, <2>2 DEF RowsAge
  <1> QED BY <1>1, <1>2, <1>3, <1>4 DEF SystemStep

LEMMA NextRowsAge ==
  ASSUME TypeOK, [Next]_vars
  PROVE  RowsAge
  <1>1. ASSUME NEW s \in Terminals, TerminalStep(s) PROVE RowsAge
    BY <1>1, SameRowsAge DEF TerminalStep, LogStep, ShowLogs, PrintLogs, LogsEnd, WaitForStart,
       OpenLog, TailLog, Interrupt
  <1>2. CASE UNCHANGED vars
    BY <1>2, SameRowsAge DEF vars
  <1> QED BY <1>1, <1>2, UserRowsAge, SystemRowsAge DEF Next

\* A command goes on as it was, sets out when nothing is in its way, removes
\* one directory more, or relies on nothing.
CommandGoes(s) ==
    \/ session'[s] = session[s]
    \/ session'[s].stage \notin {"confirm", "removing"}
    \/ /\ session'[s].stage = "confirm" /\ session'[s].upto = uids
       /\ uids' = uids /\ rows' = rows /\ Bearers(Active) = {}
    \/ /\ session'[s].stage = "removing" /\ session'[s].upto = uids
       /\ uids' = uids /\ \A i \in session'[s].ids : ~Present(i)'
    \/ /\ session[s].stage = "removing" /\ session'[s].stage = "removing"
       /\ session'[s].upto = session[s].upto /\ session'[s].ids \subseteq session[s].ids

LEMMA OthersStay ==
  ASSUME NEW s, NEW c, Goes(s, c), NEW t \in Terminals, t # s, TypeOK
  PROVE  session'[t] = session[t]
  BY DEF Goes, TypeOK

LEMMA ItGoes ==
  ASSUME NEW s \in Terminals, NEW c, Goes(s, c), TypeOK
  PROVE  session'[s] = c
  BY DEF Goes, TypeOK

LEMMA UserGoes ==
  ASSUME TypeOK, NEW s \in Users, UserStep(s), NEW t \in Users
  PROVE  CommandGoes(t)
  <1> s \in Terminals /\ t \in Terminals
    BY DEF Terminals
  <1>1. CASE Submit(s) \/ Cancel(s) \/ Hold(s) \/ Release(s)
    <2>1. session' = session
      BY <1>1 DEF Submit, Cancel, Hold, Release
    <2> QED BY <2>1 DEF CommandGoes
  <1>2. CASE t # s
    <2>1. ASSUME NEW c, Goes(s, c) PROVE session'[t] = session[t]
      BY <1>2, <2>1, OthersStay
    <2>2. session'[t] = session[t]
      BY <1>1, <2>1 DEF UserStep, Submit, Cancel, Hold, Release, Delete, RemoveLogDir, CheckReset,
         RemoveAllLogs, RequestReset
    <2> QED BY <2>2 DEF CommandGoes
  <1>3. CASE t = s /\ Delete(s)
    <2>1. PICK ids \in Selections(Terminal) :
            /\ rows' = [i \in Ids |-> IF i \in ids \cap Bearers(Terminal) THEN NoRow ELSE rows[i]]
            /\ Goes(s, [stage |-> "removing", ids |-> ids \cap Bearers(Terminal), upto |-> uids])
      BY <1>3 DEF Delete
    <2>2. session'[s] = [stage |-> "removing", ids |-> ids \cap Bearers(Terminal), upto |-> uids]
      BY <2>1, ItGoes
    <2>3. \A i \in session'[s].ids : ~Present(i)'
      BY <2>1, <2>2 DEF Present, NoRow, Bearers
    <2> QED BY <1>3, <2>2, <2>3 DEF CommandGoes, Delete
  <1>4. CASE t = s /\ RemoveLogDir(s)
    <2>1. PICK i \in session[s].ids :
            Goes(s, IF session[s].ids \ {i} = {} THEN Idle
                    ELSE [session[s] EXCEPT !.ids = session[s].ids \ {i}])
      BY <1>4 DEF RemoveLogDir
    <2>2. session[s].stage = "removing" /\ session[s] \in [stage : {"removing"}, ids : SUBSET Ids,
                                                           upto : 0..MaxUids]
      BY <1>4, CommandShapes DEF RemoveLogDir, At, TypeOK
    <2>3. CASE session'[s] = Idle
      BY <1>4, <2>3 DEF CommandGoes, Idle
    <2>4. CASE session'[s] = [session[s] EXCEPT !.ids = session[s].ids \ {i}]
      <3>1. /\ session'[s].stage = "removing" /\ session'[s].upto = session[s].upto
            /\ session'[s].ids \subseteq session[s].ids
        BY <2>2, <2>4
      <3> QED BY <1>4, <2>2, <3>1 DEF CommandGoes
    <2> QED BY <2>1, <2>3, <2>4, ItGoes
  <1>5. CASE t = s /\ CheckReset(s)
    <2>1. session'[s] = [stage |-> "confirm", upto |-> uids]
      BY <1>5, ItGoes DEF CheckReset
    <2>2. Bearers(Active) = {}
      BY <1>5, StatusSets DEF CheckReset, Resettable
    <2>3. uids' = uids /\ rows' = rows
      BY <1>5 DEF CheckReset
    <2> QED BY <1>5, <2>1, <2>2, <2>3 DEF CommandGoes
  <1>6. CASE t = s /\ RemoveAllLogs(s)
    <2>1. session'[s] = [stage |-> "removed"]
      BY <1>6, ItGoes DEF RemoveAllLogs
    <2> QED BY <1>6, <2>1 DEF CommandGoes
  <1>7. CASE t = s /\ RequestReset(s)
    <2>1. session'[s] = Idle
      BY <1>7, ItGoes DEF RequestReset
    <2> QED BY <1>7, <2>1 DEF CommandGoes, Idle
  <1> QED BY <1>1, <1>2, <1>3, <1>4, <1>5, <1>6, <1>7 DEF UserStep

\* The steps of `logs` lead to stages at which nothing is removed.
LEMMA TerminalGoes ==
  ASSUME TypeOK, NEW s \in Terminals, TerminalStep(s), NEW t \in Users
  PROVE  CommandGoes(t)
  <1> t \in Terminals
    BY DEF Terminals
  <1>1. ASSUME NEW c, Goes(s, c), c.stage \notin {"confirm", "removing"} PROVE CommandGoes(t)
    <2>1. CASE t = s
      BY <1>1, <2>1, ItGoes DEF CommandGoes
    <2>2. CASE t # s
      BY <1>1, <2>2, OthersStay DEF CommandGoes
    <2> QED BY <2>1, <2>2
  <1>2. ASSUME NEW i \in Ids, ShowLogs(s, i, s \in Viewers) PROVE CommandGoes(t)
    <2>1. PICK slots \in SUBSET Slots :
            \/ Goes(s, [stage |-> "reading", id |-> i, uid |-> rows[i].uid, slots |-> slots])
            \/ \E stage \in {"waiting", "opening"} :
                  Goes(s, [stage |-> stage, id |-> i, uid |-> rows[i].uid,
                           slots |-> slots, tries |-> 0])
      BY <1>2, ShowLogsGoes
    <2> QED BY <1>1, <2>1
  <1>3. CASE PrintLogs(s)
    BY <1>1, <1>3 DEF PrintLogs
  <1>4. CASE LogsEnd(s) \/ Interrupt(s)
    BY <1>1, <1>4 DEF LogsEnd, Interrupt, Idle
  <1>5. CASE WaitForStart(s)
    <2>1. session[s].stage = "waiting" /\ session[s] \in [stage : {"waiting", "opening"}, id : Ids,
             uid : Uids, slots : SUBSET Slots, tries : 0..(MaxPolls + MaxLooks)]
      BY <1>5, CommandShapes DEF WaitForStart, At, TypeOK
    <2>2. /\ Again(s).stage = "waiting"
          /\ [session[s] EXCEPT !.stage = "opening", !.tries = 0].stage = "opening"
          /\ Idle.stage = "idle"
      BY <2>1 DEF Again, Idle
    <2> QED BY <1>1, <1>5, <2>2 DEF WaitForStart
  <1>6. CASE OpenLog(s)
    <2>1. session[s].stage = "opening" /\ session[s] \in [stage : {"waiting", "opening"}, id : Ids,
             uid : Uids, slots : SUBSET Slots, tries : 0..(MaxPolls + MaxLooks)]
      BY <1>6, CommandShapes DEF OpenLog, At, TypeOK
    <2>2. Again(s).stage = "opening" /\ Idle.stage = "idle"
      BY <2>1 DEF Again, Idle
    <2> QED BY <1>1, <1>6, <2>2 DEF OpenLog
  <1>7. CASE TailLog(s)
    <2>1. session[s].stage = "following" /\ session[s] \in [stage : {"following"}, uid : Uids,
             of : SUBSET Uids, shown : 0..MaxOutput]
      BY <1>7, CommandShapes DEF TailLog, At, TypeOK
    <2>2. [session[s] EXCEPT !.shown = @ + 1].stage = "following"
      BY <2>1
    <2> QED BY <1>1, <1>7, <2>2 DEF TailLog
  <1> QED BY <1>2, <1>3, <1>4, <1>5, <1>6, <1>7 DEF TerminalStep, LogStep

LEMMA NextGoes ==
  ASSUME TypeOK, [Next]_vars, NEW t \in Users
  PROVE  CommandGoes(t)
  <1>1. CASE SystemStep
    BY <1>1 DEF SystemStep, Dispatch, PodStarts, Observe, StopJob, PodWrites, JobEnds, FinishReset,
       CommandGoes
  <1>2. CASE UNCHANGED vars
    BY <1>2 DEF vars, CommandGoes
  <1> QED BY <1>1, <1>2, UserGoes, TerminalGoes DEF Next

LEMMA StillRelies ==
  ASSUME TypeOK, TypeOK', RowsAge, NEW s \in Users, Relies(s), CommandGoes(s)
  PROVE  Relies(s)'
  <1> s \in Terminals
    BY DEF Terminals
  <1>n. uids \in Nat /\ uids' \in Nat /\ uids' >= uids
    BY DEF TypeOK, RowsAge
  <1>c. session[s] \in Commands /\ session'[s] \in Commands
    BY DEF TypeOK
  <1>u. ASSUME NEW i \in Ids PROVE rows[i].uid \in Nat /\ rows'[i].uid \in Nat
    <2>1. rows[i] \in Row \cup {NoRow} /\ rows'[i] \in Row \cup {NoRow}
      BY <1>u DEF TypeOK
    <2>2. \A row \in Row \cup {NoRow} : row.uid \in Nat
      BY DEF Row, NoRow, Uids
    <2> QED BY <2>1, <2>2
  <1>1. CASE session'[s].stage \notin {"confirm", "removing"}
    BY <1>1 DEF Relies
  <1>2. CASE /\ session'[s].stage = "confirm" /\ session'[s].upto = uids
             /\ uids' = uids /\ rows' = rows /\ Bearers(Active) = {}
    BY <1>n, <1>2 DEF Relies, Bearers
  <1>3. CASE /\ session'[s].stage = "removing" /\ session'[s].upto = uids
             /\ uids' = uids /\ \A i \in session'[s].ids : ~Present(i)'
    BY <1>n, <1>3 DEF Relies
  <1>4. CASE /\ session[s].stage \in {"confirm", "removing"}
             /\ session'[s].stage = session[s].stage /\ session'[s].upto = session[s].upto
             /\ session[s].stage = "removing" => session'[s].ids \subseteq session[s].ids
    <2>1. session[s].upto \in Nat /\ session[s].upto <= uids
      BY <1>c, <1>4, CommandShapes DEF Relies
    <2>2. session'[s].upto <= uids'
      BY <1>n, <1>4, <2>1
    <2>3. ASSUME session[s].stage = "confirm", NEW i \in Ids, rows'[i].status \in Active
          PROVE  rows'[i].uid > session'[s].upto
      BY <1>n, <1>u, <1>4, <2>1, <2>3 DEF Relies, RowsAge, RowAges
    <2>4. ASSUME session[s].stage = "removing", NEW i \in session'[s].ids, Present(i)'
          PROVE  rows'[i].uid > session'[s].upto
      <3>1. i \in session[s].ids /\ i \in Ids
        BY <1>c, <1>4, <2>4, CommandShapes
      <3> QED BY <1>n, <1>u, <1>4, <2>1, <2>4, <3>1 DEF Relies, RowsAge, RowAges
    <2> QED BY <1>4, <2>2, <2>3, <2>4 DEF Relies
  <1> QED BY <1>1, <1>2, <1>3, <1>4 DEF CommandGoes

\* A reset that has looked at the rows and a delete that has removed some find
\* later only what they expect, apart from jobs submitted since.
THEOREM CommandsRelyOnRows == Spec => []CommandsRely
  <1>1. Init => CommandsRely
    BY DEF Init, Idle, CommandsRely, Relies, Terminals
  <1>2. TypeOK /\ TypeOK' /\ CommandsRely /\ [Next]_vars => CommandsRely'
    BY NextRowsAge, NextGoes, StillRelies DEF CommandsRely
  <1> QED BY <1>1, <1>2, SessionTypes, PTL DEF Spec

-----------------------------------------------------------------------------
(* The logs of a running job *)

\* The two steps that remove logs meet no running job, later submissions apart.
LEMMA RemovalSparesRunning ==
  ASSUME CommandsRely, TypeOK, NEW s \in Users, UserStep(s), NEW i \in Ids,
         rows[i].status = "RUNNING", NEW k \in Slots, files[i][k] # NoFile
  PROVE  \/ files'[i][k] # NoFile
         \/ Removes(s) /\ session[s].upto < rows[i].uid
  <1> s \in Terminals
    BY DEF Terminals
  <1>c. session[s] \in Commands /\ rows[i].uid \in Nat
    BY DEF TypeOK, Row, NoRow, Uids
  <1>1. CASE RemoveLogDir(s)
    <2>1. PICK j \in session[s].ids :
            /\ files' = [files EXCEPT ![j] = NoFiles]
            /\ Goes(s, IF session[s].ids \ {j} = {} THEN Idle
                       ELSE [session[s] EXCEPT !.ids = session[s].ids \ {j}])
      BY <1>1 DEF RemoveLogDir
    <2>2. session[s].stage = "removing" /\ session[s] \in [stage : {"removing"}, ids : SUBSET Ids,
                                                           upto : 0..MaxUids]
      BY <1>1, <1>c, CommandShapes DEF RemoveLogDir, At
    <2>3. CASE i # j
      BY <2>1, <2>3 DEF TypeOK
    <2>4. CASE i = j
      <3>1. session[s].upto < rows[i].uid
        BY <1>c, <2>1, <2>2, <2>4 DEF CommandsRely, Relies, Present
      <3>2. session'[s] # session[s]
        <4>1. CASE session'[s] = Idle
          BY <2>2, <4>1 DEF Idle
        <4>2. CASE session'[s] = [session[s] EXCEPT !.ids = session[s].ids \ {j}]
          BY <2>1, <2>2, <4>2
        <4> QED BY <2>1, <4>1, <4>2, ItGoes
      <3> QED BY <2>2, <3>1, <3>2 DEF Removes
    <2> QED BY <2>3, <2>4
  <1>2. CASE RemoveAllLogs(s)
    <2>1. session[s].stage = "confirm" /\ session[s].upto \in Nat
      BY <1>2, <1>c, CommandShapes DEF RemoveAllLogs, At
    <2>2. session[s].upto < rows[i].uid
      BY <1>c, <2>1, StatusSets DEF CommandsRely, Relies
    <2>3. session'[s].stage = "removed"
      BY <1>2, ItGoes DEF RemoveAllLogs
    <2> QED BY <2>1, <2>2, <2>3 DEF Removes
  <1>3. CASE ~RemoveLogDir(s) /\ ~RemoveAllLogs(s)
    <2>1. files' = files
      BY <1>3 DEF UserStep, Submit, Cancel, Hold, Release, Delete, CheckReset, RequestReset
    <2> QED BY <2>1
  <1> QED BY <1>1, <1>2, <1>3

SparesRunning ==
    \A i \in Ids : rows[i].status = "RUNNING"
       => \/ \A k \in Slots : files[i][k] # NoFile => files'[i][k] # NoFile
          \/ \E s \in Users : Removes(s) /\ session[s].upto < rows[i].uid

LEMMA NextSparesRunning ==
  ASSUME CommandsRely, TypeOK, [Next]_vars
  PROVE  SparesRunning
  <1>1. ASSUME NEW s \in Users, UserStep(s) PROVE SparesRunning
    BY <1>1, RemovalSparesRunning DEF SparesRunning
  <1>2. CASE files' = files
    BY <1>2 DEF SparesRunning
  <1>3. ASSUME NEW s \in Terminals, TerminalStep(s) PROVE files' = files
    BY <1>3 DEF TerminalStep, LogStep, ShowLogs, PrintLogs, LogsEnd, WaitForStart, OpenLog,
       TailLog, Interrupt
  <1>4. ASSUME NEW j \in Ids, PodStarts(j) PROVE SparesRunning
    <2>1. rows[j].uid \in Uids
      BY <1>4, RowShapes DEF PodStarts, Present, TypeOK
    <2>2. rows[j].uid # NoFile
      BY <2>1 DEF Uids, NoFile
    <2>3. ASSUME NEW i \in Ids, NEW k \in Slots, files[i][k] # NoFile PROVE files'[i][k] # NoFile
      BY <1>4, <2>2, <2>3 DEF PodStarts, TypeOK
    <2> QED BY <2>3 DEF SparesRunning
  <1>5. CASE UNCHANGED vars
    BY <1>2, <1>5 DEF vars
  <1>6. CASE SystemStep
    <2>1. (\E j \in Ids : PodStarts(j)) \/ files' = files
      BY <1>6 DEF SystemStep, Dispatch, Observe, StopJob, PodWrites, JobEnds, FinishReset
    <2> QED BY <1>2, <1>4, <2>1
  <1> QED BY <1>1, <1>2, <1>3, <1>5, <1>6 DEF Next

\* No command takes the logs of a running job that was submitted before the
\* command had read the rows, however many terminals give commands meanwhile.
THEOREM RunningJobsKeepTheirLogs == Spec => RunningKeepsLogs
  <1>1. CommandsRely /\ TypeOK /\ [Next]_vars
          => [\A i \in Ids : rows[i].status = "RUNNING"
                => \/ \A k \in Slots : files[i][k] # NoFile => files'[i][k] # NoFile
                   \/ \E s \in Users : Removes(s) /\ session[s].upto < rows[i].uid]_vars
    BY NextSparesRunning DEF SparesRunning
  <1> QED BY <1>1, CommandsRelyOnRows, SessionTypes, PTL DEF Spec, RunningKeepsLogs
=============================================================================
