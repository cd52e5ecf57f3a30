----------------------------- MODULE CliSession -----------------------------
(* The user's side of the system: terminals in which the cjob command runs,  *)
(* the log directories on the user's volume, which Pods write and the        *)
(* command reads and removes, and the Submit API with its daemons as the     *)
(* command sees them.                                                        *)
(*                                                                           *)
(* A command that sends one request and prints the answer is one action.     *)
(* reset, delete and logs read, decide and act in several steps, and what    *)
(* they read may be stale when they act.  The user may interrupt a command   *)
(* between any two of its steps (Ctrl-C, a closed terminal, a lost           *)
(* connection).  Following a log occupies a terminal, so it has terminals of *)
(* its own.                                                                  *)
EXTENDS Integers, FiniteSets, Sequences

CONSTANTS
    Users,        \* terminals in which every command is run but logs --follow
    Viewers,      \* terminals in which only `cjob logs --follow` is run
    MaxJobs,      \* bound: ids in use at one time
    MaxUids,      \* bound: submissions altogether
    Sweeps,       \* which of the submissions are sweeps
    Completions,  \* number of tasks of a sweep
    Expressions,  \* job id expressions the user may type
    MaxPolls,     \* WAIT_TIMEOUT / POLL_INTERVAL: polls before a wait gives up
    MaxLooks,     \* looks for the log file before the tail gives up
    MaxOutput,    \* bound: pieces of output a job writes
    LateStart     \* whether a Pod may start after its job was cancelled

ASSUME CliSessionAssumption ==
    /\ Users \cap Viewers = {}
    /\ MaxJobs \in Nat \ {0} /\ MaxUids \in Nat /\ Completions \in Nat \ {0}
    /\ MaxPolls \in Nat /\ MaxLooks \in Nat /\ MaxOutput \in Nat
    /\ LateStart \in BOOLEAN
    /\ Sweeps \subseteq 1..MaxUids
    /\ Expressions \subseteq Seq(Nat \X Nat)

VARIABLES
    rows,     \* the rows of the user's namespace, by id
    nextId,   \* the counter of the namespace
    uids,     \* how many jobs were ever submitted; each has a number of its own
    pods,     \* by job: its Job on the cluster
    files,    \* by id: the log files in its directory, each with its writer
    written,  \* by job: how much output it has written
    session   \* by terminal: the command that runs there

vars == <<rows, nextId, uids, pods, files, written, session>>

Ids == 1..MaxJobs
Uids == 1..MaxUids
Terminals == Users \cup Viewers

Whole == -1                          \* the log of a job that is not a sweep
Tasks == 0..(Completions - 1)
Slots == Tasks \cup {Whole}

\* DISPATCHED stands for DISPATCHING too and ENDED for SUCCEEDED and FAILED:
\* no command tells them apart.
NotStarted == {"QUEUED", "DISPATCHED"}
Active == NotStarted \cup {"RUNNING", "HELD"}
Terminal == {"ENDED", "CANCELLED"}
Statuses == Active \cup Terminal \cup {"DELETING"}

NoRow == [status |-> "NONE", uid |-> 0]
Row == [status : Statuses, uid : Uids]

\* Jobs on the cluster; begun are the logs its Pods have opened.
NoPods == [state |-> "none", begun |-> {}]

Idle == [stage |-> "idle"]
NoFile == 0

\* A command between two of its steps, with what it remembers; upto counts the
\* submissions there had been when it read or removed the rows.
Commands ==
    {Idle}
    \cup [stage : {"removing"}, ids : SUBSET Ids, upto : 0..MaxUids]
    \cup [stage : {"confirm"}, upto : 0..MaxUids]
    \cup [stage : {"removed"}]
    \cup [stage : {"reading"}, id : Ids, uid : Uids, slots : SUBSET Slots]
    \cup [stage : {"waiting", "opening"}, id : Ids, uid : Uids,
          slots : SUBSET Slots, tries : 0..(MaxPolls + MaxLooks)]
    \cup [stage : {"shown"}, uid : Uids, of : SUBSET Uids]
    \cup [stage : {"following"}, uid : Uids, of : SUBSET Uids, shown : 0..MaxOutput]

TypeOK ==
    /\ rows \in [Ids -> Row \cup {NoRow}]
    /\ nextId \in 1..(MaxJobs + 1)
    /\ uids \in 0..MaxUids
    /\ pods \in [Uids -> [state : {"none", "on", "over"}, begun : SUBSET Slots]]
    /\ files \in [Ids -> [Slots -> Uids \cup {NoFile}]]
    /\ written \in [Uids -> 0..MaxOutput]
    /\ session \in [Terminals -> Commands]

Init ==
    /\ rows = [i \in Ids |-> NoRow]
    /\ nextId = 1
    /\ uids = 0
    /\ pods = [u \in Uids |-> NoPods]
    /\ files = [i \in Ids |-> [k \in Slots |-> NoFile]]
    /\ written = [u \in Uids |-> 0]
    /\ session = [s \in Terminals |-> Idle]

\* What `GET /v1/jobs/{id}` and `GET /v1/jobs` answer.
Present(i) == rows[i].status # "NONE"
Bearers(S) == {i \in Ids : rows[i].status \in S}
NoFiles == [k \in Slots |-> NoFile]
SlotsOf(row) == IF row.uid \in Sweeps THEN Tasks ELSE {Whole}

At(s, stage) == session[s].stage = stage
Goes(s, next) == session' = [session EXCEPT ![s] = next]

---------------------------------------------------------------------------
(* Job ids as the user types them: ranges separated by commas, empty parts   *)
(* skipped; a range that runs backwards refuses the command.                 *)
WellFormed(expr) == \A n \in DOMAIN expr : expr[n][1] <= expr[n][2]
ParseJobIds(expr) == UNION {expr[n][1] .. expr[n][2] : n \in DOMAIN expr}

\* What the user names: an expression, or --all, which stands for every row of
\* the given statuses.  An expression without ids names nothing.
Selections(S) ==
    {ParseJobIds(e) \cap Ids : e \in {x \in Expressions : WellFormed(x)}} \cup {Bearers(S)}

---------------------------------------------------------------------------
(* Commands of one request.  The Submit API answers every id with one of     *)
(* done, skipped and not found.                                              *)

Resets == Bearers({"DELETING"}) # {}

\* The answer to a submission is the next id of the namespace.
Accepted ==
    /\ uids' = uids + 1
    /\ nextId' = nextId + 1
    /\ rows' = [rows EXCEPT ![nextId] = [status |-> "QUEUED", uid |-> uids + 1]]

\* cjob add, cjob sweep: refused while a reset is in progress.
Submit(s) ==
    /\ At(s, "idle")
    /\ ~Resets
    /\ uids < MaxUids /\ nextId <= MaxJobs
    /\ Accepted
    /\ UNCHANGED <<pods, files, written, session>>

SlipMoves(ids, from, to) ==             \* ids that are not found are written
    rows' = [i \in Ids |-> IF i \in ids THEN [rows[i] EXCEPT !.status = to] ELSE rows[i]]

\* Rows of ids whose status allows it get a new status, the others are skipped.
Moves(ids, from, to) ==
    rows' = [i \in Ids |-> IF i \in ids /\ rows[i].status \in from
                             THEN [rows[i] EXCEPT !.status = to] ELSE rows[i]]

Cancel(s) ==
    /\ At(s, "idle")
    /\ \E e \in Expressions :
          WellFormed(e) /\ Moves(ParseJobIds(e), Active, "CANCELLED")
    /\ UNCHANGED <<nextId, uids, pods, files, written, session>>

Hold(s) ==
    /\ At(s, "idle")
    /\ \E ids \in Selections({"QUEUED"}) : Moves(ids, {"QUEUED"}, "HELD")
    /\ UNCHANGED <<nextId, uids, pods, files, written, session>>

Release(s) ==
    /\ At(s, "idle")
    /\ \E ids \in Selections({"HELD"}) : Moves(ids, {"HELD"}, "QUEUED")
    /\ UNCHANGED <<nextId, uids, pods, files, written, session>>

---------------------------------------------------------------------------
(* cjob delete: the request removes the rows, then the command removes the   *)
(* log directories the answer names, one after the other.                    *)
Delete(s) ==
    /\ At(s, "idle")
    /\ \E ids \in Selections(Terminal) :
          LET deleted == ids \cap Bearers(Terminal)
          IN  /\ deleted # {}
              /\ rows' = [i \in Ids |-> IF i \in deleted THEN NoRow ELSE rows[i]]
              /\ Goes(s, [stage |-> "removing", ids |-> deleted, upto |-> uids])
    /\ UNCHANGED <<nextId, uids, pods, files, written>>

RemoveLogDir(s) ==
    /\ At(s, "removing")
    /\ \E i \in session[s].ids :
          LET rest == session[s].ids \ {i}
          IN  /\ \A j \in rest : i < j
              /\ files' = [files EXCEPT ![i] = NoFiles]
              /\ Goes(s, IF rest = {} THEN Idle ELSE [session[s] EXCEPT !.ids = rest])
    /\ UNCHANGED <<rows, nextId, uids, pods, written>>

---------------------------------------------------------------------------
(* cjob reset: look at the list of jobs, ask the user, remove all logs, and  *)
(* only then ask the Submit API, which checks again.                         *)
SlipResettable ==                       \* a job about to start is overlooked
    /\ Bearers({"DELETING", "QUEUED", "RUNNING", "HELD"}) = {}
    /\ Bearers(Statuses) # {}

Resettable ==
    /\ Bearers({"DELETING"}) = {}
    /\ Bearers({"QUEUED", "DISPATCHED", "RUNNING", "HELD"}) = {}
    /\ Bearers(Statuses) # {}

CheckReset(s) ==
    /\ At(s, "idle")
    /\ Resettable
    /\ Goes(s, [stage |-> "confirm", upto |-> uids])
    /\ UNCHANGED <<rows, nextId, uids, pods, files, written>>

SlipCleared ==                          \* only the logs of listed jobs
    [i \in Ids |-> IF Present(i) THEN NoFiles ELSE files[i]]

Cleared == [i \in Ids |-> NoFiles]

RemoveAllLogs(s) ==
    /\ At(s, "confirm")
    /\ files' = Cleared
    /\ Goes(s, [stage |-> "removed"])
    /\ UNCHANGED <<rows, nextId, uids, pods, written>>

\* The answer is 202 or, when a row is active or DELETING, 409.
RequestReset(s) ==
    /\ At(s, "removed")
    /\ Goes(s, Idle)
    /\ IF Bearers(Active \cup {"DELETING"}) = {}
         THEN Moves(Ids, Terminal, "DELETING")
         ELSE UNCHANGED rows
    /\ UNCHANGED <<nextId, uids, pods, files, written>>

---------------------------------------------------------------------------
(* cjob logs: the row decides how the files are read.  A sweep is followed   *)
(* one task at a time; --index belongs to sweeps.                            *)
Asked(row, follow) ==
    IF row.uid \notin Sweeps THEN {{Whole}}
    ELSE {{k} : k \in Tasks} \cup (IF follow THEN {} ELSE {Tasks})

ShowLogs(s, i, follow) ==
    /\ At(s, "idle")
    /\ Present(i)
    /\ \E slots \in Asked(rows[i], follow) :
          LET reads(K) == Goes(s, [stage |-> "reading", id |-> i, uid |-> rows[i].uid,
                                   slots |-> K])
              waits(stage) == Goes(s, [stage |-> stage, id |-> i, uid |-> rows[i].uid,
                                       slots |-> slots, tries |-> 0])
          IN  \/ rows[i].status \in NotStarted /\ follow /\ waits("waiting")
              \/ rows[i].status = "RUNNING" /\ follow /\ waits("opening")
              \/ rows[i].status = "RUNNING" /\ ~follow /\ reads(slots)
              \/ rows[i].status \in Terminal /\ reads(slots)
              \/ rows[i].status = "DELETING" /\ reads({Whole})
    /\ UNCHANGED <<rows, nextId, uids, pods, files, written>>

\* Everything the named files hold is printed, a file that does not exist is
\* passed over.
PrintLogs(s) ==
    /\ At(s, "reading")
    /\ Goes(s, [stage |-> "shown", uid |-> session[s].uid,
                of |-> {files[session[s].id][k] : k \in session[s].slots} \ {NoFile}])
    /\ UNCHANGED <<rows, nextId, uids, pods, files, written>>

LogsEnd(s) ==
    /\ At(s, "shown")
    /\ Goes(s, Idle)
    /\ UNCHANGED <<rows, nextId, uids, pods, files, written>>

SlipAgain(s) == session[s]              \* the clock is read anew in the loop
Again(s) == [session[s] EXCEPT !.tries = @ + 1]
GivesUp(s, bound) == session[s].tries >= bound

\* Polls the status until the job has started or ended.
WaitForStart(s) ==
    /\ At(s, "waiting")
    /\ LET row == rows[session[s].id]
       IN  \/ GivesUp(s, MaxPolls) /\ Goes(s, Idle)
           \/ /\ ~GivesUp(s, MaxPolls)
              /\ \/ row.status \in NotStarted
                    /\ Goes(s, Again(s))
                 \/ row.status \in {"RUNNING", "ENDED"}
                    /\ Goes(s, [session[s] EXCEPT !.stage = "opening", !.tries = 0])
                 \/ row.status \in {"HELD", "CANCELLED", "DELETING", "NONE"}
                    /\ Goes(s, Idle)
    /\ UNCHANGED <<rows, nextId, uids, pods, files, written>>

\* Waits for the file to appear, then keeps it open.
OpenLog(s) ==
    /\ At(s, "opening")
    /\ LET writers == {files[session[s].id][k] : k \in session[s].slots} \ {NoFile}
       IN  \/ writers # {}
              /\ Goes(s, [stage |-> "following", uid |-> session[s].uid,
                          of |-> writers, shown |-> 0])
           \/ writers = {} /\ GivesUp(s, MaxLooks) /\ Goes(s, Idle)
           \/ writers = {} /\ ~GivesUp(s, MaxLooks)
              /\ Goes(s, Again(s))
    /\ UNCHANGED <<rows, nextId, uids, pods, files, written>>

\* An open file is read on even when its directory was removed; at its end the
\* command sleeps and reads again.
Behind(s) == \E u \in session[s].of : session[s].shown < written[u]

SlipTailLog(s) ==                       \* the file is opened again by its path
    /\ At(s, "following")
    /\ Behind(s) /\ \E i \in Ids, k \in Slots : files[i][k] \in session[s].of
    /\ Goes(s, [session[s] EXCEPT !.shown = @ + 1])
    /\ UNCHANGED <<rows, nextId, uids, pods, files, written>>

TailLog(s) ==
    /\ At(s, "following")
    /\ Behind(s)
    /\ Goes(s, [session[s] EXCEPT !.shown = @ + 1])
    /\ UNCHANGED <<rows, nextId, uids, pods, files, written>>

\* The user ends the command, or an answer that is an error does: a call that
\* fails is not tried again.
Interrupt(s) ==
    /\ ~At(s, "idle")
    /\ Goes(s, Idle)
    /\ UNCHANGED <<rows, nextId, uids, pods, files, written>>

---------------------------------------------------------------------------
(* What the daemons do to the rows, and the Pods on the cluster.             *)

Dispatch(i) ==
    /\ rows[i].status = "QUEUED"
    /\ rows' = [rows EXCEPT ![i].status = "DISPATCHED"]
    /\ pods' = [pods EXCEPT ![rows[i].uid].state = "on"]
    /\ UNCHANGED <<nextId, uids, files, written, session>>

\* A Pod creates its log directory and truncates its files before it runs the
\* user's command.
PodStarts(i) ==
    /\ Present(i)
    /\ LateStart \/ rows[i].status \in Active
    /\ pods[rows[i].uid].state = "on"
    /\ \E k \in SlotsOf(rows[i]) \ pods[rows[i].uid].begun :
          /\ pods' = [pods EXCEPT ![rows[i].uid].begun = @ \cup {k}]
          /\ files' = [files EXCEPT ![i][k] = rows[i].uid]
    /\ UNCHANGED <<rows, nextId, uids, written, session>>

PodWrites(u) ==
    /\ pods[u].state = "on" /\ pods[u].begun # {}
    /\ written[u] < MaxOutput
    /\ written' = [written EXCEPT ![u] = @ + 1]
    /\ UNCHANGED <<rows, nextId, uids, pods, files, session>>

JobEnds(u) ==
    /\ pods[u].state = "on"
    /\ pods' = [pods EXCEPT ![u] = [state |-> "over", begun |-> {}]]
    /\ UNCHANGED <<rows, nextId, uids, files, written, session>>

\* The Watcher copies what it sees to the row.
Observe(i) ==
    /\ \/ /\ rows[i].status = "DISPATCHED"
          /\ pods[rows[i].uid].state = "on" /\ pods[rows[i].uid].begun # {}
          /\ rows' = [rows EXCEPT ![i].status = "RUNNING"]
       \/ /\ rows[i].status \in {"DISPATCHED", "RUNNING"}
          /\ pods[rows[i].uid].state = "over"
          /\ rows' = [rows EXCEPT ![i].status = "ENDED"]
    /\ UNCHANGED <<nextId, uids, pods, files, written, session>>

\* The Watcher deletes the Jobs of cancelled and resetting rows.
StopJob(i) ==
    /\ rows[i].status \in {"CANCELLED", "DELETING"}
    /\ pods[rows[i].uid].state # "none"
    /\ pods' = [pods EXCEPT ![rows[i].uid] = NoPods]
    /\ UNCHANGED <<rows, nextId, uids, files, written, session>>

\* The Watcher ends a reset when no Job of the namespace is left.
FinishReset ==
    /\ Resets
    /\ \A i \in Bearers({"DELETING"}) : pods[rows[i].uid].state = "none"
    /\ rows' = [i \in Ids |-> NoRow]
    /\ nextId' = 1
    /\ UNCHANGED <<uids, pods, files, written, session>>

---------------------------------------------------------------------------
LogStep(s) == PrintLogs(s) \/ LogsEnd(s) \/ WaitForStart(s) \/ OpenLog(s) \/ TailLog(s)

UserStep(s) ==
    \/ Submit(s)
    \/ Cancel(s) \/ Hold(s) \/ Release(s)
    \/ Delete(s) \/ RemoveLogDir(s)
    \/ CheckReset(s) \/ RemoveAllLogs(s) \/ RequestReset(s)

TerminalStep(s) ==
    \/ \E i \in Ids : ShowLogs(s, i, s \in Viewers)
    \/ LogStep(s)
    \/ Interrupt(s)

SystemStep ==
    \/ \E i \in Ids : Dispatch(i) \/ PodStarts(i) \/ Observe(i) \/ StopJob(i)
    \/ \E u \in Uids : PodWrites(u) \/ JobEnds(u)
    \/ FinishReset

Next ==
    \/ \E s \in Users : UserStep(s)
    \/ \E s \in Terminals : TerminalStep(s)
    \/ SystemStep

\* A log command that runs goes on; nothing is asked of users, Pods and daemons.
Fairness == \A s \in Terminals : WF_vars(LogStep(s))

Spec == Init /\ [][Next]_vars /\ Fairness

---------------------------------------------------------------------------
(* Properties.                                                               *)

\* What `cjob logs` prints or follows was never written by a job that bore the
\* id before the job it was asked about: whatever a reset or a delete leaves
\* undone when it is interrupted, no log outlives its numbering.  (As long as
\* one terminal gives commands: a job that another one submits during a reset
\* writes after the removal.)
ShowsItsJob ==
    \A s \in Terminals :
        session[s].stage \in {"shown", "following"}
            => \A u \in session[s].of : u >= session[s].uid

\* No command takes the logs of a job that runs, unless the job was submitted
\* after the command had read the rows: the statuses cmd_reset looks for, the
\* ones the Submit API deletes and refuses, and the steps of the daemons in
\* between agree, and an id used again is told apart.
Removes(s) == session[s].stage \in {"confirm", "removing"} /\ session'[s] # session[s]
RunningKeepsLogs ==
    [][\A i \in Ids : rows[i].status = "RUNNING"
          => \/ \A k \in Slots : files[i][k] # NoFile => files'[i][k] # NoFile
             \/ \E s \in Users : Removes(s) /\ session[s].upto < rows[i].uid]_vars

\* `logs --follow` never waits for ever for a job that does not start or that
\* writes no file.
WaitEnds ==
    \A s \in Terminals :
        session[s].stage \in {"waiting", "opening"}
            ~> session[s].stage \notin {"waiting", "opening"}

\* A log that is followed is shown to its end, however late the job writes and
\* whatever happens to its row and its directory, unless the user stops looking.
FollowerCatchesUp ==
    \A s \in Terminals :
        (At(s, "following") /\ Behind(s))
            ~> (At(s, "idle") \/ (At(s, "following") /\ ~Behind(s)))
=============================================================================
