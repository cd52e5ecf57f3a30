---------------------------- MODULE JobLifecycle ----------------------------
(***************************************************************************)
(* The life of the jobs of one user namespace, from submission to the end  *)
(* of their Kubernetes Jobs, as four programs drive it without talking to  *)
(* each other:                                                             *)
(*                                                                         *)
(*   Submit API   replicated request handlers; each request reads rows and *)
(*                writes them back in one READ COMMITTED transaction       *)
(*   Dispatcher   QUEUED -> DISPATCHING (committed), then create the       *)
(*                Kubernetes Job, then DISPATCHED (committed)              *)
(*   Watcher      list the Kubernetes Jobs, load the rows, delete Jobs and *)
(*                decide, then commit every row change at once             *)
(*   Kubernetes   (external) runs, finishes and expires Jobs               *)
(*                                                                         *)
(* They share the table "jobs" and the cluster.  Each read that a program  *)
(* acts upon later is a step of its own, so every other program may move   *)
(* in between.                                                             *)
(*                                                                         *)
(* Data is abstracted to what the properties tell apart: a row keeps its   *)
(* status, retry_count, whether retry_after lies in the future, how old    *)
(* dispatched_at is with respect to the two thresholds that read it,       *)
(* whether started_at is set, and (history) how often its usage was        *)
(* recorded and which numbering of the ids it belongs to.  Time is not a   *)
(* number: a deadline passes by a step of its own.                         *)
(***************************************************************************)
EXTENDS Naturals, FiniteSets

CONSTANTS
    MaxJobs,         \* ids the model numbers jobs with (bound)
    Clients,         \* requests the API replicas can have in flight
    DispatchBudget,  \* DISPATCH_BUDGET_PER_NAMESPACE
    MaxRetries,      \* DISPATCH_MAX_RETRIES
    MaxQueued,       \* MAX_QUEUED_JOBS_PER_NAMESPACE
    MaxResets,       \* resets the model runs through (bound)
    StallGuard,      \* DISPATCHED_PENDING_TIMEOUT_SEC is positive
    Faults           \* the adversities of this environment, see FaultKinds

(***************************************************************************)
(* What an environment may do beyond the ordinary:                         *)
(*   crash        a daemon dies between two of its steps and is restarted  *)
(*   lost_reply   a create call takes effect but its answer is an error    *)
(*   db_error     the database refuses a closing write of the Dispatcher   *)
(*   api_race     other programs write rows between the read and the write *)
(*                of an API request                                        *)
(*   watch_race   other programs write rows between the Watcher's load and *)
(*                its commit                                               *)
(*   refused      the Kubernetes API server refuses a deletion             *)
(*   slow_delete  a deleted Kubernetes Job stays listed for a while        *)
(*   early_ttl    a finished Kubernetes Job expires before it was observed *)
(***************************************************************************)
FaultKinds == {"crash", "lost_reply", "db_error", "api_race", "watch_race",
               "refused", "slow_delete", "early_ttl"}

ASSUME ConstantsOK ==
    /\ MaxJobs \in Nat \ {0}
    /\ DispatchBudget \in Nat \ {0}
    /\ MaxRetries \in Nat \ {0}
    /\ MaxQueued \in Nat \ {0}
    /\ MaxResets \in Nat
    /\ StallGuard \in BOOLEAN
    /\ Faults \subseteq FaultKinds

Jobs == 1..MaxJobs

Terminal    == {"SUCCEEDED", "FAILED", "CANCELLED"}
Active      == {"QUEUED", "DISPATCHING", "DISPATCHED", "RUNNING", "HELD"}
Counted     == {"QUEUED", "DISPATCHING", "DISPATCHED", "CANCELLED", "HELD"}
\* The statuses that use up dispatch budget.
InFlight    == {"DISPATCHING", "DISPATCHED", "RUNNING"}
Statuses    == Active \cup Terminal \cup {"DELETING"}
None        == "none"      \* no row, no Kubernetes Job, no change

\* What the Watcher can see of a Kubernetes Job: no Pod ready, a Pod ready,
\* condition Complete, condition Failed (or Complete with failed indexes).
Phases == {"pending", "ready", "complete", "failed"}

\* What the requests ask of a row's status.  (The slips after each definition
\* are the mistakes the runs are known to catch; nothing else uses them.)
SlipCancellable == Active \cup {"FAILED"}
Cancellable     == Active

SlipDeletable == Terminal \cup {"HELD"}
Deletable     == Terminal

\* A reset needs a namespace without rows of these statuses.
ResetBlockers == Active \cup {"DELETING"}

Operations == {"submit", "cancel", "hold", "release", "delete", "reset"}
Idle       == [op |-> "idle", job |-> 1]

VARIABLES
    status,      \* status[j] of the row, None if there is no row
    retries,     \* retry_count
    delayed,     \* retry_after > NOW()
    age,         \* NOW() - dispatched_at: within the grace period, past it,
                 \* past the dispatch timeout
    started,     \* started_at IS NOT NULL
    billed,      \* history: times the usage of this row was recorded (2: or more)
    numbering,   \* history: the numbering of ids the row belongs to
    nextId,      \* user_job_counters.next_id
    resets,      \* history: completed resets, the current numbering
    k8s,         \* phase of the Kubernetes Job named after j, None if absent
    dying,       \* Jobs deleted but still listed
    origin,      \* history: numbering of the row its manifest came from
    dpc, djob, dorigin, batch,            \* Dispatcher
    wpc, snap, seen, update, wipe,        \* Watcher
    req                                   \* API requests in flight

rowVars   == <<status, retries, delayed, age, started, billed, numbering>>
dbVars    == <<rowVars, nextId, resets>>
k8sVars   == <<k8s, dying, origin>>
dispVars  == <<dpc, djob, dorigin, batch>>
watchVars == <<wpc, snap, seen, update, wipe>>
vars      == <<dbVars, k8sVars, dispVars, watchVars, req>>

Init ==
    /\ status = [j \in Jobs |-> None]
    /\ retries = [j \in Jobs |-> 0]
    /\ delayed = [j \in Jobs |-> FALSE]
    /\ age = [j \in Jobs |-> "grace"]
    /\ started = [j \in Jobs |-> FALSE]
    /\ billed = [j \in Jobs |-> 0]
    /\ numbering = [j \in Jobs |-> 0]
    /\ nextId = 1
    /\ resets = 0
    /\ k8s = [j \in Jobs |-> None]
    /\ dying = {}
    /\ origin = [j \in Jobs |-> 0]
    /\ dpc = "down" /\ djob = 1 /\ dorigin = 0 /\ batch = {}
    /\ wpc = "list"
    /\ snap = [j \in Jobs |-> None]
    /\ seen = [j \in Jobs |-> None]
    /\ update = [j \in Jobs |-> None]
    /\ wipe = FALSE
    /\ req = [c \in Clients |-> Idle]

-----------------------------------------------------------------------------
(***************************************************************************)
(* When a program may step.  Without api_race a request runs from its read *)
(* to its write with no other step in between, and does not meet the row   *)
(* locks of the Watcher; without watch_race no other program writes rows   *)
(* from the Watcher's load to its commit.                                  *)
(***************************************************************************)
ApiQuiet   == "api_race" \in Faults \/ \A c \in Clients : req[c] = Idle
WatchQuiet == "watch_race" \in Faults \/ wpc \in {"list", "load"}

\* The rows of S get status s, every other column stays.
SetStatus(S, s) ==
    /\ status' = [j \in Jobs |-> IF j \in S THEN s ELSE status[j]]
    /\ UNCHANGED <<retries, delayed, age, started, billed, numbering>>

\* The rows of S disappear (their columns fall back to the initial values).
DropRows(S) ==
    /\ status' = [j \in Jobs |-> IF j \in S THEN None ELSE status[j]]
    /\ retries' = [j \in Jobs |-> IF j \in S THEN 0 ELSE retries[j]]
    /\ delayed' = [j \in Jobs |-> j \notin S /\ delayed[j]]
    /\ age' = [j \in Jobs |-> IF j \in S THEN "grace" ELSE age[j]]
    /\ started' = [j \in Jobs |-> j \notin S /\ started[j]]
    /\ billed' = [j \in Jobs |-> IF j \in S THEN 0 ELSE billed[j]]
    /\ numbering' = [j \in Jobs |-> IF j \in S THEN 0 ELSE numbering[j]]

RowsIn(T) == {j \in Jobs : status[j] \in T}

\* determine_status: what a listed Job says about the row.
SlipObserved(phase) ==
    CASE phase = "ready"    -> "RUNNING"
      [] phase = "complete" -> "SUCCEEDED"
      [] OTHER              -> None
Observed(phase) ==
    CASE phase = "ready"    -> "RUNNING"
      [] phase = "complete" -> "SUCCEEDED"
      [] phase = "failed"   -> "FAILED"
      [] OTHER              -> None

\* The Jobs of the Watcher's list; those without a row, or whose row is
\* CANCELLED or DELETING; and the rows whose status the others change (a
\* finished row never goes back to RUNNING).
Listed   == {j \in Jobs : snap[j] # None}
SlipUnwanted == {j \in Jobs : snap[j] # None /\ seen[j] \in {"CANCELLED", "DELETING"}}
Unwanted == {j \in Listed : seen[j] \in {None, "CANCELLED", "DELETING"}}
Synced   == {j \in Listed \ Unwanted :
               /\ Observed(snap[j]) \notin {None, seen[j]}
               /\ ~(seen[j] \in {"SUCCEEDED", "FAILED"} /\ Observed(snap[j]) = "RUNNING")}

\* The Watcher has sent its updates of the synced rows to the database: until
\* it commits, other writers of these rows wait.
Unlocked(S) == wpc = "commit" => S \cap Synced = {}

-----------------------------------------------------------------------------
(* Submit API: one action for the read of a request, one for its write.    *)

\* The rows as the request reads them let it go on to its write.
Admits(op, j) ==
    CASE op = "submit"  -> /\ RowsIn({"DELETING"}) = {}
                           /\ Cardinality(RowsIn(Counted)) < MaxQueued
      [] op = "cancel"  -> status[j] \in Cancellable
      [] op = "hold"    -> status[j] = "QUEUED"
      [] op = "release" -> status[j] = "HELD"
      [] op = "delete"  -> status[j] \in Deletable
      [] op = "reset"   -> RowsIn(ResetBlockers) = {}

\* The model's bounds on ids and resets.
WithinBounds(op) ==
    /\ op = "reset" => resets < MaxResets
    /\ op = "submit" => nextId <= MaxJobs

RequestRead(c, op, j) ==
    /\ req[c] = Idle
    /\ op \in {"submit", "reset"} => j = 1
    /\ Admits(op, j)
    /\ WithinBounds(op)
    /\ req' = [req EXCEPT ![c] = [op |-> op, job |-> j]]
    /\ UNCHANGED <<dbVars, k8sVars, dispVars, watchVars>>

\* allocate_job_id: the counter moves on with every id it hands out.
SlipFollowingId == nextId
FollowingId     == nextId + 1

\* The write is decided by what was read: it does not look at the row again.
\* Only a row that has disappeared stops it (the transaction rolls back).
SubmitWrite ==
    IF nextId > MaxJobs
    THEN UNCHANGED dbVars
    ELSE /\ status' = [status EXCEPT ![nextId] = "QUEUED"]
         /\ numbering' = [numbering EXCEPT ![nextId] = resets]
         /\ nextId' = FollowingId
         /\ UNCHANGED <<retries, delayed, age, started, billed, resets>>

StatusWrite(j, s) ==
    /\ SetStatus({j} \ RowsIn({None}), s)
    /\ UNCHANGED <<nextId, resets>>

RequestWrite(c) ==
    LET op == req[c].op
        j  == req[c].job
    IN  /\ req[c] # Idle
        /\ op # "submit" => Unlocked(IF op = "reset" THEN RowsIn(Terminal) ELSE {j})
        /\ \/ op = "submit"  /\ SubmitWrite
           \/ op = "cancel"  /\ StatusWrite(j, "CANCELLED")
           \/ op = "hold"    /\ StatusWrite(j, "HELD")
           \/ op = "release" /\ StatusWrite(j, "QUEUED")
           \/ op = "delete"  /\ DropRows({j}) /\ UNCHANGED <<nextId, resets>>
           \/ /\ op = "reset"
              /\ SetStatus(RowsIn(Terminal), "DELETING")
              /\ UNCHANGED <<nextId, resets>>
        /\ req' = [req EXCEPT ![c] = Idle]
        /\ UNCHANGED <<k8sVars, dispVars, watchVars>>

\* cjobctl jobs cancel: one conditional UPDATE, which spares held jobs.
AdminCancel(j) ==
    /\ status[j] \in Cancellable \ {"HELD"} /\ Unlocked({j})
    /\ SetStatus({j}, "CANCELLED")
    /\ UNCHANGED <<nextId, resets, k8sVars, dispVars, watchVars, req>>

-----------------------------------------------------------------------------
(* Dispatcher *)

\* Startup: rows left in DISPATCHING by an earlier process are queued again.
SlipStale == {}
Stale     == RowsIn({"DISPATCHING"})

DispatcherStart ==
    /\ dpc = "down"
    /\ Unlocked(Stale)
    /\ status' = [j \in Jobs |-> IF j \in Stale THEN "QUEUED" ELSE status[j]]
    /\ delayed' = [j \in Jobs |-> j \notin Stale /\ delayed[j]]
    /\ dpc' = "idle"
    /\ UNCHANGED <<retries, age, started, billed, numbering, nextId, resets,
                   djob, dorigin, batch, k8sVars, watchVars, req>>

\* What the budget is spent on, counted once at the start of a cycle.
SlipSpent == RowsIn({"DISPATCHING", "RUNNING"})
Spent     == RowsIn(InFlight)

\* The candidates of a cycle: queued rows whose retry_after has passed, no
\* more than the budget leaves at this moment.  Order, gap filling and the
\* capacity filters may leave out any of them.
Fetch ==
    /\ dpc = "idle" /\ batch = {}
    /\ \E S \in SUBSET {j \in RowsIn({"QUEUED"}) : ~delayed[j]} :
          /\ S # {}
          /\ Cardinality(S) + Cardinality(Spent) <= DispatchBudget
          /\ batch' = S
    /\ UNCHANGED <<dbVars, k8sVars, dpc, djob, dorigin, watchVars, req>>

\* The compare-and-set: it succeeds on any row that is QUEUED by now.  The
\* row is read again after the commit, to build the manifest from it.  A
\* candidate whose row is gone may raise, which ends the cycle.
CasToDispatching(j) ==
    /\ dpc = "idle" /\ j \in batch /\ Unlocked({j})
    /\ \/ /\ status[j] = "QUEUED"
          /\ SetStatus({j}, "DISPATCHING")
          /\ dpc' = "create" /\ djob' = j /\ dorigin' = numbering[j]
          /\ batch' = batch \ {j}
       \/ /\ status[j] # "QUEUED"
          /\ batch' \in {batch \ {j}} \cup {S \in {{}} : status[j] = None}
          /\ UNCHANGED <<rowVars, dpc, djob, dorigin>>
    /\ UNCHANGED <<nextId, resets, k8sVars, watchVars, req>>

\* create_namespaced_job and what dispatch_one makes of its outcome: the
\* name is taken (409, permanent), any other permanent error, a temporary
\* error, an exceeded ResourceQuota, or a Job whose Pod waits.
CreateSucceeds ==
    /\ k8s[djob] = None
    /\ k8s' = [k8s EXCEPT ![djob] = "pending"]
    /\ origin' = [origin EXCEPT ![djob] = dorigin]
    /\ UNCHANGED dying

CreateK8sJob ==
    /\ dpc = "create"
    /\ \/ CreateSucceeds /\ dpc' = "mark"
       \/ "lost_reply" \in Faults /\ CreateSucceeds /\ dpc' \in {"fail", "retry"}
       \/ UNCHANGED k8sVars /\ dpc' = "fail"
       \/ UNCHANGED k8sVars /\ dpc' \in {"retry", "defer"}
    /\ UNCHANGED <<dbVars, djob, dorigin, batch, watchVars, req>>

\* The closing writes all demand that the row is still DISPATCHING: a cancel
\* or a Watcher cycle may have overtaken the create call.
Claimed == {djob} \cap RowsIn({"DISPATCHING"})

DispatchDone ==
    /\ Unlocked({djob})
    /\ dpc' = "idle" /\ djob' = 1 /\ dorigin' = 0
    /\ UNCHANGED <<nextId, resets, batch, k8sVars, watchVars, req>>

MarkDispatched ==
    /\ dpc = "mark"
    /\ status' = [j \in Jobs |-> IF j \in Claimed THEN "DISPATCHED" ELSE status[j]]
    /\ age' = [j \in Jobs |-> IF j \in Claimed THEN "grace" ELSE age[j]]
    /\ UNCHANGED <<retries, delayed, started, billed, numbering>>
    /\ DispatchDone

MarkFailed ==
    /\ dpc = "fail"
    /\ SetStatus(Claimed, "FAILED")
    /\ DispatchDone

\* Back to the queue, not before retry_after.
PutBack ==
    /\ status' = [j \in Jobs |-> IF j \in Claimed THEN "QUEUED" ELSE status[j]]
    /\ delayed' = [j \in Jobs |-> j \in Claimed \/ delayed[j]]
    /\ UNCHANGED <<age, started, billed, numbering>>

SlipLastAttempt == retries[djob] >= MaxRetries
LastAttempt     == retries[djob] + 1 >= MaxRetries

RetryOrFail ==
    /\ dpc = "retry"
    /\ \/ /\ LastAttempt
          /\ SetStatus(Claimed, "FAILED")
       \/ /\ ~LastAttempt
          /\ PutBack
          /\ retries' = [j \in Jobs |-> IF j \in Claimed THEN retries[j] + 1 ELSE retries[j]]
    /\ DispatchDone

DeferToQueue ==
    /\ dpc = "defer"
    /\ PutBack
    /\ UNCHANGED retries
    /\ DispatchDone

\* mark_dispatched or its commit raises: the handler rolls back and goes on
\* to mark_failed, although the Job was created.
MarkRaises ==
    /\ "db_error" \in Faults
    /\ dpc = "mark"
    /\ dpc' = "fail"
    /\ UNCHANGED <<dbVars, djob, dorigin, batch, k8sVars, watchVars, req>>

\* The closing write of a handler raises (after a first failure, or on its
\* own): the cycle is given up, the rest of the batch with it.
DispatchAborted ==
    /\ "db_error" \in Faults
    /\ dpc \in {"fail", "retry", "defer"}
    /\ dpc' = "idle" /\ djob' = 1 /\ dorigin' = 0 /\ batch' = {}
    /\ UNCHANGED <<dbVars, k8sVars, watchVars, req>>

DispatcherCrash ==
    /\ "crash" \in Faults
    /\ dpc # "down"
    /\ dpc' = "down" /\ djob' = 1 /\ dorigin' = 0 /\ batch' = {}
    /\ UNCHANGED <<dbVars, k8sVars, watchVars, req>>

-----------------------------------------------------------------------------
(* Watcher *)

\* The deletion of the Jobs of S is accepted by the API server.
DeleteK8sJobs(S) ==
    LET hit == {j \in S : k8s[j] # None}
    IN  IF "slow_delete" \in Faults
        THEN dying' = dying \cup hit /\ UNCHANGED <<k8s, origin>>
        ELSE /\ k8s' = [j \in Jobs |-> IF j \in hit THEN None ELSE k8s[j]]
             /\ origin' = [j \in Jobs |-> IF j \in hit THEN 0 ELSE origin[j]]
             /\ UNCHANGED dying

\* The deletions that may succeed out of those of S.
Accepted(S) == IF "refused" \in Faults THEN SUBSET S ELSE {S}

WatcherRest ==
    /\ wpc' = "list"
    /\ snap' = [j \in Jobs |-> None]
    /\ seen' = [j \in Jobs |-> None]
    /\ update' = [j \in Jobs |-> None]
    /\ wipe' = FALSE

ListK8sJobs ==
    /\ wpc = "list"
    /\ snap' = k8s
    /\ wpc' = "load"
    /\ UNCHANGED <<seen, update, wipe, dbVars, k8sVars, dispVars, req>>

\* The rows of the listed Jobs, and every DELETING row.
SlipLoaded == Listed
Loaded     == Listed \cup RowsIn({"DELETING"})

LoadRows ==
    /\ wpc = "load"
    /\ seen' = [j \in Jobs |-> IF j \in Loaded THEN status[j] ELSE None]
    /\ wpc' = "act"
    /\ UNCHANGED <<snap, update, wipe, dbVars, k8sVars, dispVars, req>>

\* A row's status as the queries of this transaction see it.
InTransaction(j) == IF j \in Synced THEN Observed(snap[j]) ELSE status[j]

\* Rows that may have outrun their time limit (step 9), those stalled in
\* DISPATCHED although their Job is listed (step 10), and those whose Job is
\* not listed (step 8; a fresh dispatch is spared).
Overdue == {j \in Jobs : InTransaction(j) = "RUNNING" /\ started[j]}
Stalled == {j \in Listed \ Synced :
              StallGuard /\ seen[j] = "DISPATCHED" /\ age[j] = "timeout"}
SlipMissing == {j \in Jobs \ Listed : InTransaction(j) \in {"RUNNING", "DISPATCHED"}}
Missing == {j \in Jobs \ Listed :
              \/ InTransaction(j) = "RUNNING"
              \/ InTransaction(j) = "DISPATCHED" /\ age[j] # "grace"}

\* Both are written only for the Jobs whose deletion was accepted before.
TimedOut(expired, deleted) == expired \cap deleted

SlipRequeued(deleted) == Stalled
Requeued(deleted)     == Stalled \cap deleted

\* Phase 2 of a reset: rows are DELETING, and none of them has a listed Job.
ResetEnds == /\ \E j \in Jobs : seen[j] = "DELETING"
             /\ \A j \in Listed : seen[j] # "DELETING"

\* The body of the cycle: expired are the overdue rows whose limit has
\* passed, deleted the deletions the API server accepts.
Reconcile(expired, deleted) ==
    /\ wpc = "act"
    /\ Synced \cap RowsIn({None}) = {}
    /\ DeleteK8sJobs(deleted)
    /\ update' = [j \in Jobs |->
                    IF j \in TimedOut(expired, deleted) \cup Missing THEN "FAILED"
                    ELSE IF j \in Requeued(deleted) THEN "QUEUED"
                    ELSE IF j \in Synced THEN Observed(snap[j])
                    ELSE None]
    /\ wipe' = ResetEnds
    /\ wpc' = "commit"
    /\ UNCHANGED <<snap, seen, dbVars, dispVars, req>>

ReconcileAny ==
    \E expired \in SUBSET Overdue :
        \E deleted \in Accepted(Unwanted \cup expired \cup Stalled) :
            Reconcile(expired, deleted)

\* The update of a row that has disappeared raises and ends the cycle: a
\* synced row before the other steps, any other row at the commit.
ReconcileRaises ==
    /\ wpc = "act"
    /\ Synced \cap RowsIn({None}) # {}
    /\ \E deleted \in Accepted(Unwanted) : DeleteK8sJobs(deleted)
    /\ WatcherRest
    /\ UNCHANGED <<dbVars, dispVars, req>>

Lost == \E j \in Jobs : update[j] # None /\ status[j] = None

\* Usage is recorded when a row without started_at is seen to run or end.
SlipBills(j) == j \in Synced
Bills(j)     == j \in Synced /\ ~started[j]

CommitChanges ==
    IF wipe
    THEN /\ DropRows(Jobs)
         /\ nextId' = 1
         /\ resets' = resets + 1
    ELSE /\ status' = [j \in Jobs |-> IF update[j] # None THEN update[j] ELSE status[j]]
         /\ delayed' = [j \in Jobs |-> update[j] = "QUEUED" \/ delayed[j]]
         /\ started' = [j \in Jobs |-> update[j] = "RUNNING" \/ started[j]]
         /\ billed' = [j \in Jobs |-> IF Bills(j) /\ billed[j] < 2 THEN billed[j] + 1
                                                                   ELSE billed[j]]
         /\ UNCHANGED <<retries, age, numbering, nextId, resets>>

Commit ==
    /\ wpc = "commit"
    /\ IF Lost THEN UNCHANGED dbVars ELSE CommitChanges
    /\ WatcherRest
    /\ UNCHANGED <<k8sVars, dispVars, req>>

\* The process dies, or the transaction fails: what was deleted stays deleted.
WatcherCrash ==
    /\ "crash" \in Faults
    /\ wpc # "list"
    /\ WatcherRest
    /\ UNCHANGED <<dbVars, k8sVars, dispVars, req>>

-----------------------------------------------------------------------------
(* Kubernetes and time *)

PodReady(j) ==
    /\ k8s[j] = "pending" /\ j \notin dying
    /\ k8s' = [k8s EXCEPT ![j] = "ready"]
    /\ UNCHANGED <<dying, origin, dbVars, dispVars, watchVars, req>>

JobEnds(j) ==
    /\ k8s[j] = "ready" /\ j \notin dying
    /\ \E end \in {"complete", "failed"} : k8s' = [k8s EXCEPT ![j] = end]
    /\ UNCHANGED <<dying, origin, dbVars, dispVars, watchVars, req>>

K8sRemoves(j) ==
    /\ k8s' = [k8s EXCEPT ![j] = None]
    /\ origin' = [origin EXCEPT ![j] = 0]
    /\ dying' = dying \ {j}
    /\ UNCHANGED <<dbVars, dispVars, watchVars, req>>

\* ttlSecondsAfterFinished: long enough for the Watcher to see the end,
\* unless early_ttl.
TtlExpires(j) ==
    /\ k8s[j] \in {"complete", "failed"}
    /\ "early_ttl" \in Faults \/ status[j] \notin Active
    /\ K8sRemoves(j)

DeletionCompletes(j) ==
    /\ j \in dying
    /\ K8sRemoves(j)

RetryAfterPasses(j) ==
    /\ delayed[j]
    /\ delayed' = [delayed EXCEPT ![j] = FALSE]
    /\ UNCHANGED <<status, retries, age, started, billed, numbering, nextId, resets,
                   k8sVars, dispVars, watchVars, req>>

\* dispatched_at grows old.  The grace period outlasts one Watcher cycle: it
\* does not end while the Watcher works on a list that misses the Job.
DispatchAges(j) ==
    /\ status[j] = "DISPATCHED"
    /\ \/ age[j] = "grace" /\ (wpc = "list" \/ j \in Listed)
          /\ age' = [age EXCEPT ![j] = "late"]
       \/ age[j] = "late"
          /\ age' = [age EXCEPT ![j] = "timeout"]
    /\ UNCHANGED <<status, retries, delayed, started, billed, numbering, nextId, resets,
                   k8sVars, dispVars, watchVars, req>>

-----------------------------------------------------------------------------
(* Next-state relation *)

ApiRead ==
    /\ "api_race" \in Faults \/ wpc # "commit"
    /\ \E c \in Clients, op \in Operations, j \in Jobs : RequestRead(c, op, j)

ApiStep ==
    /\ WatchQuiet
    /\ \/ \E c \in Clients : RequestWrite(c)
       \/ ApiQuiet /\ ApiRead
       \/ ApiQuiet /\ (\E j \in Jobs : AdminCancel(j))

DispatcherWrite ==
    \/ DispatcherStart
    \/ \E j \in Jobs : CasToDispatching(j)
    \/ MarkDispatched
    \/ MarkFailed
    \/ RetryOrFail
    \/ DeferToQueue

DispatcherStep ==
    /\ ApiQuiet
    /\ \/ WatchQuiet /\ DispatcherWrite
       \/ Fetch
       \/ CreateK8sJob
       \/ MarkRaises
       \/ DispatchAborted
       \/ DispatcherCrash

WatcherStep ==
    /\ ApiQuiet
    /\ \/ ListK8sJobs
       \/ LoadRows
       \/ ReconcileAny
       \/ ReconcileRaises
       \/ Commit
       \/ WatcherCrash

EnvironmentStep ==
    /\ ApiQuiet
    /\ \E j \in Jobs :
          \/ PodReady(j)
          \/ JobEnds(j)
          \/ TtlExpires(j)
          \/ DeletionCompletes(j)
          \/ RetryAfterPasses(j)
          \/ DispatchAges(j)

Next == ApiStep \/ DispatcherStep \/ WatcherStep \/ EnvironmentStep

Spec == Init /\ [][Next]_vars

-----------------------------------------------------------------------------
(* Properties *)

RowsTyped ==
    /\ status \in [Jobs -> Statuses \cup {None}]
    /\ retries \in [Jobs -> 0..(MaxRetries - 1)]
    /\ delayed \in [Jobs -> BOOLEAN]
    /\ age \in [Jobs -> {"grace", "late", "timeout"}]
    /\ started \in [Jobs -> BOOLEAN]
    /\ billed \in [Jobs -> 0..2]
    /\ numbering \in [Jobs -> Nat]

CountersTyped ==
    /\ nextId \in 1..(MaxJobs + 1)
    /\ resets \in Nat

K8sTyped ==
    /\ k8s \in [Jobs -> Phases \cup {None}]
    /\ dying \subseteq Jobs
    /\ origin \in [Jobs -> Nat]

DispatcherTyped ==
    /\ dpc \in {"down", "idle", "create", "mark", "fail", "retry", "defer"}
    /\ djob \in Jobs
    /\ dorigin \in Nat
    /\ batch \subseteq Jobs

WatcherTyped ==
    /\ wpc \in {"list", "load", "act", "commit"}
    /\ snap \in [Jobs -> Phases \cup {None}]
    /\ seen \in [Jobs -> Statuses \cup {None}]
    /\ update \in [Jobs -> {None, "QUEUED", "RUNNING", "SUCCEEDED", "FAILED"}]
    /\ wipe \in BOOLEAN

RequestsTyped == req \in [Clients -> {Idle} \cup [op : Operations, job : Jobs]]

\* The type invariant.
TypeOK ==
    /\ RowsTyped
    /\ CountersTyped
    /\ K8sTyped
    /\ DispatcherTyped
    /\ WatcherTyped
    /\ RequestsTyped

\* A Kubernetes Job that is there to stay.
Alive(j) == k8s[j] # None /\ j \notin dying

\* No work runs behind a row that says the job waits: a QUEUED or HELD row
\* has no Kubernetes Job, so dispatching it cannot collide with its name.
WaitingHasNoJob ==
    \A j \in Jobs : status[j] \in {"QUEUED", "HELD"} => ~Alive(j)

\* A FAILED row has no Kubernetes Job that still runs: whatever fails a job,
\* its Job has ended, was deleted first or was never created; also when the
\* Watcher does not find it on a list that is older than the Job.
FailedHasEnded ==
    \A j \in Jobs : status[j] = "FAILED" => ~(Alive(j) /\ k8s[j] \in {"pending", "ready"})

\* The usage of a job is recorded exactly once when it succeeds, and never
\* twice, whether or not the Watcher ever saw it run.
BilledOnce ==
    \A j \in Jobs : /\ billed[j] <= 1
                    /\ status[j] \in {"RUNNING", "SUCCEEDED"} => billed[j] = 1

\* A Kubernetes Job, even one that is being deleted, belongs to the row that
\* bears its id: it was built from that row and not from one an earlier reset
\* has removed.
JobMatchesRow ==
    \A j \in Jobs : k8s[j] # None /\ status[j] # None => origin[j] = numbering[j]

\* The counter is ahead of every row, so a submission never meets a row.
FreshIds == \A j \in Jobs : j >= nextId => status[j] = None

\* What users asked for stays: a cancelled or resetting row only moves
\* towards its removal.
IntentKept ==
    [][\A j \in Jobs :
         /\ status[j] = "CANCELLED" => status'[j] \in {"CANCELLED", "DELETING", None}
         /\ status[j] = "DELETING" => status'[j] \in {"DELETING", None}]_status

\* An outcome is final.
OutcomeFinal ==
    [][\A j \in Jobs :
         status[j] \in {"SUCCEEDED", "FAILED"}
            => status'[j] \in {status[j], "DELETING", None}]_status

-----------------------------------------------------------------------------
(***************************************************************************)
(* A blind write changes rows that are not, or no longer, what its program *)
(* has read: a request whose rows would not admit it any more, a commit of *)
(* the Watcher on a row that has changed since the decision, a wipe of a   *)
(* namespace that holds more or less than the DELETING rows it has read.   *)
(* The code does not prevent them (see stale_sync); the properties below   *)
(* say that nothing else goes wrong.                                       *)
(***************************************************************************)
BlindRequest ==
    \E c \in Clients : /\ req[c] # Idle /\ req'[c] = Idle
                       /\ ~Admits(req[c].op, req[c].job)

\* What the Watcher took the row for when it decided to change it.
DecidedOn(j) == IF j \in Listed THEN {seen[j]} ELSE {"RUNNING", "DISPATCHED"}

BlindCommit ==
    /\ wpc = "commit" /\ wpc' = "list"
    /\ \/ \E j \in Jobs : update[j] # None /\ status[j] \notin DecidedOn(j)
       \/ wipe /\ \E j \in Jobs : status[j] # IF seen[j] = "DELETING" THEN "DELETING" ELSE None

BlindWrite == BlindRequest \/ BlindCommit

\* What the Watcher is about to write fits the rows as it has read them; only
\* it makes a row RUNNING.
DecisionsFit ==
    /\ wpc = "act" => \A j \in Listed : status[j] = "RUNNING" => seen[j] = "RUNNING"
    /\ wpc = "commit" => \A j \in Jobs : update[j] # None =>
          IF j \in Listed
          THEN /\ seen[j] \in Active \cup {"SUCCEEDED", "FAILED"}
               /\ update[j] \in {"QUEUED", "RUNNING"} => seen[j] \in Active
          ELSE update[j] = "FAILED"
    /\ wipe => wpc = "commit" /\ \E j \in Jobs : seen[j] = "DELETING"

\* The inductive invariant behind ContractUnlessBlind.
DecisionInv == TypeOK /\ FreshIds /\ DecisionsFit

\* Rows in flight, and candidates the current cycle has still to claim.
Spending == RowsIn(InFlight) \cup batch

\* The budget is counted once per cycle and spent one candidate at a time,
\* while requests and the Watcher move rows and the database fails: only a
\* blind write lets it be exceeded.
WithinBudget ==
    [][\/ Cardinality(Spending') <= DispatchBudget
       \/ Cardinality(Spending') <= Cardinality(Spending)
       \/ BlindWrite]_vars

-----------------------------------------------------------------------------
(***************************************************************************)
(* The rows keep the contract of JobContract: every step of any of the     *)
(* programs is a step of the contract or leaves its state alone.           *)
(***************************************************************************)
StageOf(s) ==
    CASE s = None                              -> "none"
      [] s = "QUEUED"                          -> "waiting"
      [] s = "HELD"                            -> "held"
      [] s \in InFlight                        -> "active"
      [] s \in {"SUCCEEDED", "FAILED"}         -> "done"
      [] s = "CANCELLED"                       -> "cancelled"
      [] s = "DELETING"                        -> "resetting"

Contract == INSTANCE JobContract WITH
    stage <- [j \in Jobs |-> StageOf(status[j])],
    next  <- nextId

\* Where no program writes between the read and the write of another, the
\* rows keep the contract whatever crashes, is refused or gets lost.
KeepsContract == Contract!ContractSpec

\* And where they do, nothing but a blind write breaks it.
ContractUnlessBlind ==
    /\ Contract!ContractInit
    /\ [][Contract!ContractNext \/ BlindWrite]_<<status, nextId>>

\* Unless a write is blind the rows also move in the drawn order: no job runs
\* or ends without having been dispatched, none is dispatched while held.
KeepsOrder ==
    /\ Contract!ContractInit
    /\ [][(Contract!ContractNext /\ Contract!InOrder) \/ BlindWrite]_<<status, nextId>>

-----------------------------------------------------------------------------
(***************************************************************************)
(* Fairness: the daemons keep running and a request that has read goes on  *)
(* to its write.  The strong conditions are for steps whose guards come    *)
(* and go although nothing stops the program: it waits for a row lock, or  *)
(* for the other program's transaction.  A deletion asked for over and     *)
(* over is accepted at last, a deleted Job goes away, and time passes.     *)
(* Nothing makes users act, Pods start or jobs end.                        *)
(***************************************************************************)
DispatcherWorks ==
    /\ ApiQuiet
    /\ \/ CreateK8sJob
       \/ /\ WatchQuiet
          /\ DispatcherStart \/ MarkDispatched \/ MarkFailed \/ RetryOrFail \/ DeferToQueue

ReconcileAccepted ==
    \E expired \in SUBSET Overdue : Reconcile(expired, Unwanted \cup expired \cup Stalled)

WatcherWorks ==
    /\ ApiQuiet
    /\ ListK8sJobs \/ LoadRows \/ ReconcileAccepted \/ ReconcileRaises \/ Commit

TimePasses ==
    /\ ApiQuiet
    /\ \E j \in Jobs : DispatchAges(j) \/ DeletionCompletes(j)

Fairness ==
    /\ WF_vars(WatchQuiet /\ (\E c \in Clients : RequestWrite(c)))
    /\ SF_vars(DispatcherWorks)
    /\ SF_vars(WatcherWorks)
    /\ SF_vars(ApiQuiet /\ ReconcileAccepted)
    /\ SF_vars(TimePasses)

\* The daemons do not crash for ever.  (A cycle that ends without a change
\* looks like one that was cut short.)
CrashesEnd ==
    <>[][~DispatcherCrash /\ (WatcherCrash => ReconcileRaises \/ Commit)]_vars

FairSpec == Spec /\ Fairness /\ CrashesEnd

\* A Kubernetes Job nobody wants does not run on: its row was cancelled,
\* deleted or is being reset, however the requests overtook the dispatch.
UnwantedIsStopped ==
    \A j \in Jobs :
        k8s[j] # None /\ status[j] \in {None, "CANCELLED", "DELETING"}
            ~> (k8s[j] = None \/ status[j] \notin {None, "CANCELLED", "DELETING"})

\* A reset ends: no row stays in DELETING for ever.
ResetCompletes ==
    (\E j \in Jobs : status[j] = "DELETING") ~> (\A j \in Jobs : status[j] # "DELETING")

\* No row is stuck between the two commits of a dispatch, and a dispatched job
\* runs, ends or goes back to the queue.
DispatchMovesOn ==
    \A j \in Jobs :
        /\ (status[j] = "DISPATCHING" ~> status[j] # "DISPATCHING")
        /\ (status[j] = "DISPATCHED" ~> status[j] # "DISPATCHED")

\* A row does not stay in flight behind a Job that has ended or gone: the end
\* is reported, if not as it was then as a failure.
AwaitsEnd(j)  == status[j] \in {"DISPATCHED", "RUNNING"}
EndIsReported ==
    \A j \in Jobs : AwaitsEnd(j) /\ k8s[j] \in {None, "complete", "failed"}
                       ~> ~AwaitsEnd(j) \/ k8s[j] \in {"pending", "ready"}
=============================================================================
