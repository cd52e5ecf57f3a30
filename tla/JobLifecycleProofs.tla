------------------------- MODULE JobLifecycleProofs -------------------------
(***************************************************************************)
(* Type correctness of JobLifecycle, and the promises of JobContract, for  *)
(* every number of jobs and clients, all limits and every set of faults,   *)
(* lost updates among them.                                                *)
(*                                                                         *)
(* The argument for the promises.  A program that looks again before it    *)
(* writes (the Dispatcher, cjobctl) changes rows only as the contract      *)
(* allows.  A request does if its rows would still admit it; otherwise its *)
(* write is blind.  The Watcher does if every row is what it took it for:  *)
(* DecisionsFit says that its changes then fit, because they were decided  *)
(* on exactly that.  So each step changes the rows in one of five ways     *)
(* (RowStep), each a step of the contract, or it is a BlindWrite.          *)
(***************************************************************************)
EXTENDS JobLifecycle, TLAPS

-----------------------------------------------------------------------------
(* Types *)

LEMMA FirstJob == 1 \in Jobs
  BY ConstantsOK, SMT DEF Jobs

\* What the writes of rows leave behind is again a table of rows.
LEMMA SetStatusTyped ==
  ASSUME RowsTyped, NEW S, NEW s \in Statuses, SetStatus(S, s)
  PROVE  RowsTyped'
  BY DEF RowsTyped, SetStatus

LEMMA DropRowsTyped ==
  ASSUME RowsTyped, NEW S, DropRows(S)
  PROVE  RowsTyped'
  BY ConstantsOK DEF RowsTyped, DropRows, None

LEMMA PutBackTyped ==
  ASSUME RowsTyped, PutBack, UNCHANGED retries
  PROVE  RowsTyped'
  BY DEF RowsTyped, PutBack, Statuses, Active

LEMMA WatcherRestTyped ==
  ASSUME WatcherRest
  PROVE  WatcherTyped'
  BY DEF WatcherRest, WatcherTyped, None

LEMMA DeleteK8sJobsTyped ==
  ASSUME K8sTyped, NEW S \in SUBSET Jobs, DeleteK8sJobs(S)
  PROVE  K8sTyped'
  BY DEF K8sTyped, DeleteK8sJobs, None

LEMMA InitTyped == Init => TypeOK
  <1> SUFFICES ASSUME Init PROVE TypeOK
    OBVIOUS
  <1>1. RowsTyped
    BY ConstantsOK DEF Init, RowsTyped, None
  <1>2. CountersTyped
    BY ConstantsOK DEF Init, CountersTyped
  <1>3. K8sTyped
    BY DEF Init, K8sTyped, None
  <1>4. DispatcherTyped
    BY FirstJob DEF Init, DispatcherTyped
  <1>5. WatcherTyped
    BY DEF Init, WatcherTyped, None
  <1>6. RequestsTyped
    BY DEF Init, RequestsTyped
  <1> QED BY <1>1, <1>2, <1>3, <1>4, <1>5, <1>6 DEF TypeOK

LEMMA ApiTyped ==
  ASSUME TypeOK, ApiStep
  PROVE  TypeOK'
  <1> USE DEF TypeOK
  <1>1. ASSUME NEW c \in Clients, RequestWrite(c) PROVE TypeOK'
    <2> DEFINE op == req[c].op
               j  == req[c].job
    <2>1. UNCHANGED <<k8sVars, dispVars, watchVars>> /\ req' = [req EXCEPT ![c] = Idle]
      BY <1>1 DEF RequestWrite
    <2>2. K8sTyped' /\ DispatcherTyped' /\ WatcherTyped'
      BY <2>1 DEF k8sVars, dispVars, watchVars, K8sTyped, DispatcherTyped, WatcherTyped
    <2>3. RequestsTyped'
      BY <2>1 DEF RequestsTyped
    <2>4. CASE SubmitWrite
      <3>1. RowsTyped'
        BY <2>4 DEF SubmitWrite, dbVars, rowVars, RowsTyped, CountersTyped, Jobs, Statuses, Active
      <3>2. CountersTyped'
        BY <2>4, ConstantsOK DEF SubmitWrite, dbVars, rowVars, CountersTyped, FollowingId
      <3> QED BY <2>2, <2>3, <3>1, <3>2
    <2>5. ASSUME NEW s \in {"CANCELLED", "HELD", "QUEUED"}, StatusWrite(j, s)
          PROVE  TypeOK'
      <3>1. RowsTyped'
        BY <2>5, SetStatusTyped DEF StatusWrite, Statuses, Active, Terminal
      <3>2. CountersTyped'
        BY <2>5 DEF StatusWrite, CountersTyped
      <3> QED BY <2>2, <2>3, <3>1, <3>2
    <2>6. CASE DropRows({j}) /\ UNCHANGED <<nextId, resets>>
      BY <2>2, <2>3, <2>6, DropRowsTyped DEF CountersTyped
    <2>7. CASE SetStatus(RowsIn(Terminal), "DELETING") /\ UNCHANGED <<nextId, resets>>
      <3>1. RowsTyped'
        BY <2>7, SetStatusTyped DEF Statuses
      <3> QED BY <2>2, <2>3, <2>7, <3>1 DEF CountersTyped
    <2> QED BY <1>1, <2>4, <2>5, <2>6, <2>7 DEF RequestWrite
  <1>2. ASSUME NEW c \in Clients, NEW op \in Operations, NEW j \in Jobs, RequestRead(c, op, j)
        PROVE  TypeOK'
    <2>1. RequestsTyped'
      BY <1>2 DEF RequestRead, RequestsTyped
    <2> QED BY <1>2, <2>1 DEF RequestRead, dbVars, rowVars, k8sVars, dispVars, watchVars,
               RowsTyped, CountersTyped, K8sTyped, DispatcherTyped, WatcherTyped
  <1>3. ASSUME NEW j \in Jobs, AdminCancel(j) PROVE TypeOK'
    <2>1. RowsTyped'
      BY <1>3, SetStatusTyped DEF AdminCancel, Statuses, Terminal
    <2> QED BY <1>3, <2>1 DEF AdminCancel, k8sVars, dispVars, watchVars,
               CountersTyped, K8sTyped, DispatcherTyped, WatcherTyped, RequestsTyped
  <1> QED BY <1>1, <1>2, <1>3 DEF ApiStep, ApiRead

LEMMA ClosingWriteTyped ==
  ASSUME TypeOK, RowsTyped', DispatchDone
  PROVE  TypeOK'
  BY FirstJob DEF TypeOK, DispatchDone, k8sVars, watchVars, CountersTyped, K8sTyped,
     DispatcherTyped, WatcherTyped, RequestsTyped

LEMMA DispatcherTypedStep ==
  ASSUME TypeOK, DispatcherStep
  PROVE  TypeOK'
  <1> USE DEF TypeOK
  <1>1. CASE DispatcherStart
    <2>1. RowsTyped'
      BY <1>1 DEF DispatcherStart, RowsTyped, Statuses, Active
    <2> QED BY <1>1, <2>1 DEF DispatcherStart, k8sVars, watchVars, CountersTyped, K8sTyped,
               DispatcherTyped, WatcherTyped, RequestsTyped
  <1>2. ASSUME NEW j \in Jobs, CasToDispatching(j) PROVE TypeOK'
    <2>1. UNCHANGED <<nextId, resets, k8sVars, watchVars, req>>
      BY <1>2 DEF CasToDispatching
    <2>2. CountersTyped' /\ K8sTyped' /\ WatcherTyped' /\ RequestsTyped'
      BY <2>1 DEF k8sVars, watchVars, CountersTyped, K8sTyped, WatcherTyped, RequestsTyped
    <2>3. CASE status[j] = "QUEUED"
      <3>1. RowsTyped'
        BY <1>2, <2>3, SetStatusTyped DEF CasToDispatching, Statuses, Active
      <3>2. DispatcherTyped'
        BY <1>2, <2>3 DEF CasToDispatching, DispatcherTyped, RowsTyped
      <3> QED BY <2>2, <3>1, <3>2
    <2>4. CASE status[j] # "QUEUED"
      <3>1. RowsTyped'
        BY <1>2, <2>4 DEF CasToDispatching, rowVars, RowsTyped
      <3>2. DispatcherTyped'
        BY <1>2, <2>4 DEF CasToDispatching, DispatcherTyped
      <3> QED BY <2>2, <3>1, <3>2
    <2> QED BY <2>3, <2>4
  <1>3. CASE MarkDispatched
    <2>1. RowsTyped'
      BY <1>3 DEF MarkDispatched, RowsTyped, Statuses, Active
    <2> QED BY <1>3, <2>1, ClosingWriteTyped DEF MarkDispatched
  <1>4. CASE MarkFailed
    <2>1. RowsTyped'
      BY <1>4, SetStatusTyped DEF MarkFailed, Statuses, Terminal
    <2> QED BY <1>4, <2>1, ClosingWriteTyped DEF MarkFailed
  <1>5. CASE RetryOrFail
    <2>1. CASE LastAttempt /\ SetStatus(Claimed, "FAILED")
      <3>1. RowsTyped'
        BY <2>1, SetStatusTyped DEF Statuses, Terminal
      <3> QED BY <1>5, <3>1, ClosingWriteTyped DEF RetryOrFail
    <2>2. CASE /\ ~LastAttempt
               /\ PutBack
               /\ retries' = [j \in Jobs |-> IF j \in Claimed THEN retries[j] + 1 ELSE retries[j]]
      <3>1. \A j \in Claimed : retries[j] + 1 \in 0..(MaxRetries - 1)
        BY <2>2, ConstantsOK DEF LastAttempt, Claimed, RowsTyped, DispatcherTyped
      <3>2. RowsTyped'
        BY <2>2, <3>1 DEF PutBack, RowsTyped, Statuses, Active
      <3> QED BY <1>5, <3>2, ClosingWriteTyped DEF RetryOrFail
    <2> QED BY <1>5, <2>1, <2>2 DEF RetryOrFail
  <1>6. CASE DeferToQueue
    <2>1. RowsTyped'
      BY <1>6, PutBackTyped DEF DeferToQueue
    <2> QED BY <1>6, <2>1, ClosingWriteTyped DEF DeferToQueue
  <1>7. CASE Fetch
    BY <1>7 DEF Fetch, RowsIn, dbVars, rowVars, k8sVars, watchVars, RowsTyped, CountersTyped,
       K8sTyped, DispatcherTyped, WatcherTyped, RequestsTyped
  <1>8. CASE CreateK8sJob
    <2>1. UNCHANGED <<dbVars, djob, dorigin, batch, watchVars, req>>
      BY <1>8 DEF CreateK8sJob
    <2>2. RowsTyped' /\ CountersTyped' /\ WatcherTyped' /\ RequestsTyped'
      BY <2>1 DEF dbVars, rowVars, watchVars, RowsTyped, CountersTyped, WatcherTyped, RequestsTyped
    <2>3. K8sTyped'
      BY <1>8 DEF CreateK8sJob, CreateSucceeds, k8sVars, K8sTyped, DispatcherTyped, Phases
    <2>4. DispatcherTyped'
      BY <1>8, <2>1 DEF CreateK8sJob, DispatcherTyped
    <2> QED BY <2>2, <2>3, <2>4
  <1>9. CASE MarkRaises \/ DispatchAborted
    BY <1>9, FirstJob DEF MarkRaises, DispatchAborted, dbVars, rowVars, k8sVars, watchVars, RowsTyped,
       CountersTyped, K8sTyped, DispatcherTyped, WatcherTyped, RequestsTyped
  <1>10. CASE DispatcherCrash
    BY <1>10, FirstJob DEF DispatcherCrash, dbVars, rowVars, k8sVars, watchVars, RowsTyped,
       CountersTyped, K8sTyped, DispatcherTyped, WatcherTyped, RequestsTyped
  <1> QED BY <1>1, <1>2, <1>3, <1>4, <1>5, <1>6, <1>7, <1>8, <1>9, <1>10
          DEF DispatcherStep, DispatcherWrite

LEMMA ObservedTyped ==
  ASSUME NEW phase
  PROVE  Observed(phase) \in {None, "RUNNING", "SUCCEEDED", "FAILED"}
  BY DEF Observed

LEMMA UnwantedAreJobs == Unwanted \subseteq Jobs
  BY DEF Unwanted, Listed

LEMMA StalledAreJobs == Stalled \subseteq Jobs
  BY DEF Stalled, Listed

LEMMA AcceptedAreAsked ==
  ASSUME NEW S, NEW deleted \in Accepted(S)
  PROVE  deleted \subseteq S
  BY DEF Accepted

LEMMA WatcherTypedStep ==
  ASSUME TypeOK, WatcherStep
  PROVE  TypeOK'
  <1> USE DEF TypeOK
  <1>1. CASE ListK8sJobs
    BY <1>1 DEF ListK8sJobs, dbVars, rowVars, k8sVars, dispVars, RowsTyped, CountersTyped,
       K8sTyped, DispatcherTyped, WatcherTyped, RequestsTyped
  <1>2. CASE LoadRows
    <2>1. WatcherTyped'
      BY <1>2 DEF LoadRows, WatcherTyped, RowsTyped
    <2> QED BY <1>2, <2>1 DEF LoadRows, dbVars, rowVars, k8sVars, dispVars, RowsTyped,
               CountersTyped, K8sTyped, DispatcherTyped, RequestsTyped
  <1>3. CASE ReconcileAny
    <2>1. PICK expired \in SUBSET Overdue :
            \E deleted \in Accepted(Unwanted \cup expired \cup Stalled) : Reconcile(expired, deleted)
      BY <1>3 DEF ReconcileAny
    <2>2. PICK deleted \in Accepted(Unwanted \cup expired \cup Stalled) : Reconcile(expired, deleted)
      BY <2>1
    <2>3. deleted \subseteq Jobs
      BY AcceptedAreAsked, UnwantedAreJobs, StalledAreJobs DEF Overdue
    <2>4. K8sTyped'
      BY <2>2, <2>3, DeleteK8sJobsTyped DEF Reconcile
    <2>5. update' \in [Jobs -> {None, "QUEUED", "RUNNING", "SUCCEEDED", "FAILED"}]
      BY <2>2, ObservedTyped DEF Reconcile
    <2>6. WatcherTyped'
      BY <2>2, <2>5 DEF Reconcile, WatcherTyped, ResetEnds
    <2> QED BY <2>2, <2>4, <2>6 DEF Reconcile, dbVars, rowVars, dispVars, RowsTyped,
               CountersTyped, DispatcherTyped, RequestsTyped
  <1>4. CASE ReconcileRaises
    <2>1. PICK deleted \in Accepted(Unwanted) : DeleteK8sJobs(deleted)
      BY <1>4 DEF ReconcileRaises
    <2>2. K8sTyped'
      BY <2>1, AcceptedAreAsked, UnwantedAreJobs, DeleteK8sJobsTyped
    <2> QED BY <1>4, <2>2, WatcherRestTyped DEF ReconcileRaises, dbVars, rowVars, dispVars,
               RowsTyped, CountersTyped, DispatcherTyped, RequestsTyped
  <1>5. CASE Commit
    <2>1. WatcherTyped' /\ K8sTyped' /\ DispatcherTyped' /\ RequestsTyped'
      BY <1>5, WatcherRestTyped DEF Commit, k8sVars, dispVars, K8sTyped, DispatcherTyped,
         RequestsTyped
    <2>2. CASE UNCHANGED dbVars
      BY <2>1, <2>2 DEF dbVars, rowVars, RowsTyped, CountersTyped
    <2>3. CASE wipe /\ CommitChanges
      <3>1. RowsTyped'
        BY <2>3, DropRowsTyped DEF CommitChanges
      <3>2. CountersTyped'
        BY <2>3, ConstantsOK DEF CommitChanges, CountersTyped
      <3> QED BY <2>1, <3>1, <3>2
    <2>4. CASE ~wipe /\ CommitChanges
      <3>1. RowsTyped'
        <4>1. status' \in [Jobs -> Statuses \cup {None}]
          BY <2>4 DEF CommitChanges, RowsTyped, WatcherTyped, Statuses, Active, Terminal
        <4>2. delayed' \in [Jobs -> BOOLEAN] /\ started' \in [Jobs -> BOOLEAN]
          BY <2>4 DEF CommitChanges
        <4>3. billed' \in [Jobs -> 0..2]
          BY <2>4 DEF CommitChanges, RowsTyped
        <4> QED BY <2>4, <4>1, <4>2, <4>3 DEF CommitChanges, RowsTyped
      <3>2. CountersTyped'
        BY <2>4 DEF CommitChanges, CountersTyped
      <3> QED BY <2>1, <3>1, <3>2
    <2> QED BY <1>5, <2>2, <2>3, <2>4 DEF Commit
  <1>6. CASE WatcherCrash
    BY <1>6, WatcherRestTyped DEF WatcherCrash, dbVars, rowVars, k8sVars, dispVars, RowsTyped,
       CountersTyped, K8sTyped, DispatcherTyped, RequestsTyped
  <1> QED BY <1>1, <1>2, <1>3, <1>4, <1>5, <1>6 DEF WatcherStep

LEMMA EnvironmentTyped ==
  ASSUME TypeOK, EnvironmentStep
  PROVE  TypeOK'
  <1> USE DEF TypeOK
  <1>1. ASSUME NEW j \in Jobs, PodReady(j) \/ JobEnds(j) PROVE TypeOK'
    <2>1. K8sTyped'
      BY <1>1 DEF PodReady, JobEnds, K8sTyped, Phases
    <2> QED BY <1>1, <2>1 DEF PodReady, JobEnds, dbVars, rowVars, dispVars, watchVars,
               RowsTyped, CountersTyped, DispatcherTyped, WatcherTyped, RequestsTyped
  <1>2. ASSUME NEW j \in Jobs, K8sRemoves(j) PROVE TypeOK'
    <2>1. K8sTyped'
      BY <1>2 DEF K8sRemoves, K8sTyped
    <2> QED BY <1>2, <2>1 DEF K8sRemoves, dbVars, rowVars, dispVars, watchVars,
               RowsTyped, CountersTyped, DispatcherTyped, WatcherTyped, RequestsTyped
  <1>3. ASSUME NEW j \in Jobs, RetryAfterPasses(j) \/ DispatchAges(j) PROVE TypeOK'
    <2>1. RowsTyped'
      BY <1>3 DEF RetryAfterPasses, DispatchAges, RowsTyped
    <2> QED BY <1>3, <2>1 DEF RetryAfterPasses, DispatchAges, k8sVars, dispVars, watchVars,
               CountersTyped, K8sTyped, DispatcherTyped, WatcherTyped, RequestsTyped
  <1> QED BY <1>1, <1>2, <1>3 DEF EnvironmentStep, TtlExpires, DeletionCompletes

LEMMA TypeStep ==
  ASSUME TypeOK, [Next]_vars
  PROVE  TypeOK'
  <1>1. CASE UNCHANGED vars
    BY <1>1 DEF vars, dbVars, rowVars, k8sVars, dispVars, watchVars, TypeOK, RowsTyped,
       CountersTyped, K8sTyped, DispatcherTyped, WatcherTyped, RequestsTyped
  <1> QED BY <1>1, ApiTyped, DispatcherTypedStep, WatcherTypedStep, EnvironmentTyped DEF Next

(***************************************************************************)
(* Every reachable state is well typed: whatever the programs do and       *)
(* whatever goes wrong, a row keeps one of the nine statuses, retry_count  *)
(* stays below DISPATCH_MAX_RETRIES and the counter within the ids.        *)
(***************************************************************************)
THEOREM TypeCorrect == Spec => []TypeOK
  BY InitTyped, TypeStep, PTL DEF Spec
-----------------------------------------------------------------------------
(* Five ways to change the rows *)

Ends == {"SUCCEEDED", "FAILED"}

\* The five ways.
Submitted ==
    /\ nextId \in Jobs
    /\ status[nextId] = None
    /\ \A j \in Jobs : status[j] # "DELETING"
    /\ status' = [status EXCEPT ![nextId] = "QUEUED"]
    /\ nextId' = nextId + 1

Moved ==
    /\ \A j \in Jobs :
          \/ status'[j] = status[j]
          \/ status[j] \in Active /\ status'[j] \in Active \cup Terminal
          \/ status[j] \in Ends /\ status'[j] \in Ends
    /\ nextId' = nextId

Deleted ==
    /\ \E j \in Jobs : /\ status[j] \in Terminal
                       /\ status' = [i \in Jobs |-> IF i \in {j} THEN None ELSE status[i]]
    /\ nextId' = nextId

ResetBegun ==
    /\ \A j \in Jobs : status[j] \notin Active
    /\ status' = [j \in Jobs |-> IF status[j] \in Terminal THEN "DELETING" ELSE status[j]]
    /\ nextId' = nextId

ResetEnded ==
    /\ \E j \in Jobs : status[j] = "DELETING"
    /\ \A j \in Jobs : status[j] \in {None, "DELETING"}
    /\ status' = [j \in Jobs |-> None]
    /\ nextId' = 1

RowStep == Submitted \/ Moved \/ Deleted \/ ResetBegun \/ ResetEnded

-----------------------------------------------------------------------------
(* Every step is a RowStep or blind *)

LEMMA NoChangeMoves ==
  ASSUME UNCHANGED <<status, nextId>>
  PROVE  RowStep
  BY DEF RowStep, Moved

LEMMA RequestWriteMoves ==
  ASSUME DecisionInv, NEW c \in Clients, RequestWrite(c)
  PROVE  RowStep \/ BlindWrite
  <1> DEFINE op == req[c].op
             j  == req[c].job
  <1>0. CASE ~Admits(op, j)
    <2>1. req[c] # Idle /\ req'[c] = Idle
      BY DEF RequestWrite, DecisionInv, TypeOK, RequestsTyped
    <2> QED BY <1>0, <2>1 DEF BlindWrite, BlindRequest
  <1> SUFFICES ASSUME Admits(op, j) PROVE RowStep
    BY <1>0
  <1>1. Admits(op, j) /\ req[c] # Idle
    BY DEF RequestWrite
  <1>2. j \in Jobs /\ op \in Operations
    BY <1>1 DEF DecisionInv, TypeOK, RequestsTyped
  <1>3. CASE op = "submit" /\ SubmitWrite
    <2>1. CASE nextId > MaxJobs
      BY <1>3, <2>1, NoChangeMoves DEF SubmitWrite, dbVars, rowVars
    <2>2. CASE ~(nextId > MaxJobs)
      <3>1. nextId \in Jobs
        BY <2>2, ConstantsOK DEF Jobs, DecisionInv, TypeOK, CountersTyped
      <3>2. status[nextId] = None
        BY <3>1 DEF DecisionInv, FreshIds, Jobs
      <3>3. \A i \in Jobs : status[i] # "DELETING"
        BY <1>1, <1>3 DEF Admits, RowsIn
      <3>4. status' = [status EXCEPT ![nextId] = "QUEUED"] /\ nextId' = nextId + 1
        BY <1>3, <2>2 DEF SubmitWrite, FollowingId
      <3> QED BY <3>1, <3>2, <3>3, <3>4 DEF RowStep, Submitted
    <2> QED BY <2>1, <2>2
  <1>4. ASSUME NEW s \in Active \cup Terminal, StatusWrite(j, s), status[j] \in Active
        PROVE  RowStep
    BY <1>4 DEF StatusWrite, SetStatus, RowStep, Moved
  <1>5. CASE op = "cancel" /\ StatusWrite(j, "CANCELLED")
    BY <1>1, <1>4, <1>5 DEF Admits, Cancellable, Terminal
  <1>6. CASE op = "hold" /\ StatusWrite(j, "HELD")
    BY <1>1, <1>4, <1>6 DEF Admits, Active
  <1>7. CASE op = "release" /\ StatusWrite(j, "QUEUED")
    BY <1>1, <1>4, <1>7 DEF Admits, Active
  <1>8. CASE op = "delete" /\ DropRows({j}) /\ UNCHANGED <<nextId, resets>>
    BY <1>1, <1>2, <1>8 DEF Admits, Deletable, DropRows, RowStep, Deleted
  <1>9. CASE /\ op = "reset"
             /\ SetStatus(RowsIn(Terminal), "DELETING")
             /\ UNCHANGED <<nextId, resets>>
    <2>1. \A i \in Jobs : status[i] \notin Active
      BY <1>1, <1>9 DEF Admits, ResetBlockers, RowsIn
    <2>2. status' = [i \in Jobs |-> IF status[i] \in Terminal THEN "DELETING" ELSE status[i]]
      BY <1>9 DEF SetStatus, RowsIn
    <2> QED BY <1>9, <2>1, <2>2 DEF RowStep, ResetBegun
  <1> QED BY <1>3, <1>5, <1>6, <1>7, <1>8, <1>9 DEF RequestWrite

LEMMA ApiMoves ==
  ASSUME DecisionInv, ApiStep
  PROVE  RowStep \/ BlindWrite
  <1>1. ASSUME NEW c \in Clients, NEW op \in Operations, NEW j \in Jobs, RequestRead(c, op, j)
        PROVE  RowStep
    BY <1>1, NoChangeMoves DEF RequestRead, dbVars, rowVars
  <1>2. ASSUME NEW j \in Jobs, AdminCancel(j) PROVE RowStep
    BY <1>2 DEF AdminCancel, SetStatus, Cancellable, Terminal, RowStep, Moved
  <1> QED BY <1>1, <1>2, RequestWriteMoves DEF ApiStep, ApiRead

LEMMA ClosingWriteMoves ==
  ASSUME NEW s \in Active \cup Terminal, nextId' = nextId,
         status' = [j \in Jobs |-> IF j \in Claimed THEN s ELSE status[j]]
  PROVE  RowStep
  BY DEF Claimed, RowsIn, Active, RowStep, Moved

LEMMA DispatcherMoves ==
  ASSUME DispatcherStep
  PROVE  RowStep
  <1>1. CASE DispatcherStart
    BY <1>1 DEF DispatcherStart, Stale, RowsIn, Active, RowStep, Moved
  <1>2. ASSUME NEW j \in Jobs, CasToDispatching(j) PROVE RowStep
    BY <1>2 DEF CasToDispatching, SetStatus, rowVars, Active, RowStep, Moved
  <1>3. CASE MarkDispatched
    BY <1>3, ClosingWriteMoves DEF MarkDispatched, DispatchDone, Active
  <1>4. CASE MarkFailed
    BY <1>4, ClosingWriteMoves DEF MarkFailed, SetStatus, DispatchDone, Terminal
  <1>5. CASE RetryOrFail
    BY <1>5, ClosingWriteMoves DEF RetryOrFail, SetStatus, PutBack, DispatchDone, Active, Terminal
  <1>6. CASE DeferToQueue
    BY <1>6, ClosingWriteMoves DEF DeferToQueue, PutBack, DispatchDone, Active
  <1>7. CASE Fetch \/ CreateK8sJob \/ MarkRaises \/ DispatchAborted \/ DispatcherCrash
    BY <1>7, NoChangeMoves DEF Fetch, CreateK8sJob, MarkRaises, DispatchAborted, DispatcherCrash, dbVars, rowVars
  <1> QED BY <1>1, <1>2, <1>3, <1>4, <1>5, <1>6, <1>7 DEF DispatcherStep, DispatcherWrite

LEMMA CommitMoves ==
  ASSUME DecisionInv, Commit, ~BlindWrite
  PROVE  RowStep
  <1>0. wpc = "commit" /\ wpc' = "list"
    BY DEF Commit, WatcherRest
  <1>a. \A j \in Jobs : update[j] # None => status[j] \in DecidedOn(j)
    BY <1>0 DEF BlindWrite, BlindCommit
  <1>b. wipe => \A j \in Jobs : status[j] = IF seen[j] = "DELETING" THEN "DELETING" ELSE None
    BY <1>0 DEF BlindWrite, BlindCommit
  <1>1. CASE UNCHANGED dbVars
    BY <1>1, NoChangeMoves DEF dbVars, rowVars
  <1>2. CASE wipe /\ CommitChanges
    <2>1. \E j \in Jobs : status[j] = "DELETING"
      BY <1>b, <1>2 DEF DecisionInv, DecisionsFit
    <2>2. \A j \in Jobs : status[j] \in {None, "DELETING"}
      BY <1>b, <1>2
    <2>3. status' = [j \in Jobs |-> None] /\ nextId' = 1
      BY <1>2 DEF CommitChanges, DropRows
    <2> QED BY <2>1, <2>2, <2>3 DEF RowStep, ResetEnded
  <1>3. CASE ~wipe /\ CommitChanges
    <2>1. nextId' = nextId
      BY <1>3 DEF CommitChanges
    <2>2. ASSUME NEW j \in Jobs
          PROVE  \/ status'[j] = status[j]
                 \/ status[j] \in Active /\ status'[j] \in Active \cup Terminal
                 \/ status[j] \in Ends /\ status'[j] \in Ends
      <3>1. update[j] # None /\ j \in Listed
              => /\ status[j] \in Active \cup Ends
                 /\ update[j] \in {"QUEUED", "RUNNING"} => status[j] \in Active
        BY <1>0, <1>a DEF DecidedOn, DecisionInv, DecisionsFit, Ends
      <3>2. update[j] # None /\ j \notin Listed
              => status[j] \in Active /\ update[j] = "FAILED"
        BY <1>0, <1>a DEF DecidedOn, DecisionInv, DecisionsFit, Active
      <3>3. update[j] \in {None, "QUEUED", "RUNNING"} \cup Ends
        BY DEF DecisionInv, TypeOK, WatcherTyped, Ends
      <3>4. status'[j] = IF update[j] # None THEN update[j] ELSE status[j]
        BY <1>3 DEF CommitChanges
      <3> QED BY <3>1, <3>2, <3>3, <3>4 DEF Active, Terminal, Ends
    <2> QED BY <2>1, <2>2 DEF RowStep, Moved
  <1> QED BY <1>1, <1>2, <1>3 DEF Commit

LEMMA WatcherMoves ==
  ASSUME DecisionInv, WatcherStep
  PROVE  RowStep \/ BlindWrite
  <1>1. CASE ListK8sJobs \/ LoadRows \/ ReconcileRaises \/ WatcherCrash
    BY <1>1, NoChangeMoves DEF ListK8sJobs, LoadRows, ReconcileRaises, WatcherCrash, dbVars, rowVars
  <1>2. CASE ReconcileAny
    BY <1>2, NoChangeMoves DEF ReconcileAny, Reconcile, dbVars, rowVars
  <1> QED BY <1>1, <1>2, CommitMoves DEF WatcherStep

LEMMA EnvironmentMoves ==
  ASSUME EnvironmentStep
  PROVE  UNCHANGED <<status, nextId>>
  BY DEF EnvironmentStep, PodReady, JobEnds, TtlExpires, DeletionCompletes, K8sRemoves,
     RetryAfterPasses, DispatchAges, dbVars, rowVars

LEMMA StepMoves ==
  ASSUME DecisionInv, [Next]_vars
  PROVE  RowStep \/ BlindWrite
  <1>1. CASE UNCHANGED vars
    BY <1>1, NoChangeMoves DEF vars, dbVars, rowVars
  <1> QED BY <1>1, ApiMoves, DispatcherMoves, WatcherMoves, EnvironmentMoves, NoChangeMoves DEF Next

-----------------------------------------------------------------------------
(* Rows arise only by submission, which moves the counter on *)

RowsArise ==
    \/ nextId' = nextId /\ \A j \in Jobs : status[j] = None => status'[j] = None
    \/ /\ nextId' = nextId + 1
       /\ \A j \in Jobs : status[j] = None /\ j # nextId => status'[j] = None
    \/ \A j \in Jobs : status'[j] = None

LEMMA MovesArise ==
  ASSUME Moved \/ UNCHANGED <<status, nextId>>
  PROVE  RowsArise
  BY DEF Moved, RowsArise, Active, Ends, None

LEMMA RequestWriteArises ==
  ASSUME DecisionInv, NEW c \in Clients, RequestWrite(c)
  PROVE  RowsArise
  <1>1. CASE SubmitWrite
    <2>1. CASE nextId > MaxJobs
      BY <1>1, <2>1 DEF SubmitWrite, dbVars, rowVars, RowsArise
    <2>2. CASE ~(nextId > MaxJobs)
      BY <1>1, <2>2 DEF SubmitWrite, FollowingId, RowsArise, DecisionInv, TypeOK, RowsTyped
    <2> QED BY <2>1, <2>2
  <1>2. ASSUME NEW s, StatusWrite(req[c].job, s) PROVE RowsArise
    BY <1>2 DEF StatusWrite, SetStatus, RowsIn, RowsArise
  <1>3. CASE DropRows({req[c].job}) /\ UNCHANGED <<nextId, resets>>
    BY <1>3 DEF DropRows, RowsArise
  <1>4. CASE SetStatus(RowsIn(Terminal), "DELETING") /\ UNCHANGED <<nextId, resets>>
    BY <1>4 DEF SetStatus, RowsIn, RowsArise, Terminal, None
  <1> QED BY <1>1, <1>2, <1>3, <1>4 DEF RequestWrite

LEMMA CommitArises ==
  ASSUME Commit
  PROVE  RowsArise
  <1>1. CASE UNCHANGED dbVars
    BY <1>1 DEF dbVars, rowVars, RowsArise
  <1>2. CASE wipe /\ CommitChanges
    BY <1>2 DEF CommitChanges, DropRows, RowsArise
  <1>3. CASE ~Lost /\ ~wipe /\ CommitChanges
    BY <1>3 DEF Lost, CommitChanges, RowsArise
  <1> QED BY <1>1, <1>2, <1>3 DEF Commit

LEMMA StepArises ==
  ASSUME DecisionInv, [Next]_vars
  PROVE  RowsArise
  <1>1. CASE UNCHANGED vars
    BY <1>1, MovesArise DEF vars, dbVars, rowVars
  <1>2. CASE ApiStep
    <2>1. ASSUME NEW c \in Clients, NEW op \in Operations, NEW j \in Jobs, RequestRead(c, op, j)
          PROVE  RowsArise
      BY <2>1, MovesArise DEF RequestRead, dbVars, rowVars
    <2>2. ASSUME NEW j \in Jobs, AdminCancel(j) PROVE RowsArise
      BY <2>2, MovesArise DEF AdminCancel, SetStatus, Cancellable, Terminal, Moved
    <2> QED BY <1>2, <2>1, <2>2, RequestWriteArises DEF ApiStep, ApiRead
  <1>3. CASE DispatcherStep
    <2>1. ASSUME RowStep, nextId' = nextId, ~(\A j \in Jobs : status'[j] = None)
          PROVE  \A j \in Jobs : status[j] = None => status'[j] = None
      BY <2>1 DEF RowStep, Submitted, Moved, Deleted, ResetBegun, ResetEnded, Active, Terminal,
         Ends, None, DecisionInv, TypeOK, RowsTyped, CountersTyped
    <2>2. RowStep
      BY <1>3, DispatcherMoves
    <2>3. nextId' = nextId
      BY <1>3 DEF DispatcherStep, DispatcherWrite, DispatcherStart, CasToDispatching,
         MarkDispatched, MarkFailed, RetryOrFail, DeferToQueue, DispatchDone, Fetch,
         CreateK8sJob, MarkRaises, DispatchAborted, DispatcherCrash, dbVars
    <2> QED BY <2>1, <2>2, <2>3 DEF RowsArise
  <1>4. CASE WatcherStep
    <2>1. CASE ~Commit
      BY <1>4, <2>1, MovesArise DEF WatcherStep, ListK8sJobs, LoadRows, ReconcileAny, Reconcile,
         ReconcileRaises, WatcherCrash, dbVars, rowVars
    <2> QED BY <2>1, CommitArises
  <1>5. CASE EnvironmentStep
    BY <1>5, EnvironmentMoves, MovesArise
  <1> QED BY <1>1, <1>2, <1>3, <1>4, <1>5 DEF Next

LEMMA StepKeepsFreshIds ==
  ASSUME DecisionInv, TypeOK', [Next]_vars
  PROVE  FreshIds'
  <1> SUFFICES ASSUME NEW j \in Jobs, j >= nextId' PROVE status'[j] = None
    BY DEF FreshIds
  <1>1. j \in Nat /\ nextId \in Nat
    BY ConstantsOK DEF Jobs, DecisionInv, TypeOK, CountersTyped
  <1>2. j >= nextId => status[j] = None
    BY DEF DecisionInv, FreshIds
  <1>3. RowsArise
    BY StepArises
  <1> QED BY <1>1, <1>2, <1>3 DEF RowsArise

-----------------------------------------------------------------------------
(* What the Watcher decides fits what it has read *)

\* Nobody else makes a row RUNNING.
LEMMA OthersNeverRun ==
  ASSUME ApiStep \/ DispatcherStep \/ EnvironmentStep, TypeOK
  PROVE  /\ UNCHANGED watchVars
         /\ \A j \in Jobs : status'[j] = "RUNNING" => status[j] = "RUNNING"
  <1>1. CASE ApiStep
    <2>1. ASSUME NEW c \in Clients, RequestWrite(c)
          PROVE  \A j \in Jobs : status'[j] = "RUNNING" => status[j] = "RUNNING"
      BY <2>1 DEF RequestWrite, SubmitWrite, StatusWrite, SetStatus, DropRows, dbVars, rowVars,
         TypeOK, RowsTyped, None
    <2>2. ASSUME NEW c \in Clients, NEW op \in Operations, NEW j \in Jobs, RequestRead(c, op, j)
          PROVE  UNCHANGED <<status, watchVars>>
      BY <2>2 DEF RequestRead, dbVars, rowVars
    <2>3. ASSUME NEW j \in Jobs, AdminCancel(j)
          PROVE  /\ UNCHANGED watchVars
                 /\ \A i \in Jobs : status'[i] = "RUNNING" => status[i] = "RUNNING"
      BY <2>3 DEF AdminCancel, SetStatus
    <2>4. \A c \in Clients : RequestWrite(c) => UNCHANGED watchVars
      BY DEF RequestWrite
    <2> QED BY <1>1, <2>1, <2>2, <2>3, <2>4 DEF ApiStep, ApiRead
  <1>2. CASE DispatcherStep
    <2>1. UNCHANGED watchVars
      BY <1>2 DEF DispatcherStep, DispatcherWrite, DispatcherStart, CasToDispatching,
         MarkDispatched, MarkFailed, RetryOrFail, DeferToQueue, DispatchDone, Fetch,
         CreateK8sJob, MarkRaises, DispatchAborted, DispatcherCrash
    <2>2. ASSUME DispatcherWrite
          PROVE  \A i \in Jobs : status'[i] = "RUNNING" => status[i] = "RUNNING"
      <3>1. ASSUME NEW j \in Jobs, CasToDispatching(j)
            PROVE  \A i \in Jobs : status'[i] = "RUNNING" => status[i] = "RUNNING"
        BY <3>1 DEF CasToDispatching, SetStatus, rowVars
      <3>2. CASE DispatcherStart
        BY <3>2 DEF DispatcherStart
      <3>3. CASE MarkDispatched \/ MarkFailed \/ RetryOrFail \/ DeferToQueue
        BY <3>3 DEF MarkDispatched, MarkFailed, RetryOrFail, DeferToQueue, PutBack, SetStatus
      <3> QED BY <2>2, <3>1, <3>2, <3>3 DEF DispatcherWrite
    <2>3. CASE Fetch \/ CreateK8sJob \/ MarkRaises \/ DispatchAborted \/ DispatcherCrash
      BY <2>3 DEF Fetch, CreateK8sJob, MarkRaises, DispatchAborted, DispatcherCrash, dbVars, rowVars
    <2> QED BY <1>2, <2>1, <2>2, <2>3 DEF DispatcherStep
  <1>3. CASE EnvironmentStep
    BY <1>3, EnvironmentMoves DEF EnvironmentStep, PodReady, JobEnds, TtlExpires,
       DeletionCompletes, K8sRemoves, RetryAfterPasses, DispatchAges
  <1> QED BY <1>1, <1>2, <1>3

LEMMA ReconcileFits ==
  ASSUME DecisionInv, NEW expired \in SUBSET Overdue, NEW deleted, Reconcile(expired, deleted)
  PROVE  DecisionsFit'
  <1>1. UNCHANGED <<status, snap, seen>> /\ wpc = "act" /\ wpc' = "commit"
    BY DEF Reconcile, dbVars, rowVars
  <1>2. Listed' = Listed
    BY <1>1 DEF Listed
  <1>3. \A j \in Listed : j \in Jobs /\ (status[j] = "RUNNING" => seen[j] = "RUNNING")
    BY <1>1 DEF DecisionInv, DecisionsFit, Listed
  <1>4. ASSUME NEW j \in Synced
        PROVE  /\ j \in Listed
               /\ seen[j] \in Active \cup Ends
               /\ Observed(snap[j]) = "RUNNING" => seen[j] \in Active
               /\ Observed(snap[j]) # "QUEUED"
    <2>1. j \in Listed /\ j \in Jobs /\ seen[j] \notin {None, "CANCELLED", "DELETING"}
      BY <1>3 DEF Synced, Unwanted
    <2>2. seen[j] \in Statuses \cup {None}
      BY <2>1 DEF DecisionInv, TypeOK, WatcherTyped
    <2>3. seen[j] \in Active \cup Ends
      BY <2>1, <2>2 DEF Statuses, Terminal, Ends
    <2>4. Observed(snap[j]) = "RUNNING" => seen[j] \notin Ends
      BY DEF Synced, Ends
    <2>5. Observed(snap[j]) # "QUEUED"
      BY DEF Observed, None
    <2> QED BY <2>1, <2>3, <2>4, <2>5
  <1>5. \A j \in TimedOut(expired, deleted) : j \in Listed => seen[j] \in Active \cup Ends
    <2> SUFFICES ASSUME NEW j \in Overdue, j \in Listed PROVE seen[j] \in Active \cup Ends
      BY DEF TimedOut
    <2>1. CASE j \in Synced
      BY <1>4, <2>1
    <2>2. CASE j \notin Synced
      BY <1>3, <2>2 DEF Overdue, InTransaction, Active
    <2> QED BY <2>1, <2>2
  <1>6. Missing \cap Listed = {}
    BY DEF Missing
  <1>7. \A j \in Requeued(deleted) : j \in Listed /\ seen[j] \in Active
    BY DEF Requeued, Stalled, Active
  <1>8. ASSUME NEW j \in Jobs, update'[j] # None
        PROVE  IF j \in Listed
               THEN /\ seen[j] \in Active \cup Ends
                    /\ update'[j] \in {"QUEUED", "RUNNING"} => seen[j] \in Active
               ELSE update'[j] = "FAILED"
    <2>1. update'[j] = IF j \in TimedOut(expired, deleted) \cup Missing THEN "FAILED"
                       ELSE IF j \in Requeued(deleted) THEN "QUEUED"
                       ELSE IF j \in Synced THEN Observed(snap[j])
                       ELSE None
      BY DEF Reconcile
    <2>2. CASE j \in TimedOut(expired, deleted) \cup Missing
      <3>1. update'[j] = "FAILED"
        BY <2>1, <2>2
      <3>2. j \in Listed => seen[j] \in Active \cup Ends
        BY <1>5, <1>6, <2>2
      <3> QED BY <3>1, <3>2
    <2>3. CASE j \notin TimedOut(expired, deleted) \cup Missing /\ j \in Requeued(deleted)
      BY <1>7, <2>3
    <2>4. CASE j \notin TimedOut(expired, deleted) \cup Missing \cup Requeued(deleted)
      <3>1. j \in Synced /\ update'[j] = Observed(snap[j])
        BY <1>8, <2>1, <2>4
      <3> QED BY <1>4, <3>1
    <2> QED BY <2>2, <2>3, <2>4
  <1>9. wipe' => \E j \in Jobs : seen[j] = "DELETING"
    BY DEF Reconcile, ResetEnds
  <1> QED BY <1>1, <1>2, <1>8, <1>9 DEF DecisionsFit, Ends

LEMMA StepKeepsDecisionsFit ==
  ASSUME DecisionInv, [Next]_vars
  PROVE  DecisionsFit'
  <1>1. CASE UNCHANGED vars
    BY <1>1 DEF vars, dbVars, rowVars, watchVars, DecisionInv, DecisionsFit, Listed
  <1>2. CASE ApiStep \/ DispatcherStep \/ EnvironmentStep
    <2>1. UNCHANGED <<wpc, snap, seen, update, wipe>>
      BY <1>2, OthersNeverRun DEF watchVars, DecisionInv
    <2>2. Listed' = Listed /\ Listed \subseteq Jobs
      BY <2>1 DEF Listed
    <2>3. \A j \in Jobs : status'[j] = "RUNNING" => status[j] = "RUNNING"
      BY <1>2, OthersNeverRun DEF DecisionInv
    <2> QED BY <2>1, <2>2, <2>3 DEF DecisionInv, DecisionsFit
  <1>3. CASE ListK8sJobs
    BY <1>3 DEF ListK8sJobs, DecisionInv, DecisionsFit
  <1>4. CASE LoadRows
    <2>1. \A j \in Listed : seen'[j] = status[j]
      BY <1>4 DEF LoadRows, Loaded, Listed
    <2>2. Listed' = Listed /\ status' = status
      BY <1>4 DEF LoadRows, Listed, dbVars, rowVars
    <2> QED BY <1>4, <2>1, <2>2 DEF LoadRows, DecisionInv, DecisionsFit
  <1>5. CASE ReconcileAny
    BY <1>5, ReconcileFits DEF ReconcileAny
  <1>6. CASE ReconcileRaises \/ Commit \/ WatcherCrash
    BY <1>6 DEF ReconcileRaises, Commit, WatcherCrash, WatcherRest, DecisionsFit
  <1> QED BY <1>1, <1>2, <1>3, <1>4, <1>5, <1>6 DEF Next, WatcherStep

LEMMA InitDecides ==
  ASSUME Init
  PROVE  DecisionInv
  <1>1. TypeOK
    BY InitTyped
  <1> QED BY <1>1 DEF Init, DecisionInv, FreshIds, DecisionsFit

LEMMA DecisionStep ==
  ASSUME DecisionInv, [Next]_vars
  PROVE  DecisionInv'
  <1>1. TypeOK'
    BY TypeStep DEF DecisionInv
  <1> QED BY <1>1, StepKeepsFreshIds, StepKeepsDecisionsFit DEF DecisionInv

LEMMA DecisionInvariant == Spec => []DecisionInv
  BY InitDecides, DecisionStep, PTL DEF Spec

\* A submission never meets a row that already bears its id, although it reads
\* before it writes and a reset may restart the numbering in between.
THEOREM IdsStayFresh == Spec => []FreshIds
  BY DecisionInvariant, PTL DEF DecisionInv

-----------------------------------------------------------------------------
(* The contract *)

Stage == [j \in Jobs |-> StageOf(status[j])]

LEMMA StageFacts ==
  ASSUME NEW s \in Statuses \cup {None}
  PROVE  /\ StageOf(s) \in Contract!Stages
         /\ StageOf(s) \in Contract!Open <=> s \in Active
         /\ StageOf(s) \in Contract!Ended <=> s \in Terminal
         /\ StageOf(s) = "done" <=> s \in Ends
         /\ StageOf(s) = "resetting" <=> s = "DELETING"
         /\ StageOf(s) = "none" <=> s = None
         /\ StageOf(s) = "waiting" <=> s = "QUEUED"
  BY DEF StageOf, Statuses, Active, Terminal, InFlight, Ends, None,
     Contract!Stages, Contract!Open, Contract!Ended

\* Each of the five ways to change the rows is a step of the contract.
LEMMA RowStepKeepsContract ==
  ASSUME TypeOK, TypeOK', RowStep
  PROVE  Contract!ContractNext
  <1> USE DEF Contract!Ids, Jobs
  <1>1. \A j \in Jobs : /\ status[j] \in Statuses \cup {None}
                        /\ status'[j] \in Statuses \cup {None}
    BY DEF TypeOK, RowsTyped
  <1>2. \A j \in Jobs : Stage[j] = StageOf(status[j]) /\ Stage'[j] = StageOf(status'[j])
    BY DEF Stage
  <1>3. CASE Submitted
    <2>1. Stage' = [Stage EXCEPT ![nextId] = "waiting"]
      BY <1>1, <1>3, StageFacts DEF Stage, Submitted, TypeOK, RowsTyped, Statuses, Active
    <2>2. nextId \in Contract!Ids /\ Stage[nextId] = "none"
      BY <1>1, <1>2, <1>3, StageFacts DEF Submitted
    <2>3. \A j \in Contract!Ids : Stage[j] # "resetting"
      BY <1>1, <1>2, <1>3, StageFacts DEF Submitted
    <2>4. Contract!Submit
      BY <1>3, <2>1, <2>2, <2>3 DEF Contract!Submit, Submitted, Stage
    <2> QED BY <2>4 DEF Contract!ContractNext
  <1>4. CASE Moved
    <2>1. Stage' \in [Contract!Ids -> Contract!Stages]
      BY <1>1, StageFacts DEF Stage
    <2>2. ASSUME NEW j \in Contract!Ids
          PROVE  \/ Stage'[j] = Stage[j]
                 \/ /\ Stage[j] \in Contract!Open
                    /\ Stage'[j] \in Contract!Open \cup Contract!Ended
      <3>1. CASE status'[j] = status[j]
        BY <1>2, <3>1
      <3>2. CASE status[j] \in Active /\ status'[j] \in Active \cup Terminal
        BY <1>1, <1>2, <3>2, StageFacts
      <3>3. CASE status[j] \in Ends /\ status'[j] \in Ends
        <4>1. Stage[j] = "done" /\ Stage'[j] = "done"
          BY <1>1, <1>2, <3>3, StageFacts
        <4> QED BY <4>1
      <3> QED BY <1>4, <3>1, <3>2, <3>3 DEF Moved
    <2>3. Contract!Progress
      BY <1>4, <2>1, <2>2 DEF Contract!Progress, Moved, Stage
    <2> QED BY <2>3 DEF Contract!ContractNext
  <1>5. CASE Deleted
    <2>1. PICK j \in Jobs : /\ status[j] \in Terminal
                            /\ status' = [i \in Jobs |-> IF i \in {j} THEN None ELSE status[i]]
      BY <1>5 DEF Deleted
    <2>2. Stage' = [Stage EXCEPT ![j] = "none"]
      BY <2>1, StageFacts DEF Stage
    <2>3. Stage[j] \in Contract!Ended
      BY <1>1, <1>2, <2>1, StageFacts
    <2>4. Contract!Delete(j)
      BY <1>5, <2>2, <2>3 DEF Contract!Delete, Deleted, Stage
    <2> QED BY <2>4 DEF Contract!ContractNext
  <1>6. CASE ResetBegun
    <2>1. \A j \in Contract!Ids : Stage[j] \notin Contract!Open
      BY <1>1, <1>2, <1>6, StageFacts DEF ResetBegun
    <2>2. ASSUME NEW j \in Jobs
          PROVE  Stage'[j] = IF Stage[j] \in Contract!Ended THEN "resetting" ELSE Stage[j]
      <3>1. status'[j] = IF status[j] \in Terminal THEN "DELETING" ELSE status[j]
        BY <1>6 DEF ResetBegun
      <3> QED BY <1>1, <1>2, <3>1, StageFacts
    <2>3. Stage' = [j \in Jobs |-> IF Stage[j] \in Contract!Ended THEN "resetting" ELSE Stage[j]]
      BY <2>2 DEF Stage
    <2>4. Contract!Reset
      BY <1>6, <2>1, <2>3 DEF Contract!Reset, ResetBegun, Stage
    <2> QED BY <2>4 DEF Contract!ContractNext
  <1>7. CASE ResetEnded
    <2>1. \E j \in Contract!Ids : Stage[j] = "resetting"
      BY <1>1, <1>2, <1>7, StageFacts DEF ResetEnded
    <2>2. \A j \in Contract!Ids : Stage[j] \in {"none", "resetting"}
      BY <1>1, <1>2, <1>7, StageFacts DEF ResetEnded
    <2>3. Stage' = [j \in Jobs |-> "none"]
      BY <1>7, StageFacts DEF ResetEnded, Stage
    <2>4. Contract!Wipe
      BY <1>7, <2>1, <2>2, <2>3 DEF Contract!Wipe, ResetEnded, Stage
    <2> QED BY <2>4 DEF Contract!ContractNext
  <1> QED BY <1>3, <1>4, <1>5, <1>6, <1>7 DEF RowStep

\* The rows the programs read and write behave as JobContract promises, until
\* a program writes rows blindly: crashes, lost replies, refused deletions, a
\* failing database and old lists do not break a promise.
THEOREM ContractKept == Spec => ContractUnlessBlind
  <1>1. Init => Contract!ContractInit
    <2>1. Init => Stage = [j \in Jobs |-> "none"]
      BY StageFacts DEF Init, Stage
    <2> QED BY <2>1 DEF Init, Contract!ContractInit, Contract!Ids, Jobs, Stage
  <1>2. DecisionInv /\ [Next]_vars => [Contract!ContractNext \/ BlindWrite]_<<status, nextId>>
    <2> SUFFICES ASSUME DecisionInv, [Next]_vars, ~BlindWrite, RowStep
                 PROVE  Contract!ContractNext
      BY StepMoves
    <2>1. TypeOK /\ TypeOK'
      BY TypeStep DEF DecisionInv
    <2> QED BY <2>1, RowStepKeepsContract
  <1> QED BY <1>1, <1>2, DecisionInvariant, PTL DEF Spec, ContractUnlessBlind
=============================================================================
