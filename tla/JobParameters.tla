---------------------------- MODULE JobParameters ----------------------------
(* What a job asks for - its flavor, its size, its GPUs, its image - from the *)
(* request that submits it or changes it to the manifest of its Job on the    *)
(* cluster.                                                                   *)
(*                                                                            *)
(* A request reads, checks against tables the Watcher refreshes, and writes,  *)
(* and two requests and the Dispatcher may do so at a time.  The Dispatcher   *)
(* keeps row objects from its query to the end of its cycle.  How a row moves *)
(* between its statuses is JobLifecycle; here the moves are single steps.     *)
EXTENDS Integers, FiniteSets, FiniteSetsExt, TLC

CONSTANTS
    MaxJobs,        \* bound: submissions
    Clients,        \* requests that may be in progress at one time
    MaxSets,        \* bound: requests that change parameters
    MaxSyncs,       \* bound: how often the Watcher's tables change
    Flavors,        \* the flavors of the configuration
    DefaultFlavor,
    GpuFlavors,     \* flavors with a gpu_resource_name
    ImageOf,        \* default image by flavor, or NoImage
    Images,
    NoImage,
    PodImages,      \* what CJOB_IMAGE and JUPYTER_IMAGE may say
    Wishes,         \* what submissions ask for; absent fields are defaulted
    Changes,        \* what set requests ask for; absent fields are kept
    Widths,         \* parallelism of submissions; a job that is no sweep has 1
    Tables          \* what the tables of the Watcher may hold, by flavor

\* The largest node and the sum of the nodes of a flavor, and its quota.  The
\* nodes of a flavor that has none are 0; a quota that is not known is as good
\* as one larger than any request.
Amounts == [size : Nat, gpu : Nat]
Limits  == [largest : Amounts, total : Amounts, quota : Amounts]

\* What a request may name, and what it may say of it.
Values(field) == CASE field = "flavor" -> Flavors
                   [] field = "image"  -> Images
                   [] OTHER            -> Nat
Names(r, fields) == DOMAIN r \subseteq fields /\ \A x \in DOMAIN r : r[x] \in Values(x)
Fields == {"flavor", "size", "gpu", "image"}

ASSUME JobParametersAssumption ==
    /\ MaxJobs \in Nat /\ MaxSets \in Nat /\ MaxSyncs \in Nat
    /\ DefaultFlavor \in Flavors /\ GpuFlavors \subseteq Flavors
    /\ NoImage \notin Images /\ ImageOf \in [Flavors -> Images \cup {NoImage}]
    /\ PodImages \subseteq Images \cup {NoImage}
    /\ \A w \in Wishes : Names(w, Fields) /\ {"size", "gpu"} \subseteq DOMAIN w
    /\ \A ch \in Changes : Names(ch, Fields)
    /\ Widths \subseteq Nat \ {0}
    /\ Tables \subseteq [Flavors -> Limits]

VARIABLES
    rows,     \* the rows of the namespace
    nextId,   \* user_job_counters.next_id
    limits,   \* node_resources and flavor_quotas
    syncs,    \* how often they changed
    sets,     \* how many set requests were made
    request,  \* by client: the request in progress
    batch,    \* the candidates the Dispatcher has still to take
    loaded,   \* the row objects its session holds
    dispatch, \* where dispatch_one is
    jobs,     \* what the Jobs on the cluster were created with
    stray     \* history: Jobs whose creation was not recorded

vars == <<rows, nextId, limits, syncs, sets, request, batch, loaded, dispatch, jobs, stray>>
api == <<nextId, sets, request>>
daemon == <<batch, loaded, dispatch>>
cluster == <<jobs, stray>>

Ids == 1..MaxJobs
Settable == {"QUEUED", "HELD"}
Ended == {"ENDED", "CANCELLED"}      \* ENDED stands for SUCCEEDED and FAILED
Statuses == Settable \cup Ended \cup {"DISPATCHING", "DISPATCHED", "RUNNING"}

NoRow == [status |-> "NONE"]
NoJob == [flavor |-> "none"]
Idle == [at |-> "idle"]

Parameters == [flavor : Flavors, size : Nat, gpu : Nat, image : Images]

\* The history of a row: what the tables held when its parameters were checked
\* (under), and whether its image was asked for by name (named).
Row == [status : Statuses, params : Parameters, width : Widths,
        named : BOOLEAN, under : Limits]

\* A request that has been read, and one that was checked; a job 0 is submitted.
Read    == [at : {"check"}, job : Ids \cup {0}, new : Parameters,
            change : Wishes \cup Changes, width : Widths, named : BOOLEAN]
Checked == [at : {"total", "insert", "update"}, job : Ids \cup {0}, new : Parameters,
            change : Wishes \cup Changes, width : Widths, named : BOOLEAN, under : Limits]

Dispatch == {Idle}
    \cup [at : {"claimed", "created"}, job : Ids]
    \cup [at : {"built"}, job : Ids, manifest : Parameters]
    \cup [at : {"refused"}, job : Ids, to : {"QUEUED", "ENDED"}]

TypeOK ==
    /\ rows \in [Ids -> Row \cup {NoRow}]
    /\ nextId \in 1..(MaxJobs + 1)
    /\ limits \in Tables /\ syncs \in 0..MaxSyncs /\ sets \in 0..MaxSets
    /\ request \in [Clients -> {Idle} \cup Read \cup Checked]
    /\ \A c \in Clients : request[c].at = "update" => request[c].job # 0
    /\ batch \subseteq Ids
    /\ DOMAIN loaded \subseteq batch /\ \A j \in DOMAIN loaded : loaded[j] \in Parameters
    /\ dispatch \in Dispatch
    /\ jobs \in [Ids -> Parameters \cup {NoJob}]
    /\ stray \subseteq {j \in Ids : jobs[j] # NoJob}

Init ==
    /\ rows = [j \in Ids |-> NoRow] /\ nextId = 1
    /\ limits \in Tables /\ syncs = 0 /\ sets = 0
    /\ request = [c \in Clients |-> Idle]
    /\ batch = {} /\ loaded = <<>> /\ dispatch = Idle
    /\ jobs = [j \in Ids |-> NoJob] /\ stray = {}

Present(j) == rows[j] # NoRow

\* The fields of new, and of old what new does not name.  (As @@, of which the
\* provers have no definition.)
Over(new, old) ==
    [x \in DOMAIN new \cup DOMAIN old |-> IF x \in DOMAIN new THEN new[x] ELSE old[x]]
SetStatus(j, s) == rows' = [rows EXCEPT ![j].status = s]

----------------------------------------------------------------------------
(* Checks.                                                                    *)

\* The largest request a flavor admits: a node's and the quota's, whichever
\* is less, each resource by itself.
Least(a, b) == [size |-> Min({a.size, b.size}), gpu |-> Min({a.gpu, b.gpu})]

\* A flavor without nodes is not checked, but for GPUs.
Fits(p, limit) ==
    LET most == Least(limit.largest, limit.quota) IN
    /\ limit.largest.size > 0 => p.size <= most.size
    /\ p.gpu > 0 => p.flavor \in GpuFlavors /\ p.gpu <= most.gpu

\* What a sweep takes when all its parallel tasks run.
FitsInTotal(p, width, limit) ==
    LET most == Least(limit.total, limit.quota) IN
    /\ limit.total.size > 0 => p.size * width <= most.size
    /\ p.gpu > 0 => p.gpu * width <= most.gpu

----------------------------------------------------------------------------
(* Images.                                                                    *)

\* The image of the Pod the user types in; an empty variable counts as unset.
PickFallbackImage(cjob, jupyter) == IF cjob # NoImage THEN cjob ELSE jupyter

ResolveImage(flavor, asked, fallback) ==
    IF asked # NoImage THEN asked
    ELSE IF ImageOf[flavor] # NoImage THEN ImageOf[flavor] ELSE fallback

Named(r) == "image" \in DOMAIN r
Asked(r) == IF Named(r) THEN r.image ELSE NoImage

\* A change of flavor takes the flavor's default image with it, if there is one.
Renewed(change) ==
    ~Named(change) /\ "flavor" \in DOMAIN change /\ ImageOf[change.flavor] # NoImage

SlipMerged(old, change) ==              \* the new flavor has no default image
    IF ~Named(change) /\ "flavor" \in DOMAIN change
      THEN Over(change, Over([image |-> ImageOf[change.flavor]], old))
      ELSE Over(change, old)

Merged(old, change) ==
    IF Renewed(change) THEN Over(change, Over([image |-> ImageOf[change.flavor]], old))
                       ELSE Over(change, old)

----------------------------------------------------------------------------
(* Requests.                                                                  *)
At(c, stage) == request[c].at = stage
Goes(c, stage) == request' = [request EXCEPT ![c].at = stage]
Ends(c) == request' = [request EXCEPT ![c] = Idle]

\* cjob add, cjob sweep, with what their environment says of the Pod's image.
\* Nothing to take the image from refuses the request.
Submit(c) ==
    /\ At(c, "idle") /\ nextId <= MaxJobs
    /\ \E w \in Wishes, width \in Widths, cjob, jupyter \in PodImages :
          LET p == Over(w, [flavor |-> DefaultFlavor])
              image == ResolveImage(p.flavor, Asked(w), PickFallbackImage(cjob, jupyter))
          IN  /\ image # NoImage
              /\ request' = [request EXCEPT ![c] =
                    [at |-> "check", job |-> 0, new |-> Over([image |-> image], p),
                     change |-> w, width |-> width, named |-> Named(w)]]
    /\ UNCHANGED <<rows, nextId, limits, syncs, sets, daemon, cluster>>

\* cjob set: a row that does not wait is skipped.
ReadRow(c, j) ==
    /\ At(c, "idle") /\ sets < MaxSets
    /\ rows[j].status \in Settable
    /\ \E ch \in Changes :
          request' = [request EXCEPT ![c] =
              [at |-> "check", job |-> j, new |-> Merged(rows[j].params, ch),
               change |-> ch, width |-> rows[j].width,
               named |-> Named(ch) \/ (rows[j].named /\ ~Renewed(ch))]]
    /\ sets' = sets + 1
    /\ UNCHANGED <<rows, nextId, limits, syncs, daemon, cluster>>

CheckResources(c) ==
    /\ At(c, "check")
    /\ LET r == request[c]
           limit == limits[r.new.flavor]
           next == IF r.job # 0 THEN "update" ELSE IF r.width > 1 THEN "total" ELSE "insert"
       IN  IF Fits(r.new, limit)
             THEN request' = [request EXCEPT ![c] =
                      [at |-> next, job |-> r.job, new |-> r.new, change |-> r.change,
                       width |-> r.width, named |-> r.named, under |-> limit]]
             ELSE Ends(c)
    /\ UNCHANGED <<rows, nextId, limits, syncs, sets, daemon, cluster>>

\* Sweeps are checked a second time, against the sum of the nodes; a set never is.
CheckTotal(c) ==
    /\ At(c, "total")
    /\ LET r == request[c] IN
       IF FitsInTotal(r.new, r.width, limits[r.new.flavor]) THEN Goes(c, "insert") ELSE Ends(c)
    /\ UNCHANGED <<rows, nextId, limits, syncs, sets, daemon, cluster>>

InsertRow(c) ==
    /\ At(c, "insert") /\ nextId <= MaxJobs
    /\ LET r == request[c] IN
       rows' = [rows EXCEPT ![nextId] =
           [status |-> "QUEUED", params |-> r.new, width |-> r.width,
            named |-> r.named, under |-> r.under]]
    /\ nextId' = nextId + 1
    /\ Ends(c)
    /\ UNCHANGED <<limits, syncs, sets, daemon, cluster>>

SlipWritten(row, r) ==                  \* the columns that were asked for, no others
    [row EXCEPT !.params = Merged(row.params, r.change), !.named = r.named, !.under = r.under]

\* Every column is written, also those the request did not name.
Written(row, r) == [row EXCEPT !.params = r.new, !.named = r.named, !.under = r.under]

\* The row must still wait; that it changed otherwise is not noticed.
UpdateRow(c) ==
    /\ At(c, "update")
    /\ LET r == request[c] IN
       rows' = IF rows[r.job].status \in Settable
                 THEN [rows EXCEPT ![r.job] = Written(@, r)] ELSE rows
    /\ Ends(c)
    /\ UNCHANGED <<nextId, limits, syncs, sets, daemon, cluster>>

\* hold, release, cancel and delete.
Move(j) ==
    /\ \/ rows[j].status = "QUEUED" /\ SetStatus(j, "HELD")
       \/ rows[j].status = "HELD" /\ SetStatus(j, "QUEUED")
       \/ rows[j].status \in Statuses \ Ended /\ SetStatus(j, "CANCELLED")
       \/ rows[j].status \in Ended /\ rows' = [rows EXCEPT ![j] = NoRow]
    /\ UNCHANGED <<api, limits, syncs, daemon, cluster>>

----------------------------------------------------------------------------
(* Dispatcher.                                                                *)

\* The query of a cycle; the filters only leave candidates out.
Fetch ==
    /\ dispatch = Idle /\ batch = {}
    /\ \E S \in SUBSET {j \in Ids : rows[j].status = "QUEUED"} :
          S # {} /\ batch' = S /\ loaded' = [j \in S |-> rows[j].params]
    /\ UNCHANGED <<rows, api, limits, syncs, dispatch, cluster>>

SlipKept(objects, j) == objects         \* row objects outlive a commit

\* A commit expires every object of the session.
Kept(objects, j) == <<>>

\* dispatch_one up to its first commit.  An expired object of a row that is
\* gone cannot be read, which ends the cycle.
Claim(j) ==
    /\ dispatch = Idle /\ j \in batch
    /\ IF ~Present(j) /\ j \notin DOMAIN loaded
         THEN batch' = {} /\ loaded' = <<>> /\ UNCHANGED <<rows, dispatch>>
         ELSE /\ batch' = batch \ {j}
              /\ IF rows[j].status = "QUEUED"
                   THEN SetStatus(j, "DISPATCHING") /\ dispatch' = [at |-> "claimed", job |-> j]
                   ELSE UNCHANGED <<rows, dispatch>>
              /\ loaded' = Kept(loaded, j)
    /\ UNCHANGED <<api, limits, syncs, cluster>>

\* The manifest, from the row as the session has it; without a row dispatch_one
\* ends with a write to a row that is not there.
BuildK8sJob ==
    /\ dispatch.at = "claimed"
    /\ LET j == dispatch.job IN
       dispatch' = IF j \in DOMAIN loaded
                     THEN [at |-> "built", job |-> j, manifest |-> loaded[j]]
                   ELSE IF Present(j)
                     THEN [at |-> "built", job |-> j, manifest |-> rows[j].params]
                   ELSE Idle
    /\ UNCHANGED <<rows, api, limits, syncs, batch, loaded, cluster>>

\* The create call: it succeeds, it is refused, or its answer is lost.
CreateK8sJob ==
    /\ dispatch.at = "built"
    /\ LET j == dispatch.job
           Refused(to) == dispatch' = [at |-> "refused", job |-> j, to |-> to]
           Created == jobs[j] = NoJob /\ jobs' = [jobs EXCEPT ![j] = dispatch.manifest]
       IN  \/ Created /\ dispatch' = [at |-> "created", job |-> j] /\ UNCHANGED stray
           \/ \E to \in {"QUEUED", "ENDED"} :
                Created /\ Refused(to) /\ stray' = stray \cup {j}
           \/ \E to \in {"QUEUED", "ENDED"} :
                (jobs[j] = NoJob \/ to = "ENDED") /\ Refused(to) /\ UNCHANGED cluster
    /\ UNCHANGED <<rows, api, limits, syncs, batch, loaded>>

\* The closing write, on a row that is still DISPATCHING: mark_dispatched, or
\* after an error increment_retry, defer_to_queue or mark_failed.
CloseDispatch ==
    /\ dispatch.at \in {"created", "refused"}
    /\ IF rows[dispatch.job].status = "DISPATCHING"
         THEN SetStatus(dispatch.job,
                        IF dispatch.at = "created" THEN "DISPATCHED" ELSE dispatch.to)
         ELSE UNCHANGED rows
    /\ dispatch' = Idle
    /\ UNCHANGED <<api, limits, syncs, batch, loaded, cluster>>

\* The process dies and its successor puts back what it left in DISPATCHING.
DispatcherRestart ==
    /\ dispatch # Idle \/ batch # {}
    /\ rows' = [j \in Ids |-> IF rows[j].status = "DISPATCHING"
                                THEN [rows[j] EXCEPT !.status = "QUEUED"] ELSE rows[j]]
    /\ stray' = IF dispatch.at = "created" /\ jobs[dispatch.job] # NoJob
                  THEN stray \cup {dispatch.job} ELSE stray
    /\ batch' = {} /\ loaded' = <<>> /\ dispatch' = Idle
    /\ UNCHANGED <<api, limits, syncs, jobs>>

----------------------------------------------------------------------------
(* Watcher.                                                                   *)
JobGone(j) == jobs' = [jobs EXCEPT ![j] = NoJob] /\ stray' = stray \ {j}

\* The row of a Job follows it, whatever the row's status, unless it is
\* cancelled or would fall back from its end.
Sync(j) ==
    /\ jobs[j] # NoJob /\ Present(j)
    /\ \/ rows[j].status \notin Ended \cup {"RUNNING"} /\ SetStatus(j, "RUNNING")
       \/ rows[j].status \notin Ended /\ SetStatus(j, "ENDED")
    /\ UNCHANGED <<api, limits, syncs, daemon, cluster>>

\* A Job that never started is deleted and its row waits again.
Requeue(j) ==
    /\ rows[j].status = "DISPATCHED" /\ jobs[j] # NoJob
    /\ SetStatus(j, "QUEUED") /\ JobGone(j)
    /\ UNCHANGED <<api, limits, syncs, daemon>>

\* Jobs nobody wants, and Jobs that ended and expire.
Remove(j) ==
    /\ jobs[j] # NoJob /\ (~Present(j) \/ rows[j].status \in Ended)
    /\ JobGone(j)
    /\ UNCHANGED <<rows, api, limits, syncs, daemon>>

SyncLimits ==
    /\ syncs < MaxSyncs /\ syncs' = syncs + 1
    /\ limits' \in Tables \ {limits}
    /\ UNCHANGED <<rows, api, daemon, cluster>>

----------------------------------------------------------------------------
RequestStep(c) ==
    \/ Submit(c) \/ CheckResources(c) \/ CheckTotal(c) \/ InsertRow(c) \/ UpdateRow(c)
    \/ \E j \in Ids : ReadRow(c, j)

DispatcherStep ==
    \/ Fetch \/ BuildK8sJob \/ CreateK8sJob \/ CloseDispatch \/ DispatcherRestart
    \/ \E j \in Ids : Claim(j)

Next ==
    \/ \E c \in Clients : RequestStep(c)
    \/ \E j \in Ids : Move(j) \/ Sync(j) \/ Requeue(j) \/ Remove(j)
    \/ DispatcherStep
    \/ SyncLimits

Spec == Init /\ [][Next]_vars

----------------------------------------------------------------------------
(* Properties.                                                                *)

\* A Job on the cluster asks for what its row says, so budgets and usage count
\* what really runs, however a set raced the Dispatcher; except when the Job's
\* creation was never recorded and its row was taken for one that waits.
ManifestIsRow ==
    \A j \in Ids \ stray :
        jobs[j] # NoJob /\ Present(j) => jobs[j] = rows[j].params

\* The parameters of a row were checked together, as one reading of the tables
\* saw them, and the image is the flavor's default or was asked for by name,
\* however requests that change different columns overlapped.
RowIsWhole ==
    \A j \in Ids : Present(j) =>
        LET r == rows[j] IN
        /\ Fits(r.params, r.under)
        /\ r.named \/ ImageOf[r.params.flavor] \in {NoImage, r.params.image}
=============================================================================
