-------------------------- MODULE SystemMaintenance --------------------------
(* cjobctl at work on a running system: `system stop`, `system start`,       *)
(* `system restart` and `jobs cancel`, each a sequence of requests to the    *)
(* Kubernetes API and to the database, while the processes of the Dispatcher *)
(* and the Watcher go on until their Pods are gone.                          *)
(*                                                                           *)
(* Scaling a Deployment only changes a number.  The Pods follow later: a     *)
(* process is told to leave (SIGTERM), finishes the dispatch or the cycle it *)
(* is in and ends; a rolling restart starts the new process before the old   *)
(* one is told.  So two processes of a kind can overlap, and a process can   *)
(* act after cjobctl has rewritten the rows.                                 *)
(*                                                                           *)
(* The daemons are those of JobLifecycle, cut down to what maintenance can   *)
(* disturb: one Kubernetes Job per row, no retries, limits or resets.        *)
EXTENDS Naturals, FiniteSets, Sequences

CONSTANTS
    Jobs,          \* the rows
    Dispatchers,   \* Pods of the Dispatcher there can be at one time
    Watchers,      \* Pods of the Watcher there can be at one time
    MaxCommands    \* bound: commands the operator gives

ASSUME SystemMaintenanceAssumption ==
    MaxCommands \in Nat /\ Dispatchers \cap Watchers = {}
    /\ Dispatchers # {} /\ Watchers # {}

VARIABLES
    status,     \* by job: status of the row
    k8s,        \* by job: its Kubernetes Job
    replicas,   \* by component: spec.replicas of the Deployment
    dispatcher, \* by Pod: where the process stands
    watcher,    \* by Pod: where the process stands, and what it has read
    leaving,    \* processes that were told to end
    outdated,   \* processes of an earlier Pod template
    script,     \* what cjobctl has still to do, request by request
    given,      \* how many commands were given
    stopped,    \* history: the last system stop has run to its end
    calm        \* history: that stop found no process left and nothing was
                \* refused, no later one was interrupted, no processes overlapped

vars == <<status, k8s, replicas, dispatcher, watcher, leaving, outdated,
          script, given, stopped, calm>>
rows == <<status, k8s>>
pods == <<dispatcher, watcher, leaving, outdated>>
operator == <<script, given, stopped, calm>>

Components == {"submit-api", "dispatcher", "watcher"}
InFlight == {"DISPATCHING", "DISPATCHED", "RUNNING"}
Ended == {"SUCCEEDED", "FAILED", "CANCELLED"}
Statuses == {"QUEUED", "HELD"} \cup InFlight \cup Ended
Phases == {"none", "pending", "ready", "complete"}   \* one that failed is treated alike
Cancellable == {"QUEUED"} \cup InFlight

Off == [at |-> "off"]
Resting == [at |-> "idle"]

TypeOK ==
    /\ status \in [Jobs -> Statuses]
    /\ k8s \in [Jobs -> Phases]
    /\ replicas \in [Components -> 0..1]
    /\ dispatcher \in [Dispatchers ->
          {Off, Resting} \cup [at : {"create", "mark", "fail"}, job : Jobs]]
    /\ watcher \in [Watchers ->
          {Off, Resting} \cup [at : {"commit"}, listed : [Jobs -> Phases],
                               seen : [Jobs -> Statuses]]]
    /\ leaving \subseteq Dispatchers \cup Watchers
    /\ outdated \subseteq Dispatchers \cup Watchers
    /\ given \in 0..MaxCommands
    /\ stopped \in BOOLEAN /\ calm \in BOOLEAN

\* One process of a kind is there; which of them does not matter.
OneOf(pool) == [p \in pool |-> IF p = CHOOSE q \in pool : TRUE THEN Resting ELSE Off]

Init ==
    /\ status \in [Jobs -> {"QUEUED", "HELD"}]
    /\ k8s = [j \in Jobs |-> "none"]
    /\ replicas = [c \in Components |-> 1]
    /\ dispatcher = OneOf(Dispatchers)
    /\ watcher = OneOf(Watchers)
    /\ leaving = {} /\ outdated = {}
    /\ script = <<>> /\ given = 0
    /\ stopped = FALSE /\ calm = TRUE

---------------------------------------------------------------------------
(* Pods of the two Deployments.                                              *)

Running(d) == dispatcher[d].at # "off"
Watching(w) == watcher[w].at # "off"
Up == {d \in Dispatchers : Running(d)} \cup {w \in Watchers : Watching(w)}
Current(pool) == (Up \cap pool) \ (leaving \cup outdated)

\* A new Pod is made as long as too few of the current template are there.
Wanted(pool, c) == Cardinality(Current(pool)) < replicas[c]

\* A process begins; the Dispatcher queues what an earlier one left behind.
DispatcherBegins(d) ==
    /\ ~Running(d)
    /\ Wanted(Dispatchers, "dispatcher")
    /\ dispatcher' = [dispatcher EXCEPT ![d] = Resting]
    /\ status' = [j \in Jobs |-> IF status[j] = "DISPATCHING" THEN "QUEUED" ELSE status[j]]
    /\ calm' = (calm /\ Up \cap Dispatchers = {})
    /\ UNCHANGED <<k8s, replicas, watcher, leaving, outdated, script, given, stopped>>

WatcherBegins(w) ==
    /\ ~Watching(w)
    /\ Wanted(Watchers, "watcher")
    /\ watcher' = [watcher EXCEPT ![w] = Resting]
    /\ calm' = (calm /\ Up \cap Watchers = {})
    /\ UNCHANGED <<rows, replicas, dispatcher, leaving, outdated, script, given, stopped>>

\* A process is told to leave when the Deployment has shrunk, or when it is
\* outdated and its successor is there.
Dismissed(p, pool, c) ==
    /\ p \in (Up \cap pool) \ leaving
    /\ replicas[c] = 0 \/ (p \in outdated /\ Current(pool) # {})

Terminate(p) ==
    /\ Dismissed(p, Dispatchers, "dispatcher") \/ Dismissed(p, Watchers, "watcher")
    /\ leaving' = leaving \cup {p}
    /\ UNCHANGED <<rows, replicas, dispatcher, watcher, outdated, operator>>

SlipLeave(p) ==                         \* the process ends at once
    /\ p \in leaving
    /\ \/ /\ p \in Dispatchers /\ Running(p)
          /\ dispatcher' = [dispatcher EXCEPT ![p] = Off]
          /\ UNCHANGED watcher
       \/ /\ p \in Watchers /\ Watching(p)
          /\ watcher' = [watcher EXCEPT ![p] = Off]
          /\ UNCHANGED dispatcher
    /\ leaving' = leaving \ {p}
    /\ outdated' = outdated \ {p}
    /\ UNCHANGED <<rows, replicas, operator>>

\* It ends between two dispatches, or between two cycles.
Leave(p) ==
    /\ p \in leaving
    /\ \/ /\ p \in Dispatchers /\ dispatcher[p] = Resting
          /\ dispatcher' = [dispatcher EXCEPT ![p] = Off]
          /\ UNCHANGED watcher
       \/ /\ p \in Watchers /\ watcher[p] = Resting
          /\ watcher' = [watcher EXCEPT ![p] = Off]
          /\ UNCHANGED dispatcher
    /\ leaving' = leaving \ {p}
    /\ outdated' = outdated \ {p}
    /\ UNCHANGED <<rows, replicas, operator>>

---------------------------------------------------------------------------
(* The Dispatcher: compare-and-set, create, compare-and-set.                 *)

Dispatch(d, j) ==
    /\ dispatcher[d] = Resting /\ d \notin leaving
    /\ status[j] = "QUEUED"
    /\ status' = [status EXCEPT ![j] = "DISPATCHING"]
    /\ dispatcher' = [dispatcher EXCEPT ![d] = [at |-> "create", job |-> j]]
    /\ UNCHANGED <<k8s, replicas, watcher, leaving, outdated, operator>>

\* The name of an existing Job is refused, which is a permanent error.
CreateK8sJob(d) ==
    /\ dispatcher[d].at = "create"
    /\ LET j == dispatcher[d].job
           at(stage) == dispatcher' = [dispatcher EXCEPT ![d].at = stage]
       IN  \/ k8s[j] = "none" /\ k8s' = [k8s EXCEPT ![j] = "pending"] /\ at("mark")
           \/ k8s[j] # "none" /\ UNCHANGED k8s /\ at("fail")
    /\ UNCHANGED <<status, replicas, watcher, leaving, outdated, operator>>

\* Only a row that is still DISPATCHING takes the outcome.
Close(d) ==
    /\ dispatcher[d].at \in {"mark", "fail"}
    /\ LET j == dispatcher[d].job
           outcome == IF dispatcher[d].at = "mark" THEN "DISPATCHED" ELSE "FAILED"
       IN  status' = [status EXCEPT ![j] = IF @ = "DISPATCHING" THEN outcome ELSE @]
    /\ dispatcher' = [dispatcher EXCEPT ![d] = Resting]
    /\ UNCHANGED <<k8s, replicas, watcher, leaving, outdated, operator>>

---------------------------------------------------------------------------
(* The Watcher: read the cluster and the rows, then commit.                  *)

Observed(phase) ==
    CASE phase = "ready"    -> "RUNNING"
      [] phase = "complete" -> "SUCCEEDED"
      [] OTHER              -> "none"

Look(w) ==
    /\ watcher[w] = Resting /\ w \notin leaving
    /\ watcher' = [watcher EXCEPT ![w] = [at |-> "commit", listed |-> k8s, seen |-> status]]
    /\ UNCHANGED <<rows, replicas, dispatcher, leaving, outdated, operator>>

SlipVerdict(listed, seen, now) ==       \* only a row that was seen to run takes an outcome
    IF listed # "none"
    THEN IF \/ seen = "CANCELLED"
            \/ Observed(listed) = "none"
            \/ Observed(listed) # "RUNNING" /\ seen # "RUNNING"
         THEN now ELSE Observed(listed)
    ELSE IF now \in {"RUNNING", "DISPATCHED"} THEN "FAILED" ELSE now

SlipEager(listed, seen, now) ==         \* a Job that shows nothing yet counts
    IF listed = "none" \/ seen = "CANCELLED" THEN now ELSE Observed(listed)

\* What a cycle makes of a row: nothing, the status of its Job, or a failure
\* because a row in flight has no Job.
Verdict(listed, seen, now) ==
    IF listed # "none"
    THEN IF \/ seen = "CANCELLED"
            \/ Observed(listed) = "none"
            \/ Observed(listed) = seen
            \/ seen \in {"SUCCEEDED", "FAILED"} /\ Observed(listed) = "RUNNING"
         THEN now ELSE Observed(listed)
    ELSE IF \/ now = "RUNNING"
            \/ now = "DISPATCHED" /\ seen = "DISPATCHED"   \* past the grace period
         THEN "FAILED" ELSE now

Commit(w) ==
    /\ watcher[w].at = "commit"
    /\ status' = [j \in Jobs |-> Verdict(watcher[w].listed[j], watcher[w].seen[j], status[j])]
    /\ k8s' = [j \in Jobs |-> IF watcher[w].listed[j] # "none" /\ watcher[w].seen[j] = "CANCELLED"
                                THEN "none" ELSE k8s[j]]
    /\ watcher' = [watcher EXCEPT ![w] = Resting]
    /\ UNCHANGED <<replicas, dispatcher, leaving, outdated, operator>>

---------------------------------------------------------------------------
(* The cluster runs the Jobs; users hold and release through the Submit API. *)

JobMoves(j) ==
    /\ \/ k8s[j] = "pending" /\ k8s' = [k8s EXCEPT ![j] = "ready"]
       \/ k8s[j] = "ready" /\ k8s' = [k8s EXCEPT ![j] = "complete"]
    /\ UNCHANGED <<status, replicas, pods, operator>>

UserMoves(j) ==
    /\ replicas["submit-api"] = 1
    /\ \/ status[j] = "QUEUED" /\ status' = [status EXCEPT ![j] = "HELD"]
       \/ status[j] = "HELD" /\ status' = [status EXCEPT ![j] = "QUEUED"]
    /\ UNCHANGED <<k8s, replicas, pods, operator>>

---------------------------------------------------------------------------
(* cjobctl: a command is a script of requests, each an action of its own.    *)

Scale(c, n) == [do |-> "scale", of |-> c, to |-> n]
Rewrite(from, to) == [do |-> "rewrite", of |-> from, to |-> to]

ScriptOfStop ==
    << Scale("submit-api", 0), Scale("dispatcher", 0), Scale("watcher", 0),
       Rewrite("DISPATCHING", "QUEUED"), Rewrite("DISPATCHED", "QUEUED"),
       Rewrite("RUNNING", "FAILED"), [do |-> "list"] >>

ScriptOfStart ==
    << Scale("dispatcher", 1), Scale("watcher", 1), Scale("submit-api", 1) >>

Does(what) == script # <<>> /\ Head(script).do = what

Gives(text) ==
    /\ script = <<>>
    /\ given < MaxCommands
    /\ given' = given + 1
    /\ script' = text

StopSystem ==
    /\ Gives(ScriptOfStop)
    /\ stopped' = FALSE
    /\ UNCHANGED <<rows, replicas, pods, calm>>

StartSystem ==
    /\ Gives(ScriptOfStart)
    /\ stopped' = FALSE
    /\ UNCHANGED <<rows, replicas, pods, calm>>

\* A patch of spec.replicas; what runs does not change yet.
ScaleDeployment ==
    /\ Does("scale")
    /\ replicas' = [replicas EXCEPT ![Head(script).of] = Head(script).to]
    /\ script' = Tail(script)
    /\ UNCHANGED <<rows, pods, given, stopped, calm>>

\* The three UPDATEs of a stop, each on its own.  From the first one on the
\* stop is calm if no process is left.
RewriteRows ==
    /\ Does("rewrite")
    /\ LET from == Head(script).of
       IN  /\ status' = [j \in Jobs |-> IF status[j] = from THEN Head(script).to ELSE status[j]]
           /\ calm' = (Up = {} /\ (calm \/ from = "DISPATCHING"))
    /\ script' = Tail(script)
    /\ UNCHANGED <<k8s, replicas, pods, given, stopped>>

SlipListK8sJobs ==                      \* only Jobs that still run are listed
    /\ Does("list")
    /\ script' = << [do |-> "delete", jobs |-> {j \in Jobs : k8s[j] \in {"pending", "ready"}}] >>
    /\ UNCHANGED <<rows, replicas, pods, given, stopped, calm>>

\* All Jobs of the system, in every namespace, are listed once.
ListK8sJobs ==
    /\ Does("list")
    /\ script' = << [do |-> "delete", jobs |-> {j \in Jobs : k8s[j] # "none"}] >>
    /\ UNCHANGED <<rows, replicas, pods, given, stopped, calm>>

\* One request for each; a Job that the API server does not delete is only a
\* warning.
DeleteK8sJob(j) ==
    /\ Does("delete") /\ j \in Head(script).jobs
    /\ \/ k8s' = [k8s EXCEPT ![j] = "none"] /\ UNCHANGED calm
       \/ k8s[j] # "none" /\ UNCHANGED k8s /\ calm' = FALSE
    /\ script' = << [Head(script) EXCEPT !.jobs = @ \ {j}] >>
    /\ UNCHANGED <<status, replicas, pods, given, stopped>>

StopEnds ==
    /\ Does("delete") /\ Head(script).jobs = {}
    /\ script' = <<>>
    /\ stopped' = TRUE
    /\ UNCHANGED <<rows, replicas, pods, given, calm>>

\* A new Pod template: every process of the component is outdated.
RestartComponent(pool) ==
    /\ Gives(<<>>)
    /\ outdated' = outdated \cup (Up \cap pool)
    /\ UNCHANGED <<rows, replicas, dispatcher, watcher, leaving, stopped, calm>>

\* jobs cancel lists its targets, asks, and writes what is still cancellable.
SelectTargets ==
    /\ \E S \in {{j} : j \in Jobs} \cup {{j \in Jobs : status[j] = s} : s \in Cancellable}
                                     \cup {Jobs} :
          LET targets == {j \in S : status[j] \in Cancellable}
          IN  targets # {} /\ Gives(<< [do |-> "cancel", jobs |-> targets] >>)
    /\ UNCHANGED <<rows, replicas, pods, stopped, calm>>

CancelTargets ==
    /\ Does("cancel")
    /\ status' = [j \in Jobs |->
                     IF j \in Head(script).jobs /\ status[j] \in Cancellable
                       THEN "CANCELLED" ELSE status[j]]
    /\ script' = <<>>
    /\ UNCHANGED <<k8s, replicas, pods, given, stopped, calm>>

\* A request fails or the operator answers no: the rest is not done.  Rows that
\* were rewritten before their Jobs are gone stay so.
Abandon ==
    /\ script # <<>>
    /\ script' = <<>>
    /\ calm' = (calm /\ ~Does("list") /\ ~Does("delete") /\ ~Does("rewrite"))
    /\ UNCHANGED <<rows, replicas, pods, given, stopped>>

---------------------------------------------------------------------------
DispatcherStep(d) ==
    DispatcherBegins(d) \/ (\E j \in Jobs : Dispatch(d, j)) \/ CreateK8sJob(d) \/ Close(d)

WatcherStep(w) == WatcherBegins(w) \/ Look(w) \/ Commit(w)

CommandStep ==
    \/ ScaleDeployment \/ RewriteRows
    \/ ListK8sJobs \/ (\E j \in Jobs : DeleteK8sJob(j)) \/ StopEnds
    \/ CancelTargets

OperatorStep ==
    \/ CommandStep
    \/ StopSystem \/ StartSystem
    \/ RestartComponent(Dispatchers) \/ RestartComponent(Watchers)
    \/ SelectTargets \/ Abandon

Next ==
    \/ \E d \in Dispatchers : DispatcherStep(d)
    \/ \E w \in Watchers : WatcherStep(w)
    \/ \E p \in Dispatchers \cup Watchers : Terminate(p) \/ Leave(p)
    \/ \E j \in Jobs : JobMoves(j) \/ UserMoves(j)
    \/ OperatorStep

\* Kubernetes keeps the Pods at their number, processes go on, Jobs end, and a
\* command that was given runs on unless it is abandoned.  Nobody has to give one.
Fairness ==
    /\ \A d \in Dispatchers : WF_vars(DispatcherStep(d))
    /\ \A w \in Watchers : WF_vars(WatcherStep(w))
    /\ WF_vars(\E p \in Dispatchers \cup Watchers : Terminate(p) \/ Leave(p))
    /\ \A j \in Jobs : WF_vars(JobMoves(j))
    /\ WF_vars(CommandStep)

Spec == Init /\ [][Next]_vars /\ Fairness

---------------------------------------------------------------------------
(* Properties.                                                               *)

\* A stop that found every process gone leaves no row in flight and no Job on
\* the cluster, until the next start.
StoppedIsQuiet ==
    stopped /\ calm => \A j \in Jobs : status[j] \notin InFlight /\ k8s[j] = "none"

\* Unless a stop was disturbed or processes overlapped, no dispatch meets a Job
\* that an earlier one created: a job reverted by a stop is dispatched anew.
DispatchMeetsNoJob ==
    calm /\ script = <<>> => \A d \in Dispatchers : dispatcher[d].at # "fail"

\* So a stop that nothing disturbed takes the Jobs of the rows it reverts with
\* it: its end is quiet, and what was reverted is dispatched as if never before.
CalmStopIsClean == StoppedIsQuiet /\ DispatchMeetsNoJob

\* A row DISPATCHING is in the hands of a process that will close it, whichever
\* processes overlap, leave or begin, and whatever cjobctl rewrites meanwhile.
DispatchingIsHeld ==
    \A j \in Jobs : status[j] = "DISPATCHING" =>
        \E d \in Dispatchers : /\ dispatcher[d].at \in {"create", "mark", "fail"}
                              /\ dispatcher[d].job = j

\* Nothing is stuck, whatever maintenance was done: a row in flight leaves it,
\* also when the Dispatcher or the Watcher that moved it was replaced or stopped
\* in between, as long as both are to be up; and what waits is dispatched, held
\* or cancelled as long as there is to be a Dispatcher.
NothingIsStuck ==
    \A j \in Jobs :
        /\ (status[j] \in InFlight
              ~> (status[j] \notin InFlight \/ replicas["dispatcher"] = 0 \/ replicas["watcher"] = 0))
        /\ (status[j] = "QUEUED"
              ~> (status[j] # "QUEUED" \/ replicas["dispatcher"] = 0))
=============================================================================
