---------------------------- MODULE DispatchCycle ----------------------------
(***************************************************************************)
(* Which waiting jobs the Dispatcher lets through in one cycle, and what   *)
(* becomes of them on the cluster over many cycles.                        *)
(*                                                                         *)
(* A cycle fetches candidates in order and passes them through three       *)
(* filters, each of which reads its tables anew:                           *)
(*   gap filling       while a job of a (namespace, flavor) is stalled,    *)
(*                     only jobs that end before the first running one     *)
(*   ResourceQuota     what the namespace has left, as last synchronised   *)
(*   node capacity     a trial placement of every pod on the known nodes   *)
(* The head of what is left is dispatched one by one.                      *)
(*                                                                         *)
(* JobLifecycle has the steps of a single dispatch and their failures;     *)
(* here a dispatch is one step, and the rows carry what the filters read:  *)
(* requests, time limits, waiting times, node names.  Time is counted in   *)
(* ticks.  Every program and controller acts within a tick (see Tick).     *)
(***************************************************************************)
EXTENDS Naturals, SequencesExt

CONSTANTS
    Jobs,            \* job numbers; a number is used again when its row is gone
    Workload,        \* what each job asks for: ns, flavor, sweep, pods
                     \* (parallelism), tasks (completions), ask (per pod),
                     \* limit (time_limit)
    Nodes,           \* nodes of the cluster, numbered in the order of their names
    NodeFlavor, Capacity,
    Resources,       \* contains "cpu"
    NominalQuota,    \* flavor -> resources, for the flavors of flavor_quotas
    HardQuota,       \* namespace -> resources and "count", for the namespaces
                     \* that have a ResourceQuota
    DispatchBudget,  \* DISPATCH_BUDGET_PER_NAMESPACE
    BatchSize,       \* DISPATCH_BATCH_SIZE
    FetchLimit,      \* DISPATCH_BATCH_SIZE * DISPATCH_FETCH_MULTIPLIER
    RoundSize,       \* DISPATCH_ROUND_SIZE
    GapFilling,      \* GAP_FILLING_ENABLED
    BinPacking,      \* NODE_BIN_PACKING_ENABLED
    StallThreshold,  \* GAP_FILLING_STALL_THRESHOLD_SEC, in ticks
    DispatchTimeout, \* WATCHER_DISPATCH_TIMEOUT_SEC, in ticks
    BackoffMax,      \* WATCHER_DISPATCH_BACKOFF_MAX_SEC, in ticks
    MaxAttempts,     \* where the model stops counting requeues (bound)
    MaxOutages,      \* times a node may leave the cluster (bound)
    LookupFails,     \* whether the Watcher's list of pods may fail
    PromptStart      \* whether what fits starts before the next cycle begins

Namespaces == {Workload[j].ns : j \in Jobs}
Quantities == Resources \cup {"count"}
Nowhere    == [n \in Nodes |-> 0]
Zero       == [q \in Quantities |-> 0]

ASSUME DispatchConstantsOK ==
    /\ Jobs \subseteq Nat /\ IsFiniteSet(Jobs) /\ Nodes \subseteq Nat
    /\ IsFiniteSet(Nodes) /\ "cpu" \in Resources
    /\ \A j \in Jobs : Workload[j].ask \in [Resources -> Nat]
    /\ \A n \in Nodes : Capacity[n] \in [Resources -> Nat]
    /\ \A s \in DOMAIN HardQuota :
          DOMAIN HardQuota[s] \subseteq Quantities /\ HardQuota[s] \in [DOMAIN HardQuota[s] -> Nat]
    /\ \A j \in Jobs : {Workload[j].pods, Workload[j].tasks, Workload[j].limit} \subseteq Nat \ {0}
    /\ \A j \in Jobs : Workload[j].tasks >= Workload[j].pods
    /\ \A j \in Jobs : Workload[j].sweep \/ Workload[j].tasks = 1
    /\ StallThreshold < DispatchTimeout
    /\ DispatchTimeout \in Nat \ {0} /\ MaxAttempts \in Nat \ {0}
    /\ StallThreshold \in Nat /\ BackoffMax \in Nat /\ MaxOutages \in Nat
    /\ RoundSize \in Nat \ {0} /\ FetchLimit \in Nat /\ BatchSize \in Nat

VARIABLES
    status,     \* status[j]: "none" without a row
    order,      \* the rows by created_at
    waited,     \* ticks since dispatched_at
    left,       \* ticks until started_at + time_limit
    backoff,    \* ticks until retry_after
    attempts,   \* unschedulable_count
    hosts,      \* node_name: the nodes the Watcher has seen a pod of j on
    pods,       \* pods[j][n]: pods of j that run on n (cluster)
    ran,        \* nodes with a pod of j, running or finished (cluster)
    ended,      \* tasks of a sweep that have ended (cluster)
    kueue,      \* Jobs not yet admitted, in the order of their creation (cluster)
    up, outages,\* nodes of the cluster, and how often one has left it
    known,      \* nodes in node_resources
    used,       \* the used_ columns of namespace_resource_quotas
    stage, cand,\* where the Dispatcher is in its cycle, and its candidates
    passed      \* a cycle was completed since the last tick

rows    == <<status, order, waited, left, backoff, attempts, hosts>>
cluster == <<pods, ran, ended, kueue, up, outages>>
tables  == <<known, used>>
cycle   == <<stage, cand, passed>>
vars    == <<rows, cluster, tables, cycle>>

Init ==
    /\ status = [j \in Jobs |-> "none"]
    /\ order = <<>>
    /\ waited = [j \in Jobs |-> 0]
    /\ left = [j \in Jobs |-> 0]
    /\ backoff = [j \in Jobs |-> 0]
    /\ attempts = [j \in Jobs |-> 0]
    /\ hosts = [j \in Jobs |-> {}]
    /\ pods = [j \in Jobs |-> Nowhere]
    /\ ran = [j \in Jobs |-> {}]
    /\ ended = [j \in Jobs |-> 0]
    /\ kueue = <<>>
    /\ up = Nodes /\ outages = 0
    /\ known = {}
    /\ used = [s \in DOMAIN HardQuota |-> Zero]
    /\ stage = "idle" /\ cand = <<>> /\ passed = FALSE

-----------------------------------------------------------------------------
(***************************************************************************)
(* Quantities.                                                             *)
(***************************************************************************)
LeastOf(S)     == CHOOSE x \in S : \A y \in S : x <= y
Monus(a, b)    == IF a > b THEN a - b ELSE 0
Fits(a, room)  == \A q \in DOMAIN a : a[q] <= room[q]
Less(room, a)  == [q \in DOMAIN room |-> Monus(room[q], a[q])]
Plus(a, b)     == [q \in DOMAIN a |-> a[q] + b[q]]

Key(j)    == <<Workload[j].ns, Workload[j].flavor>>
\* A sweep asks for all its parallel pods at once.
Demand(j) == [r \in Resources |-> Workload[j].pods * Workload[j].ask[r]]
\* The quota counts one Kubernetes Job per job, sweep or not.
Charge(j) == [q \in Quantities |-> IF q = "count" THEN 1 ELSE Demand(j)[q]]

With(s)     == {j \in Jobs : status[j] = s}
InFlight    == With("DISPATCHED")
Active(k)   == {j \in With("DISPATCHED") \cup With("RUNNING") : Key(j) = k}

-----------------------------------------------------------------------------
(***************************************************************************)
(* fetch_dispatchable_jobs, but for the order between namespaces of one    *)
(* round (share of consumption by weight), which prio stands for; every    *)
(* weight is positive.                                                     *)
(***************************************************************************)
Waiting == {j \in With("QUEUED") : backoff[j] = 0}

PlaceIn(seq, j) == CHOOSE i \in DOMAIN seq : seq[i] = j
Without(j, seq) == IF j \in Range(seq) THEN RemoveAt(seq, PlaceIn(seq, j)) ELSE seq
Place(j)    == PlaceIn(order, j)
\* Slip: rows are numbered by job_id instead of created_at.
SlipAhead(j, S) == {i \in S : i <= j}
Ahead(j, S) == {i \in S : Place(i) <= Place(j)}
RowNumber(j)       == Cardinality({i \in Ahead(j, Waiting) : Workload[i].ns = Workload[j].ns})
FlavorRowNumber(j) == Cardinality({i \in Ahead(j, Waiting) : Key(i) = Key(j)})

Eligible == {j \in Waiting :
                FlavorRowNumber(j) + Cardinality(Active(Key(j))) <= DispatchBudget}

\* Rounds first, then namespaces by their share.  The query orders by nothing
\* else: rows of one namespace in one round come in any order.
RoundOf(j) == (RowNumber(j) - 1) \div RoundSize
Precedes(i, j, prio) ==
    \/ RoundOf(i) < RoundOf(j)
    \/ RoundOf(i) = RoundOf(j) /\ prio[Workload[i].ns] < prio[Workload[j].ns]
Orders(prio) ==
    {seq \in SetToSeqs(Eligible) :
        \A a, b \in DOMAIN seq : a < b => ~Precedes(seq[b], seq[a], prio)}

First(n, seq) == SubSeq(seq, 1, LeastOf({n, Len(seq)}))

-----------------------------------------------------------------------------
(***************************************************************************)
(* Gap filling.                                                            *)
(***************************************************************************)
\* Slip: a job in its backoff is no longer taken to be stalled.
SlipStalled == {j \in With("DISPATCHED") : waited[j] >= StallThreshold}
\* Slip: a job that waits on the cluster is not taken to be stalled.
SlipStalledInQueue == {j \in With("QUEUED") : attempts[j] > 0 /\ backoff[j] > 0}
\* Two kinds of stalled jobs: waiting on the cluster for too long, or requeued
\* for that reason and in its backoff.
Stalled == {j \in With("DISPATCHED") : waited[j] >= StallThreshold}
           \cup {j \in With("QUEUED") : attempts[j] > 0 /\ backoff[j] > 0}
StalledKeys == {Key(j) : j \in Stalled}

Running(k) == {j \in With("RUNNING") : Key(j) = k}
\* estimate_shortest_remaining: no bound when nothing of the key runs.
EndsInTime(j) ==
    \A i \in Running(Key(j)) : Workload[j].limit <= left[i]

\* estimate_available_cluster_resources: running jobs alone are subtracted.
Available == [f \in DOMAIN NominalQuota |-> [r \in Resources |->
    Monus(NominalQuota[f][r],
          SumFunction([j \in {i \in With("RUNNING") : Workload[i].flavor = f} |-> Demand(j)[r]]))]]

\* The order in which the candidates are looked at: those of a key without a
\* stalled job, then key by key, in any order of the keys.
Group(j, rank) == IF Key(j) \in StalledKeys THEN rank[Key(j)] ELSE 0
Regrouped(seq, rank) ==
    {new \in SetToSeqs(Range(seq)) : \A a, b \in DOMAIN new :
        a < b => \/ Group(new[a], rank) < Group(new[b], rank)
                 \/ /\ Group(new[a], rank) = Group(new[b], rank)
                    /\ PlaceIn(seq, new[a]) < PlaceIn(seq, new[b])}

\* One candidate; s holds what is still available.
FillGap(s, j) ==
    LET f == Workload[j].flavor IN
    IF Key(j) \notin StalledKeys THEN [free |-> s.free, kept |-> Append(s.kept, j)]
    ELSE IF ~EndsInTime(j) THEN s
    ELSE IF f \notin DOMAIN s.free THEN [free |-> s.free, kept |-> Append(s.kept, j)]
    ELSE IF ~Fits(Demand(j), s.free[f]) THEN s
    ELSE [free |-> [s.free EXCEPT ![f] = Less(@, Demand(j))], kept |-> Append(s.kept, j)]

GapRun(seq) ==
    LET run[n \in 0..Len(seq)] ==
            IF n = 0 THEN [free |-> Available, kept |-> <<>>] ELSE FillGap(run[n - 1], seq[n])
    IN  run
GapsFilled(seq) == GapRun(seq)[Len(seq)].kept

-----------------------------------------------------------------------------
(***************************************************************************)
(* The ResourceQuota filter.                                               *)
(***************************************************************************)
\* Slip: what the cycle has already let through is not counted.
SlipAfford(s, j) ==
    LET ns == Workload[j].ns IN
    IF ns \notin DOMAIN HardQuota THEN [s EXCEPT !.kept = Append(@, j)]
    ELSE IF Fits([q \in DOMAIN HardQuota[ns] |-> used[ns][q] + Charge(j)[q]], HardQuota[ns])
    THEN [s EXCEPT !.kept = Append(@, j)] ELSE s

\* One candidate; s.spent is what the cycle has let through per namespace.
Afford(s, j) ==
    LET ns == Workload[j].ns IN
    IF ns \notin DOMAIN HardQuota THEN [spent |-> s.spent, kept |-> Append(s.kept, j)]
    ELSE IF ~\A q \in DOMAIN HardQuota[ns] :
                used[ns][q] + s.spent[ns][q] + Charge(j)[q] <= HardQuota[ns][q]
         THEN s
         ELSE [spent |-> [s.spent EXCEPT ![ns] = Plus(@, Charge(j))],
               kept |-> Append(s.kept, j)]

QuotaRun(seq) ==
    LET run[n \in 0..Len(seq)] ==
            IF n = 0 THEN [spent |-> [s \in DOMAIN HardQuota |-> Zero], kept |-> <<>>]
            ELSE Afford(run[n - 1], seq[n])
    IN  run
Affordable(seq) == QuotaRun(seq)[Len(seq)].kept

-----------------------------------------------------------------------------
(***************************************************************************)
(* The node capacity filter.                                               *)
(***************************************************************************)
NodesFor(j) == {n \in known : NodeFlavor[n] = Workload[j].flavor}

\* The pods of a running job that the filter takes to be on node n: a sweep is
\* spread evenly over every node it was ever seen on.
Share(j, n) ==
    LET rank == Cardinality({m \in hosts[j] : m < n})
        size == Cardinality(hosts[j])
    IN  IF n \notin hosts[j] THEN 0
        ELSE IF ~Workload[j].sweep
             THEN IF \A m \in hosts[j] \cap NodesFor(j) : n <= m THEN 1 ELSE 0
             ELSE Workload[j].pods \div size
                  + IF rank < Workload[j].pods % size THEN 1 ELSE 0

RoomBesideRunning == [n \in known |-> [r \in Resources |->
    Monus(Capacity[n][r],
          SumFunction([j \in {i \in With("RUNNING") : n \in NodesFor(i)} |->
                          Share(j, n) * Workload[j].ask[r]]))]]

\* _find_least_loaded: the most free CPU, the first by name among equals.
LeastLoaded(S, room) ==
    CHOOSE n \in S : \A m \in S :
        room[m]["cpu"] < room[n]["cpu"] \/ (room[m]["cpu"] = room[n]["cpu"] /\ n <= m)

\* One more pod of j, unless one did not fit before.
PutPod(s, j) ==
    LET S == {n \in NodesFor(j) : Fits(Workload[j].ask, s.room[n])} IN
    IF s.full \/ S = {} THEN [room |-> s.room, full |-> TRUE]
    ELSE [room |-> [s.room EXCEPT ![LeastLoaded(S, s.room)] = Less(@, Workload[j].ask)],
          full |-> FALSE]

PodRun(room, j) ==
    LET run[n \in 0..Workload[j].pods] ==
            IF n = 0 THEN [room |-> room, full |-> FALSE] ELSE PutPod(run[n - 1], j)
    IN  run
PutPods(room, j) == PodRun(room, j)[Workload[j].pods]

\* Jobs on their way, placed by guess in the order of namespace and number;
\* a job that does not fit is placed as far as it goes.
NextInFlight(i, j) == \/ Workload[i].ns < Workload[j].ns
                      \/ Workload[i].ns = Workload[j].ns /\ i < j
Unplaced == InFlight \cup {j \in With("RUNNING") : hosts[j] = {}}
InFlightOrders ==
    {seq \in SetToSeqs(Unplaced) : \A a, b \in DOMAIN seq : a < b => NextInFlight(seq[a], seq[b])}
GuessRun(seq) ==
    LET run[n \in 0..Len(seq)] ==
            IF n = 0 THEN RoomBesideRunning ELSE PutPods(run[n - 1], seq[n]).room
    IN  run
RoomBeside(seq) == GuessRun(seq)[Len(seq)]

\* Slip: the trial placement is not kept for the candidates after it.
SlipTryNodes(s, j) ==
    IF NodesFor(j) # {} /\ PutPods(s.room, j).full THEN s
    ELSE [s EXCEPT !.kept = Append(@, j)]

\* One candidate: it needs room for all its pods.
TryNodes(s, j) ==
    LET trial == PutPods(s.room, j) IN
    IF NodesFor(j) = {} THEN [room |-> s.room, kept |-> Append(s.kept, j)]
    ELSE IF trial.full THEN s
    ELSE [room |-> trial.room, kept |-> Append(s.kept, j)]

NodeRun(seq, room) ==
    LET run[n \in 0..Len(seq)] ==
            IF n = 0 THEN [room |-> room, kept |-> <<>>] ELSE TryNodes(run[n - 1], seq[n])
    IN  run
Placeable(seq, room) == NodeRun(seq, room)[Len(seq)].kept

-----------------------------------------------------------------------------
(***************************************************************************)
(* The cluster (external).  Kueue admits in the order of creation whichever *)
(* Job fits (BestEffortFIFO); the scheduler puts pods where they fit; the  *)
(* Watcher reports a job RUNNING with its first pod and notes its nodes.   *)
(***************************************************************************)
Admitted == {j \in InFlight \cup With("RUNNING") : j \notin Range(kueue)}
Admissible(j) ==
    Workload[j].flavor \in DOMAIN NominalQuota
        => \A r \in Resources :
              Demand(j)[r] + SumFunction([i \in {h \in Admitted : Workload[h].flavor = Workload[j].flavor}
                                             |-> Demand(i)[r]])
                  <= NominalQuota[Workload[j].flavor][r]

PodCount(j) == SumFunction(pods[j])

\* What the namespace really uses: one Job per dispatched job, its pods' requests.
Usage(s) == [q \in Quantities |->
    IF q = "count" THEN Cardinality({j \in InFlight \cup With("RUNNING") : Workload[j].ns = s})
    ELSE SumFunction([j \in {i \in Jobs : Workload[i].ns = s} |-> Workload[j].ask[q] * PodCount(j)])]
Within(s, use) == s \in DOMAIN HardQuota => Fits([q \in DOMAIN HardQuota[s] |-> use[q]], HardQuota[s])

Load(n, r) == SumFunction([j \in Jobs |-> pods[j][n] * Workload[j].ask[r]])
HasRoom(j, n) ==
    /\ n \in up /\ NodeFlavor[n] = Workload[j].flavor
    /\ \A r \in Resources : Load(n, r) + Workload[j].ask[r] <= Capacity[n][r]
Pending(j) ==
    /\ j \in Admitted
    /\ PodCount(j) < LeastOf({Workload[j].pods, Workload[j].tasks - ended[j]})
    /\ LET s == Workload[j].ns
           use == Usage(s)
       IN  Within(s, [q \in Quantities |->
                         IF q = "count" THEN use[q] ELSE use[q] + Workload[j].ask[q]])

\* Kueue and the scheduler have nothing to do.
Settled ==
    /\ \A j \in Range(kueue) : ~Admissible(j)
    /\ \A j \in Jobs : Pending(j) => \A n \in Nodes : ~HasRoom(j, n)

-----------------------------------------------------------------------------
(***************************************************************************)
(* The Dispatcher.  Each stage reads what the rows and tables hold then.   *)
(***************************************************************************)
Proceed(from, to, seq) ==
    /\ stage = from /\ stage' = to
    /\ cand' = seq
    /\ UNCHANGED <<rows, cluster, tables, passed>>

Fetch ==
    /\ PromptStart => Settled
    /\ \E prio \in [Namespaces -> 1..Cardinality(Namespaces)] :
        /\ \A s, t \in Namespaces : s # t => prio[s] # prio[t]
        /\ \E seq \in Orders(prio) : Proceed("idle", "gaps", First(FetchLimit, seq))

ApplyGapFilling ==
    IF GapFilling
    THEN \E rank \in Injection(StalledKeys, 1..Cardinality(StalledKeys)) :
            \E seq \in Regrouped(cand, rank) : Proceed("gaps", "quota", GapsFilled(seq))
    ELSE Proceed("gaps", "quota", cand)

FilterByResourceQuota == Proceed("quota", "nodes", Affordable(cand))

FilterByNodeCapacity ==
    IF BinPacking /\ known # {}
    THEN \E ahead \in InFlightOrders :
            Proceed("nodes", "dispatch", First(BatchSize, Placeable(cand, RoomBeside(ahead))))
    ELSE Proceed("nodes", "dispatch", First(BatchSize, cand))

\* dispatch_one.  The API server refuses a Job over the quota: back to the queue
\* until the quota is synchronised again, without a retry used up.  (Requests
\* that cancel or hold a candidate meanwhile are in JobLifecycle; here nothing
\* else moves a waiting row.)
DispatchOne ==
    /\ stage = "dispatch" /\ cand # <<>>
    /\ cand' = Tail(cand)
    /\ LET j == Head(cand)
           s == Workload[j].ns
           refused == ~Within(s, [Usage(s) EXCEPT !["count"] = @ + 1])
       IN  IF refused
           THEN /\ backoff' = [backoff EXCEPT ![j] = 1]
                /\ UNCHANGED <<status, waited, kueue>>
           ELSE /\ status' = [status EXCEPT ![j] = "DISPATCHED"]
                /\ waited' = [waited EXCEPT ![j] = 0]
                /\ kueue' = Append(kueue, j)
                /\ UNCHANGED backoff
    /\ UNCHANGED <<order, left, attempts, hosts, pods, ran, ended, up, outages, tables,
                   stage, passed>>

EndCycle ==
    /\ stage = "dispatch" /\ cand = <<>>
    /\ stage' = "idle" /\ passed' = TRUE
    /\ UNCHANGED <<rows, cluster, tables, cand>>

-----------------------------------------------------------------------------
(***************************************************************************)
(* The users and the Watcher.                                              *)
(***************************************************************************)
Submit(j) ==
    /\ status[j] = "none"
    /\ status' = [status EXCEPT ![j] = "QUEUED"]
    /\ order' = Append(order, j)
    /\ UNCHANGED <<waited, left, backoff, attempts, hosts, cluster, tables, cycle>>

\* The backoff before it is clamped, doubled with every attempt but the first.
Doubled[n \in 0..MaxAttempts] == IF n = 0 THEN DispatchTimeout ELSE 2 * Doubled[n - 1]

\* Slip: the backoff is not clamped by its maximum.
SlipRequeue(j) ==
    LET attempt == attempts[j] + 1 IN
    /\ status[j] = "DISPATCHED" /\ waited[j] >= DispatchTimeout
    /\ status' = [status EXCEPT ![j] = "QUEUED"]
    /\ attempts' = [attempts EXCEPT ![j] = LeastOf({attempt, MaxAttempts})]
    /\ backoff' = [backoff EXCEPT ![j] = 2 * Doubled[attempt - 1]]
    /\ waited' = [waited EXCEPT ![j] = 0]
    /\ UNCHANGED <<order, left, hosts, cluster, tables, cycle>>

\* _requeue_stalled_dispatched.
Requeue(j) ==
    LET attempt == attempts[j] + 1
    IN  /\ status[j] = "DISPATCHED"
        /\ waited[j] >= DispatchTimeout
        /\ status' = [status EXCEPT ![j] = "QUEUED"]
        /\ attempts' = [attempts EXCEPT ![j] = LeastOf({attempt, MaxAttempts})]
        /\ backoff' = [backoff EXCEPT ![j] = LeastOf({Doubled[attempt - 1], BackoffMax})]
        /\ waited' = [waited EXCEPT ![j] = 0]
        /\ kueue' = Without(j, kueue)
        /\ UNCHANGED <<order, left, hosts, pods, ran, ended, up, outages, tables, cycle>>

SyncNodes ==
    /\ known # up
    /\ known' = up
    /\ UNCHANGED <<rows, cluster, used, cycle>>

SyncResourceQuota ==
    /\ used # [s \in DOMAIN HardQuota |-> Usage(s)]
    /\ used' = [s \in DOMAIN HardQuota |-> Usage(s)]
    /\ UNCHANGED <<rows, cluster, known, cycle>>

-----------------------------------------------------------------------------
(***************************************************************************)
(* The cluster's steps (external).                                         *)
(***************************************************************************)
Admit(j) ==
    /\ \E i \in DOMAIN kueue :
        /\ kueue[i] = j
        /\ \A h \in 1..(i - 1) : ~Admissible(kueue[h])
    /\ Admissible(j)
    /\ kueue' = Without(j, kueue)
    /\ UNCHANGED <<rows, pods, ran, ended, up, outages, tables, cycle>>

\* The nodes of a job's pods, finished ones included, are looked up when it
\* starts and when a task ends.
Noted(j) == hosts' \in {[hosts EXCEPT ![j] = @ \cup ran'[j]]}
                         \cup IF LookupFails THEN {hosts} ELSE {}

PodStarts(j, n) ==
    /\ Pending(j) /\ HasRoom(j, n)
    /\ pods' = [pods EXCEPT ![j][n] = @ + 1]
    /\ ran' = [ran EXCEPT ![j] = @ \cup {n}]
    /\ IF status[j] = "RUNNING" THEN UNCHANGED hosts ELSE Noted(j)
    /\ status' = [status EXCEPT ![j] = "RUNNING"]
    /\ left' = [left EXCEPT ![j] = IF status[j] = "RUNNING" THEN @ ELSE Workload[j].limit]
    /\ UNCHANGED <<order, waited, backoff, attempts, ended, kueue, up, outages, tables, cycle>>

\* A task of a sweep ends; the next one may start on another node.
PodEnds(j, n) ==
    /\ Workload[j].sweep /\ pods[j][n] > 0
    /\ pods' = [pods EXCEPT ![j][n] = @ - 1]
    /\ ended' = [ended EXCEPT ![j] = @ + 1]
    /\ UNCHANGED ran /\ Noted(j)
    /\ UNCHANGED <<status, order, waited, left, backoff, attempts,
                   kueue, up, outages, tables, cycle>>

\* The job ends, by itself or because the Watcher enforces its time limit.
JobEnds(j) ==
    /\ status[j] = "RUNNING"
    /\ left[j] < Workload[j].limit   \* it takes a tick at least
    /\ status' = [status EXCEPT ![j] = "none"]
    /\ order' = Without(j, order)
    /\ waited' = [waited EXCEPT ![j] = 0]
    /\ left' = [left EXCEPT ![j] = 0]
    /\ attempts' = [attempts EXCEPT ![j] = 0]
    /\ hosts' = [hosts EXCEPT ![j] = {}]
    /\ pods' = [pods EXCEPT ![j] = Nowhere]
    /\ ran' = [ran EXCEPT ![j] = {}]
    /\ ended' = [ended EXCEPT ![j] = 0]
    /\ UNCHANGED <<backoff, kueue, up, outages, tables, cycle>>
TimeLimit(j) == left[j] = 0 /\ JobEnds(j)

NodeLeaves(n) ==
    /\ n \in up /\ outages < MaxOutages
    /\ \A j \in Jobs : pods[j][n] = 0
    /\ up' = up \ {n} /\ outages' = outages + 1
    /\ ran' = [j \in Jobs |-> ran[j] \ {n}]
    /\ UNCHANGED <<rows, pods, ended, kueue, tables, cycle>>

NodeReturns(n) ==
    /\ n \in Nodes \ up
    /\ up' = up \cup {n}
    /\ UNCHANGED <<rows, pods, ran, ended, kueue, outages, tables, cycle>>

\* A tick is long against a cycle of any program: all that is due has happened.
Tick ==
    /\ stage = "idle" /\ passed /\ Settled
    /\ \A j \in With("RUNNING") : left[j] > 0
    /\ \A j \in With("DISPATCHED") : waited[j] < DispatchTimeout
    /\ passed' = FALSE
    /\ waited' = [j \in Jobs |-> IF status[j] = "DISPATCHED" THEN waited[j] + 1 ELSE waited[j]]
    /\ left' = [j \in Jobs |-> Monus(left[j], 1)]
    /\ backoff' = [j \in Jobs |-> Monus(backoff[j], 1)]
    /\ UNCHANGED <<status, order, attempts, hosts, cluster, tables, stage, cand>>

Next ==
    \/ Fetch \/ ApplyGapFilling \/ FilterByResourceQuota \/ FilterByNodeCapacity
    \/ DispatchOne \/ EndCycle
    \/ SyncNodes \/ SyncResourceQuota \/ Tick
    \/ \E j \in Jobs :
        \/ Submit(j) \/ Requeue(j) \/ Admit(j) \/ JobEnds(j)
        \/ \E n \in Nodes : PodStarts(j, n) \/ PodEnds(j, n)
    \/ \E n \in Nodes : NodeLeaves(n) \/ NodeReturns(n)

Spec == Init /\ [][Next]_vars

(***************************************************************************)
(* The Dispatcher and the Watcher loop for ever, Kueue and the scheduler   *)
(* do what they can, and time goes on.  No user has to submit, and a job   *)
(* need not end before its time limit.                                     *)
(***************************************************************************)
FairSpec ==
    /\ Spec
    /\ WF_vars(Fetch) /\ WF_vars(ApplyGapFilling) /\ WF_vars(FilterByResourceQuota)
    /\ WF_vars(FilterByNodeCapacity) /\ WF_vars(DispatchOne) /\ WF_vars(EndCycle)
    /\ WF_vars(SyncNodes) /\ WF_vars(SyncResourceQuota) /\ SF_vars(Tick)
    /\ \A j \in Jobs :
        /\ WF_vars(Requeue(j)) /\ WF_vars(Admit(j)) /\ WF_vars(TimeLimit(j))
        /\ \A n \in Nodes : WF_vars(PodStarts(j, n))

-----------------------------------------------------------------------------
(***************************************************************************)
(* Properties.                                                             *)
(***************************************************************************)
TypeOK ==
    /\ status \in [Jobs -> {"none", "QUEUED", "DISPATCHED", "RUNNING"}]
    /\ Range(order) = Jobs \ With("none") /\ IsInjective(order)
    /\ waited \in [Jobs -> 0..DispatchTimeout]
    /\ \A j \in Jobs : left[j] \in 0..Workload[j].limit
    /\ backoff \in [Jobs -> 0..(BackoffMax + 1)]
    /\ attempts \in [Jobs -> 0..MaxAttempts]
    /\ hosts \in [Jobs -> SUBSET Nodes]
    /\ \A j \in Jobs, n \in Nodes : pods[j][n] \in 0..Workload[j].pods
    /\ ran \in [Jobs -> SUBSET Nodes]
    /\ \A j \in Jobs : ended[j] \in 0..Workload[j].tasks
    /\ Range(kueue) \subseteq InFlight /\ IsInjective(kueue)
    /\ up \subseteq Nodes /\ known \subseteq Nodes /\ outages \in 0..MaxOutages
    /\ \A s \in DOMAIN HardQuota : used[s] \in [Quantities -> Nat]
    /\ stage \in {"idle", "gaps", "quota", "nodes", "dispatch"}
    /\ Range(cand) \subseteq Jobs \ With("none") /\ IsInjective(cand)
    /\ passed \in BOOLEAN

\* Submission order: of two rows of one namespace and flavor that a cycle lets
\* through, the later one goes first only if both are of one round: after the
\* earlier one and up to the later one there are fewer candidates of the
\* namespace than a round has rows, whatever was put back, held up or given the
\* number of an earlier job in between.  Rounds of one row leave no choice.
After(i, j) == {h \in Range(cand) : /\ Workload[h].ns = Workload[j].ns
                                    /\ Place(i) < Place(h) /\ Place(h) <= Place(j)}
KeepsOrder ==
    \A a, b \in DOMAIN cand :
        a < b /\ Key(cand[a]) = Key(cand[b])
            => Cardinality(After(cand[b], cand[a])) < RoundSize

\* The pods of some jobs, and all ways to put them on nodes.
PodsOf(S) == UNION {{<<j, i>> : i \in 1..Workload[j].pods} : j \in S}
CanPlace(S, room) ==
    \E at \in [PodsOf(S) -> Nodes] :
        /\ \A p \in PodsOf(S) : at[p] \in NodesFor(p[1])
        /\ \A n \in DOMAIN room : \A r \in Resources :
              SumFunctionOnSet([p \in PodsOf(S) |-> Workload[p[1]].ask[r]],
                               {p \in PodsOf(S) : at[p] = n}) <= room[n][r]

\* What the node filter lets through can be placed, all of it at once, beside
\* what runs as far as the rows tell (flavors without a known node aside).
BatchCanBePlaced ==
    [][FilterByNodeCapacity /\ BinPacking
        => CanPlace({j \in Range(cand') : NodesFor(j) # {}}, RoomBesideRunning)]_vars

\* What the quota filter lets through fits the synchronised quota, all of it at
\* once, and a job it holds back does not fit beside that.
Charged(ns, S) == [q \in Quantities |->
    used[ns][q] + SumFunctionOnSet([j \in Jobs |-> Charge(j)[q]], {j \in S : Workload[j].ns = ns})]
QuotaUsedWell ==
    [][FilterByResourceQuota =>
        /\ \A s \in DOMAIN HardQuota :
              (\E j \in Range(cand') : Workload[j].ns = s) => Within(s, Charged(s, Range(cand')))
        /\ \A j \in Range(cand) \ Range(cand') :
              ~Within(Workload[j].ns, Charged(Workload[j].ns, Range(cand') \cup {j}))]_vars

\* While a job waits in vain for resources, the others of its namespace and
\* flavor that run, are on their way, or have been let through to the batch will
\* not take longer than was settled before, so the resources come free at last.
\* (Not so when nothing of the key runs: then time limits do not count.)
InVain(j) == \/ status[j] = "DISPATCHED" /\ waited[j] >= StallThreshold
             \/ status[j] = "QUEUED" /\ attempts[j] > 0 /\ backoff[j] > 0
LetThrough == IF stage \in {"quota", "nodes", "dispatch"} THEN Range(cand) ELSE {}
OthersOf(j, S) == {i \in S \ {j} : Key(i) = Key(j)}
Spans(j) == {left[i] : i \in OthersOf(j, With("RUNNING"))}
            \cup {Workload[i].limit : i \in OthersOf(j, InFlight \cup LetThrough)}
HorizonShrinks ==
    [][\A j \in Jobs : GapFilling /\ InVain(j) /\ InVain(j)' /\ Running(Key(j)) # {}
        => \A x \in Spans(j)' : \E y \in Spans(j) : x <= y]_vars

\* Starvation freedom: a waiting job starts at last, whatever else is submitted.
EveryJobStarts ==
    \A j \in Jobs : status[j] = "QUEUED" ~> status[j] = "RUNNING"
=============================================================================
