---------------------------- MODULE Administration ----------------------------
(* What administrators change with cjobctl while the system runs: the flavor *)
(* settings in the ConfigMap (`config set`), the quotas in the ClusterQueue  *)
(* (`cluster set-quota`), the weights of namespaces (`weight`) and the label *)
(* that lets a namespace use the system (`user`).                            *)
(*                                                                           *)
(* Several administrators work at a time.  A command reads, checks, asks     *)
(* for confirmation and writes, each in a call of its own; only the          *)
(* ClusterQueue is protected by its resource version.                        *)
EXTENDS Integers, FiniteSets, FiniteSetsExt, Functions

CONSTANTS
    Keys,         \* other keys of the ConfigMap: the type, and whether it may be set
    Flavors,      \* names of flavors
    Lists,        \* RESOURCE_FLAVORS values offered: sequences over Flavors and Faulty
    Blanks,       \* may a DEFAULT_FLAVOR be given with blanks around it?
    Asks,         \* --cpu, --memory, --gpu combinations offered
    Tables,       \* node totals by flavor that the Watcher may find
    Fallback,     \* totals assumed when there is no node at all
    Width,        \* how many values an integer of memory_to_mib has
    InitialQuota, \* nominalQuota by flavor and resource
    Namespaces,   \* namespaces of users
    Admins,       \* who runs cjobctl
    MaxCommands,  \* bound: commands
    MaxSyncs      \* bound: changes of the node totals

Resources == {"cpu", "memory", "gpu"}
Faulty == "faulty"              \* a definition that breaks the schema

\* How a value can look, and what each type takes.
Kinds == {"integer", "float", "boolean", "text"}
Parses == [integer |-> {"integer"}, float |-> {"integer", "float"},
           boolean |-> {"boolean"}, string |-> Kinds]

ASSUME AdministrationAssumption ==
    /\ IsFiniteSet(Flavors) /\ IsFiniteSet(Namespaces) /\ Namespaces # {}
    /\ \A k \in DOMAIN Keys : Keys[k].type \in DOMAIN Parses /\ Keys[k].updatable \in BOOLEAN
    /\ Faulty \notin Flavors
    /\ \A l \in Lists : Range(l) \subseteq Flavors \cup {Faulty}
    /\ \A k \in Asks : DOMAIN k # {} /\ DOMAIN k \subseteq Resources /\ Range(k) \subseteq Nat
    /\ \A t \in Tables : t \in [Flavors -> [Resources -> Nat]]
    /\ Fallback \in [Resources -> Nat]
    /\ Width \in Nat \ {0} /\ Blanks \in BOOLEAN
    /\ DOMAIN InitialQuota \subseteq Flavors
    /\ InitialQuota \in [DOMAIN InitialQuota -> [Resources -> Nat]]
    /\ MaxCommands \in Nat /\ MaxSyncs \in Nat

VARIABLES
    config,     \* the ConfigMap: RESOURCE_FLAVORS, DEFAULT_FLAVOR, the
                \* other keys
    queue,      \* the ClusterQueue: its version, coveredResources, quotas
    nodes,      \* node_resources, summed by flavor
    syncs,      \* how often the node totals changed
    weight,     \* by namespace: the weight in namespace_weights
    enabled,    \* namespaces with the label
    admin,      \* by administrator: the command that runs
    commands,   \* how many commands were given
    muted       \* history: a namespace was given weight 0 or disabled by hand,
                \* or an exclusive command was cut short

vars == <<config, queue, nodes, syncs, weight, enabled, admin, commands, muted>>
cluster  == <<queue, nodes, syncs>>
shares   == <<weight, enabled, muted>>

Unset == [name |-> "unset", blank |-> FALSE]
Defaults == [name : Flavors, blank : {Blanks, FALSE}]
NoRow == 1                      \* the weight of a namespace without a row
Rows == {NoRow, 0, 2}
Idle == [stage |-> "idle"]

\* What the variables hold: quotas with or without a GPU, the ClusterQueue, the
\* ConfigMap, and a command of each kind between two of its calls.
Amounts == [Resources -> Nat] \cup [Resources \ {"gpu"} -> Nat]
Queues  == [rev : Nat, covered : {Resources, Resources \ {"gpu"}},
            quota : [DOMAIN InitialQuota -> Amounts]]
ConfigMaps ==
    {c \in [flavors : Lists, default : Defaults \cup {Unset},
            other : [DOMAIN Keys -> Kinds]] :
        \A k \in DOMAIN Keys : c.other[k] \in Parses[Keys[k].type]}

\* The first two keep the value of the other setting that they compared with.
FlavorCommands  == [stage : {"flavors"}, value : Lists, seen : Defaults \cup {Unset}]
DefaultCommands == [stage : {"default"}, value : Defaults, seen : Lists]
KeyCommands ==
    {c \in [stage : {"key"}, key : DOMAIN Keys, value : Kinds] :
        c.value \in Parses[Keys[c.key].type]}
QuotaCommands ==
    [stage : {"totals", "cluster", "replace"}, flavor : DOMAIN InitialQuota, ask : Asks,
     force : BOOLEAN, doc : Queues, seen : 0..MaxSyncs]
ExclusiveCommands ==
    {c \in [stage : {"exclusive"}, ns : Namespaces, todo : SUBSET Namespaces] : c.ns \notin c.todo}
ResetCommands == {[stage |-> "reset"]}
LabelCommands == [stage : {"label"}, on : BOOLEAN, todo : SUBSET Namespaces]

Commands ==
    {Idle} \cup FlavorCommands \cup DefaultCommands \cup KeyCommands \cup QuotaCommands
        \cup ExclusiveCommands \cup ResetCommands \cup LabelCommands

TypeOK ==
    /\ config \in ConfigMaps
    /\ queue \in Queues
    /\ nodes \in Tables /\ syncs \in 0..MaxSyncs
    /\ weight \in [Namespaces -> Rows] /\ enabled \subseteq Namespaces
    /\ admin \in [Admins -> Commands]
    /\ commands \in 0..MaxCommands
    /\ muted \in BOOLEAN

\* The schema of RESOURCE_FLAVORS: at least one definition, none faulty, no
\* name twice.  The names it defines, or none when it is refused.
Names(list) ==
    IF Faulty \in Range(list) \/ ~IsInjective(list) THEN {} ELSE Range(list)

Init ==
    /\ config \in [flavors : Lists, default : Defaults \cup {Unset},
                   other : {[k \in DOMAIN Keys |-> CHOOSE v \in Parses[Keys[k].type] : TRUE]}]
    /\ queue = [rev |-> 0, covered |-> Resources, quota |-> InitialQuota]
    /\ nodes \in Tables /\ syncs = 0
    /\ weight = [n \in Namespaces |-> NoRow] /\ enabled \in (SUBSET Namespaces) \ {{}}
    /\ admin = [a \in Admins |-> Idle] /\ commands = 0
    /\ muted = FALSE

---------------------------------------------------------------------------
(* Commands.                                                                 *)

At(a, stage) == admin[a].stage = stage
Becomes(a, command) == admin' = [admin EXCEPT ![a] = command]
Ends(a) == Becomes(a, Idle)

Begins(a) ==
    /\ admin[a] = Idle
    /\ commands < MaxCommands
    /\ commands' = commands + 1

\* A call fails, the answer is no, or the command is interrupted.
GiveUp(a) ==
    /\ admin[a] # Idle
    /\ Ends(a)
    /\ muted' = (muted \/ At(a, "exclusive"))
    /\ UNCHANGED <<config, cluster, weight, enabled, commands>>

---------------------------------------------------------------------------
(* config set.  The ConfigMap is read once; the answer to the prompt may     *)
(* take long; and the patch names one key and no version.                    *)

SlipSetFlavors(a) ==                    \* the other key is not looked at
    /\ Begins(a)
    /\ \E list \in Lists :
          /\ Names(list) # {}
          /\ Becomes(a, [stage |-> "flavors", value |-> list, seen |-> config.default])
    /\ UNCHANGED <<config, cluster, shares>>

\* Without a DEFAULT_FLAVOR the comparison is left out.
SetFlavors(a) ==
    /\ Begins(a)
    /\ \E list \in Lists :
          /\ Names(list) # {}
          /\ config.default = Unset \/ config.default.name \in Names(list)
          /\ Becomes(a, [stage |-> "flavors", value |-> list, seen |-> config.default])
    /\ UNCHANGED <<config, cluster, shares>>

\* So it is when RESOURCE_FLAVORS is not valid.  Blanks do not count in the
\* comparison, yet they are written.
SetDefault(a) ==
    /\ Begins(a)
    /\ \E d \in Defaults :
          /\ Names(config.flavors) = {} \/ d.name \in Names(config.flavors)
          /\ Becomes(a, [stage |-> "default", value |-> d, seen |-> config.flavors])
    /\ UNCHANGED <<config, cluster, shares>>

SlipSetKey(a) ==                        \* the type is not looked at
    /\ Begins(a)
    /\ \E k \in {x \in DOMAIN Keys : Keys[x].updatable}, v \in Kinds :
          Becomes(a, [stage |-> "key", key |-> k, value |-> v])
    /\ UNCHANGED <<config, cluster, shares>>

\* Any other key is looked up in the table of keys, and its value must parse.
SetKey(a) ==
    /\ Begins(a)
    /\ \E k \in {x \in DOMAIN Keys : Keys[x].updatable} :
          \E v \in Parses[Keys[k].type] :
              Becomes(a, [stage |-> "key", key |-> k, value |-> v])
    /\ UNCHANGED <<config, cluster, shares>>

PatchConfig(a) ==
    /\ LET value == admin[a].value
       IN  \/ At(a, "flavors") /\ config' = [config EXCEPT !.flavors = value]
           \/ At(a, "default") /\ config' = [config EXCEPT !.default = value]
           \/ At(a, "key") /\ config' = [config EXCEPT !.other[admin[a].key] = value]
    /\ Ends(a)
    /\ UNCHANGED <<cluster, shares, commands>>

---------------------------------------------------------------------------
(* cluster set-quota.                                                        *)

\* The document is kept until it is put back, with the version it had.
SetQuota(a) ==
    /\ Begins(a)
    /\ \E f \in DOMAIN queue.quota, ask \in Asks, force \in BOOLEAN :
          Becomes(a, [stage |-> "totals", flavor |-> f, ask |-> ask, force |-> force,
                      doc |-> queue, seen |-> syncs])
    /\ UNCHANGED <<config, cluster, shares>>

\* An amount of memory in MiB is computed without a check for overflow and
\* compared as a signed integer.
Signed(n) == LET m == n % Width IN IF 2 * m < Width THEN m ELSE m - Width
Amount(ask, r) == IF r = "memory" THEN Signed(ask[r]) ELSE ask[r]

Check(a, totals) ==
    LET ask == admin[a].ask
        exceeds == \E r \in DOMAIN ask : Amount(ask, r) > totals[r]
    IN  IF exceeds /\ ~admin[a].force THEN Ends(a)
        ELSE Becomes(a, [admin[a] EXCEPT !.stage = "replace"])

None(totals) == totals["cpu"] = 0 /\ totals["memory"] = 0

\* Without a node of the flavor the totals of the cluster are looked up, in a
\* query of their own; without any node there are fixed ones.
FlavorTotals(a) ==
    /\ At(a, "totals")
    /\ LET totals == nodes[admin[a].flavor]
       IN  IF None(totals) THEN Becomes(a, [admin[a] EXCEPT !.stage = "cluster"])
           ELSE Check(a, totals)
    /\ UNCHANGED <<config, cluster, shares, commands>>

ClusterTotals(a) ==
    /\ At(a, "cluster")
    /\ LET totals == [r \in Resources |-> MapThenSumSet(LAMBDA f : nodes[f][r], Flavors)]
       IN  Check(a, IF None(totals) THEN Fallback ELSE totals)
    /\ UNCHANGED <<config, cluster, shares, commands>>

\* --gpu 0 takes the entry away, and the resource from coveredResources though
\* other flavors may declare it; --gpu adds what is missing.
WithAsk(old, ask) ==
    LET asked == {"gpu"} \cap DOMAIN ask
        kept == DOMAIN old \ asked
        dom == IF asked # {} /\ ask["gpu"] > 0 THEN kept \cup asked ELSE kept
    IN  [r \in dom |-> IF r \in DOMAIN ask THEN ask[r] ELSE old[r]]

Covered(old, covered, ask) ==
    IF "gpu" \notin DOMAIN ask THEN covered
    ELSE IF ask["gpu"] = 0 THEN covered \ {"gpu"}
    ELSE IF "gpu" \notin DOMAIN old THEN covered \cup {"gpu"}
    ELSE covered

Edited(a) ==
    LET c == admin[a]
        old == c.doc.quota[c.flavor]
    IN  [rev |-> queue.rev + 1,
         covered |-> Covered(old, c.doc.covered, c.ask),
         quota |-> [c.doc.quota EXCEPT ![c.flavor] = WithAsk(old, c.ask)]]

SlipReplaceQueue(a) ==                  \* whatever the version
    /\ At(a, "replace")
    /\ queue' = Edited(a)
    /\ Ends(a)
    /\ UNCHANGED <<config, nodes, syncs, shares, commands>>

ReplaceQueue(a) ==
    /\ At(a, "replace")
    /\ queue' = IF admin[a].doc.rev = queue.rev THEN Edited(a) ELSE queue
    /\ Ends(a)
    /\ UNCHANGED <<config, nodes, syncs, shares, commands>>

SyncNodes ==
    /\ syncs < MaxSyncs
    /\ syncs' = syncs + 1
    /\ nodes' \in Tables \ {nodes}
    /\ UNCHANGED <<config, queue, shares, admin, commands>>

---------------------------------------------------------------------------
(* weight and user.                                                          *)

SetWeight(a) ==
    /\ Begins(a)
    /\ \E n \in Namespaces, w \in {0, 2} :
          /\ weight' = [weight EXCEPT ![n] = w]
          /\ muted' = (muted \/ w = 0)
    /\ UNCHANGED <<config, cluster, enabled, admin>>

ResetWeight(a) ==
    /\ Begins(a)
    /\ \E n \in Namespaces : weight' = [weight EXCEPT ![n] = NoRow]
    /\ UNCHANGED <<config, cluster, enabled, admin, muted>>

ResetAllWeights(a) ==
    /\ Begins(a)
    /\ Becomes(a, [stage |-> "reset"])
    /\ UNCHANGED <<config, cluster, shares>>

DeleteWeights(a) ==
    /\ At(a, "reset")
    /\ weight' = [n \in Namespaces |-> NoRow]
    /\ Ends(a)
    /\ UNCHANGED <<config, cluster, enabled, muted, commands>>

\* The namespaces with the label, as the API server lists them.
UserNamespaces == enabled

\* The namespaces are listed once; each other one gets weight 0, and the row of
\* the one that is to have the cluster goes last.  No transaction holds these
\* statements together.
Exclusive(a) ==
    /\ Begins(a)
    /\ \E n \in UserNamespaces :
          Becomes(a, [stage |-> "exclusive", ns |-> n, todo |-> UserNamespaces \ {n}])
    /\ UNCHANGED <<config, cluster, shares>>

MuteNext(a) ==
    /\ At(a, "exclusive")
    /\ \E n \in admin[a].todo :
          /\ weight' = [weight EXCEPT ![n] = 0]
          /\ Becomes(a, [admin[a] EXCEPT !.todo = @ \ {n}])
    /\ UNCHANGED <<config, cluster, enabled, muted, commands>>

SlipUnmute(a) ==                        \* the row of the namespace stays
    /\ At(a, "exclusive") /\ admin[a].todo = {}
    /\ Ends(a)
    /\ UNCHANGED <<config, cluster, weight, enabled, muted, commands>>

Unmute(a) ==
    /\ At(a, "exclusive") /\ admin[a].todo = {}
    /\ weight' = [weight EXCEPT ![admin[a].ns] = NoRow]
    /\ Ends(a)
    /\ UNCHANGED <<config, cluster, enabled, muted, commands>>

\* All namespaces named are checked before the first label is set.
SetLabels(a) ==
    /\ Begins(a)
    /\ \E S \in (SUBSET Namespaces) \ {{}}, on \in BOOLEAN :
          Becomes(a, [stage |-> "label", todo |-> S, on |-> on])
    /\ UNCHANGED <<config, cluster, shares>>

PatchLabel(a) ==
    /\ At(a, "label")
    /\ \E n \in admin[a].todo :
          LET rest == admin[a].todo \ {n}
          IN  /\ enabled' = IF admin[a].on THEN enabled \cup {n} ELSE enabled \ {n}
              /\ IF rest = {} THEN Ends(a) ELSE Becomes(a, [admin[a] EXCEPT !.todo = rest])
    /\ muted' = (muted \/ ~admin[a].on)
    /\ UNCHANGED <<config, cluster, weight, commands>>

---------------------------------------------------------------------------
ConfigCommand(a) == SetFlavors(a) \/ SetDefault(a) \/ SetKey(a) \/ PatchConfig(a)
ClusterCommand(a) == SetQuota(a) \/ FlavorTotals(a) \/ ClusterTotals(a) \/ ReplaceQueue(a)
WeightCommand(a) ==
    \/ SetWeight(a) \/ ResetWeight(a) \/ ResetAllWeights(a) \/ DeleteWeights(a)
    \/ Exclusive(a) \/ MuteNext(a) \/ Unmute(a)
UserCommand(a) == SetLabels(a) \/ PatchLabel(a)

Command(a) ==
    ConfigCommand(a) \/ ClusterCommand(a) \/ WeightCommand(a) \/ UserCommand(a) \/ GiveUp(a)

Next == SyncNodes \/ \E a \in Admins : Command(a)

Spec == Init /\ [][Next]_vars

---------------------------------------------------------------------------
(* Properties.                                                               *)

\* The default flavor is one of the flavors (blanks around it aside, as they are
\* in the comparison).  Settings that are at odds were so before, or come from a
\* command that compared with a value which another administrator has replaced
\* since: nothing but that race makes them so, whichever key is set when, also
\* after one of them was missing or broken and is repaired.
AtOdds ==
    /\ Names(config.flavors) # {}
    /\ config.default # Unset
    /\ config.default.name \notin Names(config.flavors)
Outdated(a) ==
    \/ At(a, "flavors") /\ admin[a].seen # config.default
    \/ At(a, "default") /\ admin[a].seen # config.flavors
ConfigAgrees ==
    [][AtOdds' => \/ config'.flavors = config.flavors /\ config'.default = config.default
                  \/ \E a \in Admins : Outdated(a) /\ admin'[a] = Idle]_vars

\* A set-quota changes what it names and nothing else, compared with the queue
\* as it then is, whatever other administrators did since it was read; and
\* without --force no amount it asks for is, as it is converted for the comparison,
\* above what the nodes of the flavor have, if it has nodes and they have not
\* changed since the command began.
Applies(a) == At(a, "replace") /\ queue'.rev # queue.rev /\ admin'[a] = Idle
QuotaAsAsked ==
    [][\A a \in Admins : Applies(a) =>
        LET f == admin[a].flavor
            ask == admin[a].ask
        IN  /\ \A g \in DOMAIN queue.quota \ {f} : queue'.quota[g] = queue.quota[g]
            /\ \A r \in DOMAIN queue.quota[f] \ DOMAIN ask :
                  r \in DOMAIN queue'.quota[f] /\ queue'.quota[f][r] = queue.quota[f][r]
            /\ ~admin[a].force /\ admin[a].seen = syncs /\ ~None(nodes[f])
                 => \A r \in DOMAIN ask : Amount(ask, r) <= nodes[f][r]]_vars

\* However the exclusive commands of several administrators overlap, the last
\* to end leaves a namespace whose jobs are dispatched, unless it was cut short
\* or somebody silenced a namespace by hand.
SomeoneIsServed ==
    (\A a \in Admins : ~At(a, "exclusive")) /\ ~muted => \E n \in enabled : weight[n] # 0
=============================================================================
