--------------------------- MODULE MCDispatchCycle ---------------------------
(***************************************************************************)
(* Instances of DispatchCycle for TLC.                                     *)
(***************************************************************************)
EXTENDS DispatchCycle

OneUser(flavor, tasks, width, cpu, limit) ==
    [ns |-> 1, flavor |-> flavor, sweep |-> tasks > 1, tasks |-> tasks, pods |-> width,
     ask |-> [r \in {"cpu"} |-> cpu], limit |-> limit]

\* A job that needs a whole node, and two small ones that are submitted again
\* and again.
LargeAmongSmall == <<OneUser("a", 1, 1, 2, 1),
                     OneUser("a", 1, 1, 1, 2),
                     OneUser("a", 1, 1, 1, 1)>>
\* The same with a large job that is a sweep of two tasks at a time.
SweepAmongSmall == [LargeAmongSmall EXCEPT ![1] = OneUser("a", 2, 2, 1, 1)]
OneNode    == [n \in {1} |-> [r \in {"cpu"} |-> 2]]
OneFlavor  == [n \in {1} |-> "a"]
OneNominal == [f \in {"a"} |-> [r \in {"cpu"} |-> 2]]

\* A sweep and two small jobs of a user whose quota is two Jobs and what the
\* sweep and one of the others ask for; the node holds less.
ThreeForTwo == <<OneUser("a", 2, 2, 1, 1),
                 OneUser("a", 1, 1, 1, 1),
                 OneUser("a", 1, 1, 1, 2)>>
TightQuota  == [s \in {1} |-> [q \in {"cpu", "count"} |-> IF q = "cpu" THEN 3 ELSE 2]]

\* Two users, two nodes: a sweep of three tasks, two at a time, and a job that
\* fills a node.
SweepAndFiller == <<OneUser("a", 3, 2, 1, 1),
                    [OneUser("a", 1, 1, 2, 1) EXCEPT !.ns = 2]>>
TwoNodes   == [n \in {1, 2} |-> [r \in {"cpu"} |-> 2]]
SameFlavor == [n \in {1, 2} |-> "a"]
TwoNominal == [f \in {"a"} |-> [r \in {"cpu"} |-> 4]]

NoQuota    == [s \in {} |-> 0]
CpuOnly    == {"cpu"}
=============================================================================
