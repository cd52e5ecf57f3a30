--------------------------- MODULE MCAdministration ---------------------------
(* Instances of Administration for TLC. *)
EXTENDS Administration, TLC
CONSTANTS cpu, gpu, a1, a2, n1, n2

\* No definition, a faulty one, a name twice, one flavor or both.
SomeLists == {<<>>, <<cpu, Faulty>>, <<gpu, gpu>>, <<cpu>>, <<cpu, gpu>>}

\* POSTGRES_HOST, DISPATCH_BATCH_SIZE, CPU_LIMIT_BUFFER_MULTIPLIER.
SomeKeys == [host   |-> [type |-> "string",  updatable |-> FALSE],
             batch  |-> [type |-> "integer", updatable |-> TRUE],
             buffer |-> [type |-> "float",   updatable |-> TRUE]]

\* Ten thousand values stand for 2^64; the last amount of memory is too large.
Small == {[r \in {"cpu", "memory"} |-> 1], [r \in {"memory"} |-> 3],
          [r \in {"gpu"} |-> 0], [r \in {"gpu"} |-> 1]}
WithHuge == Small \cup {[r \in {"memory"} |-> 9999]}

Total(c, m, g) == [r \in Resources |-> IF r = "cpu" THEN c ELSE IF r = "memory" THEN m ELSE g]
NodeTables == {[f \in {cpu, gpu} |-> IF f = cpu THEN Total(2, 2, 0) ELSE Total(1, 1, 1)],
               [f \in {cpu, gpu} |-> IF f = cpu THEN Total(3, 3, 0) ELSE Total(0, 0, 0)],
               [f \in {cpu, gpu} |-> Total(0, 0, 0)]}
NoNodes == Total(2, 4, 0)
StartQuota == [f \in {cpu, gpu} |-> IF f = cpu THEN Total(2, 2, 0) ELSE Total(1, 1, 1)]

Symmetry == Permutations({a1, a2}) \cup Permutations({n1, n2})
=============================================================================
