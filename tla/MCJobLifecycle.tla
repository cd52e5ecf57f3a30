--------------------------- MODULE MCJobLifecycle ---------------------------
(* Instances of JobLifecycle for TLC. *)
EXTENDS JobLifecycle, TLC

\* No request looks at which client sent another.
AnyClient == Permutations(Clients)

\* The state without the history no step depends on, for runs whose properties
\* do not speak of it.
WithoutHistory ==
    <<status, retries, delayed, age, started, nextId, resets, k8s, dying,
      dpc, djob, batch, watchVars, req>>

=============================================================================
