--------------------------- MODULE MCJobParameters ---------------------------
(* Instance of JobParameters for TLC. *)
EXTENDS JobParameters

CONSTANTS cpu, gpu

\* A flavor without a default image, and one with GPUs, smaller nodes and an image.
MCImageOf == (cpu :> NoImage) @@ (gpu :> "cuda")

MCWishes == {[size |-> 1, gpu |-> 0], [size |-> 2, gpu |-> 1, flavor |-> gpu],
             [size |-> 1, gpu |-> 1, flavor |-> gpu, image |-> "own"]}
MCChanges == {[flavor |-> gpu, gpu |-> 1], [flavor |-> cpu, gpu |-> 0], [size |-> 2],
              [image |-> "own"]}

Amount(s, g) == [size |-> s, gpu |-> g]
Limit(large, total, quota) == [largest |-> large, total |-> total, quota |-> quota]

\* All nodes; some nodes of cpu and all of gpu away, the quota of cpu reduced.
Plenty == (cpu :> Limit(Amount(2, 0), Amount(4, 0), Amount(4, 0)))
       @@ (gpu :> Limit(Amount(1, 1), Amount(2, 1), Amount(2, 2)))
Scarce == (cpu :> Limit(Amount(2, 0), Amount(2, 0), Amount(1, 0)))
       @@ (gpu :> Limit(Amount(0, 0), Amount(0, 0), Amount(2, 2)))
MCTables == {Plenty, Scarce}

Symmetry == Permutations(Clients)
=============================================================================
