------------------------ MODULE DispatchCycleProofs ------------------------
(***************************************************************************)
(* Theorems about DispatchCycle, for every workload, cluster and setting   *)
(* that satisfies DispatchConstantsOK.                                     *)
(*                                                                         *)
(*   BatchIsInOrder    a cycle keeps the order of submission, but within a *)
(*                     round                                               *)
(*   TypesAreKept      type correctness, the cluster's counts included     *)
(*   HorizonNeverGrows a stalled job's horizon only comes nearer           *)
(*   QuotaIsUsedWell   the quota filter counts what it has let through     *)
(*   BatchHasRoom      the node filter's batch has a place, all at once    *)
(*                                                                         *)
(* A filter is a run over its candidates: a function of how many it has    *)
(* looked at.  What holds after every candidate is shown by an induction   *)
(* over a set of numbers (SetInduction) or of finite sets                  *)
(* (SubsetInduction), which rest on the least natural number of a set and  *)
(* on the well-founded order of the finite subsets of a set.               *)
(***************************************************************************)
EXTENDS DispatchCycle, FiniteSetTheorems, TLAPS

-----------------------------------------------------------------------------
(* Induction.  What holds of 0 and of every successor holds of every number *)
(* in the form of a set, since the empty intervals order the naturals.      *)

\* Every set of natural numbers has a least one.
LEMMA LeastNatural ==
  ASSUME NEW T, T \subseteq Nat, T # {}
  PROVE  \E x \in T : \A y \in T : x <= y
  <1> DEFINE Segments == {0..n : n \in T}
  <1>1. Segments \subseteq FiniteSubsetsOf(Nat)
    <2> SUFFICES ASSUME NEW n \in T PROVE 0..n \in FiniteSubsetsOf(Nat)
      OBVIOUS
    <2>1. n \in Int /\ 0..n \subseteq Nat
      OBVIOUS
    <2>2. IsFiniteSet(0..n)
      BY <2>1, FS_Interval
    <2> QED BY <2>1, <2>2 DEF FiniteSubsetsOf
  <1>0. Segments # {}
    OBVIOUS
  <1>2. PICK s \in Segments : \A t \in Segments : <<t, s>> \notin StrictSubsetOrdering(Nat)
    <2> HIDE DEF Segments
    <2> QED BY <1>0, <1>1, WFMin, FS_StrictSubsetOrderingWellFounded, Zenon
  <1>3. PICK x \in T : s = 0..x
    OBVIOUS
  <1>4. ASSUME NEW y \in T, y < x PROVE FALSE
    <2>1. 0..y \in Segments /\ 0..y \subseteq Nat /\ 0..y \subseteq 0..x /\ 0..y # 0..x
      BY <1>4
    <2>2. 0..y \in FiniteSubsetsOf(Nat) /\ s \in FiniteSubsetsOf(Nat)
      BY <1>1, <2>1, Zenon
    <2>3. 0..y \subseteq s /\ 0..y # s
      BY <1>3, <2>1, Zenon
    <2>4. <<0..y, s>> \in StrictSubsetOrdering(Nat)
      BY <2>1, <2>2, <2>3 DEF StrictSubsetOrdering, FiniteSubsetsOf
    <2> QED BY <1>2, <2>1, <2>4
  <1> QED BY <1>4

LEMMA SetInduction ==
  ASSUME NEW N \in Nat, NEW Good, 0 \in Good,
         \A n \in 0..N : n \in Good /\ n < N => n + 1 \in Good
  PROVE  N \in Good
  <1> SUFFICES ASSUME N \notin Good PROVE FALSE
    OBVIOUS
  <1> DEFINE Bad == {n \in 0..N : n \notin Good}
  <1>1. PICK x \in Bad : \A y \in Bad : x <= y
    <2>1. Bad \subseteq Nat /\ Bad # {}
      OBVIOUS
    <2> HIDE DEF Bad
    <2> QED BY <2>1, LeastNatural
  <1>2. x \in 1..N /\ x \notin Good
    BY <1>1
  <1>3. x - 1 \in 0..N /\ x - 1 \in Good /\ x - 1 < N /\ (x - 1) + 1 = x
    BY <1>1, <1>2
  <1> QED BY <1>2, <1>3

-----------------------------------------------------------------------------
(* The filters go through their candidates one by one. *)

\* apply_gap_filling, candidate by candidate.
LEMMA GapRunStep ==
  ASSUME NEW seq, Len(seq) \in Nat
  PROVE  /\ GapRun(seq)[0] = [free |-> Available, kept |-> <<>>]
         /\ \A n \in 1..Len(seq) : GapRun(seq)[n] = FillGap(GapRun(seq)[n - 1], seq[n])
  <1> DEFINE start == [free |-> Available, kept |-> <<>>]
             Is(g, N) == g = [n \in 0..N |-> IF n = 0 THEN start ELSE FillGap(g[n - 1], seq[n])]
             Good == {N \in Nat : \E g : Is(g, N)}
  <1> HIDE DEF start
  <1>1. 0 \in Good
    <2>1. Is([n \in 0..0 |-> start], 0)
      OBVIOUS
    <2> QED BY <2>1
  <1>2. ASSUME NEW N \in Nat, NEW g, Is(g, N) PROVE \E h : Is(h, N + 1)
    <2> DEFINE h == [n \in 0..(N + 1) |-> IF n <= N THEN g[n] ELSE FillGap(g[N], seq[n])]
    <2>1. ASSUME NEW n \in 0..(N + 1)
          PROVE  h[n] = IF n = 0 THEN start ELSE FillGap(h[n - 1], seq[n])
      <3>1. CASE n = 0
        BY <3>1, <1>2
      <3>2. CASE n \in 1..N
        <4>1. h[n] = g[n] /\ h[n - 1] = g[n - 1]
          BY <3>2
        <4>2. g[n] = FillGap(g[n - 1], seq[n])
          BY <3>2, <1>2
        <4> QED BY <3>2, <4>1, <4>2
      <3>3. CASE n = N + 1
        <4>1. h[n] = FillGap(g[N], seq[n]) /\ h[n - 1] = g[N]
          BY <3>3
        <4> QED BY <3>3, <4>1
      <3> QED BY <3>1, <3>2, <3>3
    <2>2. Is(h, N + 1)
      <3> HIDE DEF h
      <3>1. h = [n \in 0..(N + 1) |-> h[n]]
        BY DEF h
      <3> QED BY <2>1, <3>1
    <2> QED BY <2>2
  <1>3. \E g : Is(g, Len(seq))
    <2> HIDE DEF Is
    <2>1. \A n \in 0..Len(seq) : n \in Good /\ n < Len(seq) => n + 1 \in Good
      BY <1>2
    <2>2. Len(seq) \in Good
      <3> HIDE DEF Good
      <3> QED BY <1>1, <2>1, SetInduction
    <2> QED BY <2>2
  <1>4. Is(GapRun(seq), Len(seq))
    <2>1. GapRun(seq) = CHOOSE run : Is(run, Len(seq))
      BY Zenon DEF GapRun, start
    <2> HIDE DEF Is
    <2> QED BY <1>3, <2>1, Zenon
  <1>5. GapRun(seq)[0] = start
    BY <1>4
  <1>6. ASSUME NEW n \in 1..Len(seq) PROVE GapRun(seq)[n] = FillGap(GapRun(seq)[n - 1], seq[n])
    <2>1. n \in 0..Len(seq) /\ n # 0
      OBVIOUS
    <2> QED BY <1>4, <2>1
  <1> QED BY <1>5, <1>6 DEF start

\* filter_by_resource_quota, candidate by candidate.
LEMMA QuotaRunStep ==
  ASSUME NEW seq, Len(seq) \in Nat
  PROVE  /\ QuotaRun(seq)[0] = [spent |-> [s \in DOMAIN HardQuota |-> Zero], kept |-> <<>>]
         /\ \A n \in 1..Len(seq) : QuotaRun(seq)[n] = Afford(QuotaRun(seq)[n - 1], seq[n])
  <1> DEFINE start == [spent |-> [s \in DOMAIN HardQuota |-> Zero], kept |-> <<>>]
             Is(g, N) == g = [n \in 0..N |-> IF n = 0 THEN start ELSE Afford(g[n - 1], seq[n])]
             Good == {N \in Nat : \E g : Is(g, N)}
  <1> HIDE DEF start
  <1>1. 0 \in Good
    <2>1. Is([n \in 0..0 |-> start], 0)
      OBVIOUS
    <2> QED BY <2>1
  <1>2. ASSUME NEW N \in Nat, NEW g, Is(g, N) PROVE \E h : Is(h, N + 1)
    <2> DEFINE h == [n \in 0..(N + 1) |-> IF n <= N THEN g[n] ELSE Afford(g[N], seq[n])]
    <2>1. ASSUME NEW n \in 0..(N + 1)
          PROVE  h[n] = IF n = 0 THEN start ELSE Afford(h[n - 1], seq[n])
      <3>1. CASE n = 0
        BY <3>1, <1>2
      <3>2. CASE n \in 1..N
        <4>1. h[n] = g[n] /\ h[n - 1] = g[n - 1]
          BY <3>2
        <4>2. g[n] = Afford(g[n - 1], seq[n])
          BY <3>2, <1>2
        <4> QED BY <3>2, <4>1, <4>2
      <3>3. CASE n = N + 1
        <4>1. h[n] = Afford(g[N], seq[n]) /\ h[n - 1] = g[N]
          BY <3>3
        <4> QED BY <3>3, <4>1
      <3> QED BY <3>1, <3>2, <3>3
    <2>2. Is(h, N + 1)
      <3> HIDE DEF h
      <3>1. h = [n \in 0..(N + 1) |-> h[n]]
        BY DEF h
      <3> QED BY <2>1, <3>1
    <2> QED BY <2>2
  <1>3. \E g : Is(g, Len(seq))
    <2> HIDE DEF Is
    <2>1. \A n \in 0..Len(seq) : n \in Good /\ n < Len(seq) => n + 1 \in Good
      BY <1>2
    <2>2. Len(seq) \in Good
      <3> HIDE DEF Good
      <3> QED BY <1>1, <2>1, SetInduction
    <2> QED BY <2>2
  <1>4. Is(QuotaRun(seq), Len(seq))
    <2>1. QuotaRun(seq) = CHOOSE run : Is(run, Len(seq))
      BY Zenon DEF QuotaRun, start
    <2> HIDE DEF Is
    <2> QED BY <1>3, <2>1, Zenon
  <1>5. QuotaRun(seq)[0] = start
    BY <1>4
  <1>6. ASSUME NEW n \in 1..Len(seq) PROVE QuotaRun(seq)[n] = Afford(QuotaRun(seq)[n - 1], seq[n])
    <2>1. n \in 0..Len(seq) /\ n # 0
      OBVIOUS
    <2> QED BY <1>4, <2>1
  <1> QED BY <1>5, <1>6 DEF start

\* filter_by_node_capacity, candidate by candidate.
LEMMA NodeRunStep ==
  ASSUME NEW seq, NEW room, Len(seq) \in Nat
  PROVE  /\ NodeRun(seq, room)[0] = [room |-> room, kept |-> <<>>]
         /\ \A n \in 1..Len(seq) : NodeRun(seq, room)[n] = TryNodes(NodeRun(seq, room)[n - 1], seq[n])
  <1> DEFINE start == [room |-> room, kept |-> <<>>]
             Is(g, N) == g = [n \in 0..N |-> IF n = 0 THEN start ELSE TryNodes(g[n - 1], seq[n])]
             Good == {N \in Nat : \E g : Is(g, N)}
  <1> HIDE DEF start
  <1>1. 0 \in Good
    <2>1. Is([n \in 0..0 |-> start], 0)
      OBVIOUS
    <2> QED BY <2>1
  <1>2. ASSUME NEW N \in Nat, NEW g, Is(g, N) PROVE \E h : Is(h, N + 1)
    <2> DEFINE h == [n \in 0..(N + 1) |-> IF n <= N THEN g[n] ELSE TryNodes(g[N], seq[n])]
    <2>1. ASSUME NEW n \in 0..(N + 1)
          PROVE  h[n] = IF n = 0 THEN start ELSE TryNodes(h[n - 1], seq[n])
      <3>1. CASE n = 0
        BY <3>1, <1>2
      <3>2. CASE n \in 1..N
        <4>1. h[n] = g[n] /\ h[n - 1] = g[n - 1]
          BY <3>2
        <4>2. g[n] = TryNodes(g[n - 1], seq[n])
          BY <3>2, <1>2
        <4> QED BY <3>2, <4>1, <4>2
      <3>3. CASE n = N + 1
        <4>1. h[n] = TryNodes(g[N], seq[n]) /\ h[n - 1] = g[N]
          BY <3>3
        <4> QED BY <3>3, <4>1
      <3> QED BY <3>1, <3>2, <3>3
    <2>2. Is(h, N + 1)
      <3> HIDE DEF h
      <3>1. h = [n \in 0..(N + 1) |-> h[n]]
        BY DEF h
      <3> QED BY <2>1, <3>1
    <2> QED BY <2>2
  <1>3. \E g : Is(g, Len(seq))
    <2> HIDE DEF Is
    <2>1. \A n \in 0..Len(seq) : n \in Good /\ n < Len(seq) => n + 1 \in Good
      BY <1>2
    <2>2. Len(seq) \in Good
      <3> HIDE DEF Good
      <3> QED BY <1>1, <2>1, SetInduction
    <2> QED BY <2>2
  <1>4. Is(NodeRun(seq, room), Len(seq))
    <2>1. NodeRun(seq, room) = CHOOSE run : Is(run, Len(seq))
      BY Zenon DEF NodeRun, start
    <2> HIDE DEF Is
    <2> QED BY <1>3, <2>1, Zenon
  <1>5. NodeRun(seq, room)[0] = start
    BY <1>4
  <1>6. ASSUME NEW n \in 1..Len(seq)
        PROVE  NodeRun(seq, room)[n] = TryNodes(NodeRun(seq, room)[n - 1], seq[n])
    <2>1. n \in 0..Len(seq) /\ n # 0
      OBVIOUS
    <2> QED BY <1>4, <2>1
  <1> QED BY <1>5, <1>6 DEF start

\* _subtract_in_flight_least_loaded, job by job.
LEMMA GuessRunStep ==
  ASSUME NEW seq, Len(seq) \in Nat
  PROVE  /\ GuessRun(seq)[0] = RoomBesideRunning
         /\ \A n \in 1..Len(seq) : GuessRun(seq)[n] = PutPods(GuessRun(seq)[n - 1], seq[n]).room
  <1> DEFINE start == RoomBesideRunning
             Is(g, N) == g = [n \in 0..N |-> IF n = 0 THEN start ELSE PutPods(g[n - 1], seq[n]).room]
             Good == {N \in Nat : \E g : Is(g, N)}
  <1> HIDE DEF start
  <1>1. 0 \in Good
    <2>1. Is([n \in 0..0 |-> start], 0)
      OBVIOUS
    <2> QED BY <2>1
  <1>2. ASSUME NEW N \in Nat, NEW g, Is(g, N) PROVE \E h : Is(h, N + 1)
    <2> DEFINE h == [n \in 0..(N + 1) |-> IF n <= N THEN g[n] ELSE PutPods(g[N], seq[n]).room]
    <2>1. ASSUME NEW n \in 0..(N + 1)
          PROVE  h[n] = IF n = 0 THEN start ELSE PutPods(h[n - 1], seq[n]).room
      <3>1. CASE n = 0
        BY <3>1, <1>2
      <3>2. CASE n \in 1..N
        <4>1. h[n] = g[n] /\ h[n - 1] = g[n - 1]
          BY <3>2
        <4>2. g[n] = PutPods(g[n - 1], seq[n]).room
          BY <3>2, <1>2
        <4> QED BY <3>2, <4>1, <4>2
      <3>3. CASE n = N + 1
        <4>1. h[n] = PutPods(g[N], seq[n]).room /\ h[n - 1] = g[N]
          BY <3>3
        <4> QED BY <3>3, <4>1
      <3> QED BY <3>1, <3>2, <3>3
    <2>2. Is(h, N + 1)
      <3> HIDE DEF h
      <3>1. h = [n \in 0..(N + 1) |-> h[n]]
        BY DEF h
      <3> QED BY <2>1, <3>1
    <2> QED BY <2>2
  <1>3. \E g : Is(g, Len(seq))
    <2> HIDE DEF Is
    <2>1. \A n \in 0..Len(seq) : n \in Good /\ n < Len(seq) => n + 1 \in Good
      BY <1>2
    <2>2. Len(seq) \in Good
      <3> HIDE DEF Good
      <3> QED BY <1>1, <2>1, SetInduction
    <2> QED BY <2>2
  <1>4. Is(GuessRun(seq), Len(seq))
    <2>1. GuessRun(seq) = CHOOSE run : Is(run, Len(seq))
      BY Zenon DEF GuessRun, start
    <2> HIDE DEF Is
    <2> QED BY <1>3, <2>1, Zenon
  <1>5. GuessRun(seq)[0] = start
    BY <1>4
  <1>6. ASSUME NEW n \in 1..Len(seq)
        PROVE  GuessRun(seq)[n] = PutPods(GuessRun(seq)[n - 1], seq[n]).room
    <2>1. n \in 0..Len(seq) /\ n # 0
      OBVIOUS
    <2> QED BY <1>4, <2>1
  <1> QED BY <1>5, <1>6 DEF start

\* The pods of one job, one by one.
LEMMA PodRunStep ==
  ASSUME NEW room, NEW j \in Jobs, Workload[j].pods \in Nat
  PROVE  /\ PodRun(room, j)[0] = [room |-> room, full |-> FALSE]
         /\ \A n \in 1..Workload[j].pods : PodRun(room, j)[n] = PutPod(PodRun(room, j)[n - 1], j)
  <1> DEFINE start == [room |-> room, full |-> FALSE]
             Is(g, N) == g = [n \in 0..N |-> IF n = 0 THEN start ELSE PutPod(g[n - 1], j)]
             Good == {N \in Nat : \E g : Is(g, N)}
  <1> HIDE DEF start
  <1>1. 0 \in Good
    <2>1. Is([n \in 0..0 |-> start], 0)
      OBVIOUS
    <2> QED BY <2>1
  <1>2. ASSUME NEW N \in Nat, NEW g, Is(g, N) PROVE \E h : Is(h, N + 1)
    <2> DEFINE h == [n \in 0..(N + 1) |-> IF n <= N THEN g[n] ELSE PutPod(g[N], j)]
    <2>1. ASSUME NEW n \in 0..(N + 1)
          PROVE  h[n] = IF n = 0 THEN start ELSE PutPod(h[n - 1], j)
      <3>1. CASE n = 0
        BY <3>1, <1>2
      <3>2. CASE n \in 1..N
        <4>1. h[n] = g[n] /\ h[n - 1] = g[n - 1]
          BY <3>2
        <4>2. g[n] = PutPod(g[n - 1], j)
          BY <3>2, <1>2
        <4> QED BY <3>2, <4>1, <4>2
      <3>3. CASE n = N + 1
        <4>1. h[n] = PutPod(g[N], j) /\ h[n - 1] = g[N]
          BY <3>3
        <4> QED BY <3>3, <4>1
      <3> QED BY <3>1, <3>2, <3>3
    <2>2. Is(h, N + 1)
      <3> HIDE DEF h
      <3>1. h = [n \in 0..(N + 1) |-> h[n]]
        BY DEF h
      <3> QED BY <2>1, <3>1
    <2> QED BY <2>2
  <1>3. \E g : Is(g, Workload[j].pods)
    <2> HIDE DEF Is
    <2>1. \A n \in 0..Workload[j].pods : n \in Good /\ n < Workload[j].pods => n + 1 \in Good
      BY <1>2
    <2>2. Workload[j].pods \in Good
      <3> HIDE DEF Good
      <3> QED BY <1>1, <2>1, SetInduction
    <2> QED BY <2>2
  <1>4. Is(PodRun(room, j), Workload[j].pods)
    <2>1. PodRun(room, j) = CHOOSE run : Is(run, Workload[j].pods)
      BY Zenon DEF PodRun, start
    <2> HIDE DEF Is
    <2> QED BY <1>3, <2>1, Zenon
  <1>5. PodRun(room, j)[0] = start
    BY <1>4
  <1>6. ASSUME NEW n \in 1..Workload[j].pods
        PROVE  PodRun(room, j)[n] = PutPod(PodRun(room, j)[n - 1], j)
    <2>1. n \in 0..Workload[j].pods /\ n # 0
      OBVIOUS
    <2> QED BY <1>4, <2>1
  <1> QED BY <1>5, <1>6 DEF start

\* The backoff, doubled attempt by attempt.
LEMMA DoubledStep ==
  ASSUME MaxAttempts \in Nat
  PROVE  /\ Doubled[0] = DispatchTimeout
         /\ \A n \in 1..MaxAttempts : Doubled[n] = 2 * Doubled[n - 1]
  <1> DEFINE start == DispatchTimeout
             Is(g, N) == g = [n \in 0..N |-> IF n = 0 THEN start ELSE 2 * g[n - 1]]
             Good == {N \in Nat : \E g : Is(g, N)}
  <1> HIDE DEF start
  <1>1. 0 \in Good
    <2>1. Is([n \in 0..0 |-> start], 0)
      OBVIOUS
    <2> QED BY <2>1
  <1>2. ASSUME NEW N \in Nat, NEW g, Is(g, N) PROVE \E h : Is(h, N + 1)
    <2> DEFINE h == [n \in 0..(N + 1) |-> IF n <= N THEN g[n] ELSE 2 * g[N]]
    <2>1. ASSUME NEW n \in 0..(N + 1)
          PROVE  h[n] = IF n = 0 THEN start ELSE 2 * h[n - 1]
      <3>1. CASE n = 0
        BY <3>1, <1>2
      <3>2. CASE n \in 1..N
        <4>1. h[n] = g[n] /\ h[n - 1] = g[n - 1]
          BY <3>2
        <4>2. g[n] = 2 * g[n - 1]
          BY <3>2, <1>2
        <4> QED BY <3>2, <4>1, <4>2
      <3>3. CASE n = N + 1
        <4>1. h[n] = 2 * g[N] /\ h[n - 1] = g[N]
          BY <3>3
        <4> QED BY <3>3, <4>1
      <3> QED BY <3>1, <3>2, <3>3
    <2>2. Is(h, N + 1)
      <3> HIDE DEF h
      <3>1. h = [n \in 0..(N + 1) |-> h[n]]
        BY DEF h
      <3> QED BY <2>1, <3>1
    <2> QED BY <2>2
  <1>3. \E g : Is(g, MaxAttempts)
    <2> HIDE DEF Is
    <2>1. \A n \in 0..MaxAttempts : n \in Good /\ n < MaxAttempts => n + 1 \in Good
      BY <1>2
    <2>2. MaxAttempts \in Good
      <3> HIDE DEF Good
      <3> QED BY <1>1, <2>1, SetInduction
    <2> QED BY <2>2
  <1>4. Is(Doubled, MaxAttempts)
    <2>1. Doubled = CHOOSE run : Is(run, MaxAttempts)
      BY Zenon DEF Doubled, start
    <2> HIDE DEF Is
    <2> QED BY <1>3, <2>1, Zenon
  <1>5. Doubled[0] = start
    BY <1>4
  <1>6. ASSUME NEW n \in 1..MaxAttempts PROVE Doubled[n] = 2 * Doubled[n - 1]
    <2>1. n \in 0..MaxAttempts /\ n # 0
      OBVIOUS
    <2> QED BY <1>4, <2>1
  <1> QED BY <1>5, <1>6 DEF start

-----------------------------------------------------------------------------
(* What a filter lets through keeps its order. *)

\* new has elements of the first n of seq, in their order, each of them once.
PartOf(new, seq, n) ==
    \E from \in [1..Len(new) -> 1..n] :
        /\ \A i \in 1..Len(new) : new[i] = seq[from[i]]
        /\ \A i, k \in 1..Len(new) : i < k => from[i] < from[k]

LEMMA PartGrows ==
  ASSUME NEW S, NEW seq, NEW n \in Nat, seq[n + 1] \in S,
         NEW new \in Seq(S), PartOf(new, seq, n)
  PROVE  /\ Append(new, seq[n + 1]) \in Seq(S)
         /\ PartOf(Append(new, seq[n + 1]), seq, n + 1)
  <1>1. PICK from \in [1..Len(new) -> 1..n] :
            /\ \A i \in 1..Len(new) : new[i] = seq[from[i]]
            /\ \A i, k \in 1..Len(new) : i < k => from[i] < from[k]
    BY DEF PartOf
  <1> DEFINE longer == Append(new, seq[n + 1])
             more == [i \in 1..(Len(new) + 1) |-> IF i <= Len(new) THEN from[i] ELSE n + 1]
  <1>3. longer \in Seq(S) /\ Len(longer) = Len(new) + 1
    OBVIOUS
  <1>4. more \in [1..Len(longer) -> 1..(n + 1)]
    BY <1>3
  <1>5. ASSUME NEW i \in 1..Len(longer) PROVE longer[i] = seq[more[i]]
    BY <1>1, <1>3
  <1>6. ASSUME NEW i \in 1..Len(longer), NEW k \in 1..Len(longer), i < k
        PROVE  more[i] < more[k]
    <2>1. CASE k <= Len(new)
      BY <1>1, <1>3, <1>6, <2>1
    <2>2. CASE k = Len(new) + 1
      BY <1>3, <1>6, <2>2
    <2> QED BY <1>3, <2>1, <2>2
  <1>7. PartOf(longer, seq, n + 1)
    <2> HIDE DEF more, longer
    <2> QED BY <1>4, <1>5, <1>6 DEF PartOf
  <1> QED BY <1>3, <1>7

LEMMA FilteredIsPart ==
  ASSUME NEW S, NEW seq, Len(seq) \in Nat, NEW kept, kept[0] = <<>>,
         \A n \in 1..Len(seq) : \/ kept[n] = kept[n - 1]
                                \/ kept[n] = Append(kept[n - 1], seq[n]) /\ seq[n] \in S
  PROVE  kept[Len(seq)] \in Seq(S) /\ PartOf(kept[Len(seq)], seq, Len(seq))
  <1> DEFINE Good == {n \in 0..Len(seq) : kept[n] \in Seq(S) /\ PartOf(kept[n], seq, n)}
  <1>1. 0 \in Good
    <2>1. <<>> \in Seq(S) /\ Len(<<>>) = 0
      OBVIOUS
    <2>2. ASSUME NEW new, Len(new) = 0 PROVE PartOf(new, seq, 0)
      <3> DEFINE none == [i \in 1..Len(new) |-> 0]
      <3>1. \A i \in 1..Len(new) : FALSE
        BY <2>2
      <3>2. none \in [1..Len(new) -> 1..0]
        BY <3>1
      <3> HIDE DEF none
      <3> QED BY <3>1, <3>2 DEF PartOf
    <2>3. kept[0] \in Seq(S) /\ PartOf(kept[0], seq, 0)
      BY <2>1, <2>2
    <2>4. 0 \in 0..Len(seq)
      OBVIOUS
    <2> QED BY <2>3, <2>4
  <1>2. ASSUME NEW n \in 0..Len(seq), n \in Good, n < Len(seq) PROVE n + 1 \in Good
    <2>1. n \in Nat /\ n + 1 \in 1..Len(seq) /\ (n + 1) - 1 = n
      BY <1>2
    <2>2. \/ kept[n + 1] = kept[n]
          \/ kept[n + 1] = Append(kept[n], seq[n + 1]) /\ seq[n + 1] \in S
      BY <2>1
    <2>3. kept[n] \in Seq(S) /\ PartOf(kept[n], seq, n)
      BY <1>2
    <2>4. PartOf(kept[n], seq, n + 1)
      <3> kept[n] \in Seq(S)
        BY <2>3
      <3>1. PICK from \in [1..Len(kept[n]) -> 1..n] :
                /\ \A i \in 1..Len(kept[n]) : kept[n][i] = seq[from[i]]
                /\ \A i, k \in 1..Len(kept[n]) : i < k => from[i] < from[k]
        BY <2>3 DEF PartOf
      <3>2. from \in [1..Len(kept[n]) -> 1..(n + 1)]
        BY <2>1
      <3> QED BY <3>1, <3>2 DEF PartOf
    <2>5. kept[n + 1] \in Seq(S) /\ PartOf(kept[n + 1], seq, n + 1)
      BY <2>1, <2>2, <2>3, <2>4, PartGrows
    <2> QED BY <2>1, <2>5
  <1>4. Len(seq) \in Good
    <2> HIDE DEF Good
    <2> QED BY <1>1, <1>2, SetInduction
  <1> QED BY <1>4

\* A part of a part.
LEMMA PartFacts ==
  ASSUME NEW S, NEW seq \in Seq(S), NEW new \in Seq(S), PartOf(new, seq, Len(seq))
  PROVE  /\ Range(new) \subseteq Range(seq)
         /\ IsInjective(seq) => IsInjective(new)
         /\ \A a, b \in DOMAIN new : a < b =>
                \E c, d \in DOMAIN seq : c < d /\ new[a] = seq[c] /\ new[b] = seq[d]
  <1>1. PICK from \in [1..Len(new) -> 1..Len(seq)] :
            /\ \A i \in 1..Len(new) : new[i] = seq[from[i]]
            /\ \A i, k \in 1..Len(new) : i < k => from[i] < from[k]
    BY DEF PartOf
  <1>2. DOMAIN new = 1..Len(new) /\ DOMAIN seq = 1..Len(seq)
    OBVIOUS
  <1>3. Range(new) \subseteq Range(seq)
    BY <1>1, <1>2 DEF Range
  <1>4. ASSUME IsInjective(seq), NEW a \in DOMAIN new, NEW b \in DOMAIN new, new[a] = new[b]
        PROVE  a = b
    <2>1. from[a] = from[b]
      BY <1>1, <1>2, <1>4 DEF IsInjective
    <2>2. ~(a < b) /\ ~(b < a)
      BY <1>1, <1>2, <2>1
    <2> QED BY <1>2, <2>2
  <1>5. ASSUME NEW a \in DOMAIN new, NEW b \in DOMAIN new, a < b
        PROVE  \E c, d \in DOMAIN seq : c < d /\ new[a] = seq[c] /\ new[b] = seq[d]
    BY <1>1, <1>2, <1>5
  <1> QED BY <1>3, <1>4, <1>5 DEF IsInjective

LEMMA FirstIsPart ==
  ASSUME NEW S, NEW seq \in Seq(S), NEW n \in Nat
  PROVE  First(n, seq) \in Seq(S) /\ PartOf(First(n, seq), seq, Len(seq))
  <1> DEFINE m == LeastOf({n, Len(seq)})
  <1>1. m \in 0..Len(seq)
    <2>1. Len(seq) \in Nat
      OBVIOUS
    <2>2. \E x \in {n, Len(seq)} : \A y \in {n, Len(seq)} : x <= y
      <3>1. n <= Len(seq) \/ Len(seq) <= n
        BY <2>1
      <3> QED BY <2>1, <3>1
    <2>3. m \in {n, Len(seq)} /\ \A y \in {n, Len(seq)} : m <= y
      BY <2>2 DEF LeastOf
    <2> QED BY <2>1, <2>3
  <1> HIDE DEF m
  <1>2. /\ SubSeq(seq, 1, m) \in Seq(S) /\ Len(SubSeq(seq, 1, m)) = m
        /\ \A i \in 1..m : SubSeq(seq, 1, m)[i] = seq[i]
    BY <1>1
  <1>3. PartOf(SubSeq(seq, 1, m), seq, Len(seq))
    <2> DEFINE same == [i \in 1..m |-> i]
    <2>1. /\ same \in [1..m -> 1..Len(seq)]
          /\ \A i \in 1..m : same[i] = i
      BY <1>1
    <2> HIDE DEF same
    <2>2. \A i, k \in 1..m : i < k => same[i] < same[k]
      BY <2>1
    <2>3. \A i \in 1..m : SubSeq(seq, 1, m)[i] = seq[same[i]]
      BY <1>2, <2>1
    <2> QED BY <1>2, <2>1, <2>2, <2>3 DEF PartOf
  <1> QED BY <1>2, <1>3 DEF First, m

LEMMA PlaceInFound ==
  ASSUME NEW S, NEW seq \in Seq(S), NEW j \in Range(seq)
  PROVE  /\ PlaceIn(seq, j) \in 1..Len(seq) /\ seq[PlaceIn(seq, j)] = j
         /\ IsInjective(seq) => \A i \in DOMAIN seq : seq[i] = j => i = PlaceIn(seq, j)
  <1>1. \E i \in DOMAIN seq : seq[i] = j
    BY DEF Range
  <1>2. PlaceIn(seq, j) \in DOMAIN seq /\ seq[PlaceIn(seq, j)] = j
    BY <1>1, Zenon DEF PlaceIn
  <1> QED BY <1>2 DEF IsInjective

LEMMA Joined ==
  ASSUME NEW S, NEW a \in Seq(S), NEW b \in Seq(S)
  PROVE  /\ a \o b \in Seq(S) /\ Len(a \o b) = Len(a) + Len(b)
         /\ \A i \in 1..Len(a) : (a \o b)[i] = a[i]
         /\ \A i \in 1..Len(b) : (a \o b)[Len(a) + i] = b[i]
  OBVIOUS

\* Taking a row out keeps the others in order.
LEMMA WithoutIsPart ==
  ASSUME NEW S, NEW seq \in Seq(S), IsInjective(seq), NEW j
  PROVE  /\ Without(j, seq) \in Seq(S) /\ PartOf(Without(j, seq), seq, Len(seq))
         /\ Range(Without(j, seq)) = Range(seq) \ {j}
  <1> DEFINE p == PlaceIn(seq, j)
             before == SubSeq(seq, 1, p - 1)
             after == SubSeq(seq, p + 1, Len(seq))
             new == before \o after
  <1>1. CASE j \notin Range(seq)
    <2>1. Without(j, seq) = seq
      BY <1>1 DEF Without
    <2> DEFINE same == [i \in 1..Len(seq) |-> i]
    <2>2. same \in [1..Len(seq) -> 1..Len(seq)] /\ \A i \in 1..Len(seq) : same[i] = i
      OBVIOUS
    <2> HIDE DEF same
    <2>3. \A i, k \in 1..Len(seq) : i < k => same[i] < same[k]
      BY <2>2
    <2>4. PartOf(seq, seq, Len(seq))
      BY <2>2, <2>3 DEF PartOf
    <2> QED BY <1>1, <2>1, <2>4
  <1>2. CASE j \in Range(seq)
    <2>1. p \in 1..Len(seq) /\ seq[p] = j /\ \A i \in DOMAIN seq : seq[i] = j => i = p
      BY <1>2, PlaceInFound
    <2> HIDE DEF p
    <2>2. Without(j, seq) = new
      BY <1>2 DEF Without, RemoveAt, p
    <2> DEFINE from == [i \in 1..(Len(seq) - 1) |-> IF i < p THEN i ELSE i + 1]
    <2>3. /\ new \in Seq(S) /\ Len(new) = Len(seq) - 1
          /\ \A i \in 1..(Len(seq) - 1) : new[i] = IF i < p THEN seq[i] ELSE seq[i + 1]
      <3>1. /\ before \in Seq(S) /\ Len(before) = p - 1
            /\ \A i \in 1..(p - 1) : before[i] = seq[i]
        BY <2>1
      <3>2. /\ after \in Seq(S) /\ Len(after) = Len(seq) - p
            /\ \A i \in 1..(Len(seq) - p) : after[i] = seq[p + i]
        BY <2>1
      <3> HIDE DEF before, after
      <3>5. /\ new \in Seq(S) /\ Len(new) = Len(before) + Len(after)
            /\ \A i \in 1..Len(before) : new[i] = before[i]
            /\ \A i \in 1..Len(after) : new[Len(before) + i] = after[i]
        <4>1. \A a, b \in Seq(S) :
                 /\ a \o b \in Seq(S) /\ Len(a \o b) = Len(a) + Len(b)
                 /\ \A i \in 1..Len(a) : (a \o b)[i] = a[i]
                 /\ \A i \in 1..Len(b) : (a \o b)[Len(a) + i] = b[i]
          BY Joined
        <4> QED BY <3>1, <3>2, <4>1, Zenon
      <3> HIDE DEF new
      <3>3. new \in Seq(S) /\ Len(new) = Len(seq) - 1
        BY <2>1, <3>1, <3>2, <3>5
      <3>4. ASSUME NEW i \in 1..(Len(seq) - 1)
            PROVE  new[i] = IF i < p THEN seq[i] ELSE seq[i + 1]
        <4>1. CASE i < p
          <5>1. new[i] = before[i]
            BY <2>1, <3>1, <3>5, <4>1
          <5> QED BY <2>1, <3>1, <4>1, <5>1
        <4>2. CASE i >= p
          <5>1. i - (p - 1) \in 1..Len(after) /\ Len(before) + (i - (p - 1)) = i
            BY <2>1, <3>1, <3>2, <4>2
          <5>2. new[i] = after[i - (p - 1)]
            BY <3>5, <5>1
          <5>3. after[i - (p - 1)] = seq[p + (i - (p - 1))] /\ p + (i - (p - 1)) = i + 1
            BY <2>1, <3>2, <5>1
          <5> QED BY <2>1, <4>2, <5>2, <5>3
        <4> QED BY <2>1, <4>1, <4>2
      <3> QED BY <3>3, <3>4
    <2> HIDE DEF new
    <2>4. /\ from \in [1..Len(new) -> 1..Len(seq)]
          /\ \A i \in 1..Len(new) : from[i] = IF i < p THEN i ELSE i + 1
      BY <2>1, <2>3
    <2> HIDE DEF from
    <2>5. \A i, k \in 1..Len(new) : i < k => from[i] < from[k]
      BY <2>1, <2>3, <2>4
    <2>6. \A i \in 1..Len(new) : new[i] = seq[from[i]]
      BY <2>3, <2>4
    <2>7. PartOf(new, seq, Len(seq))
      BY <2>4, <2>5, <2>6 DEF PartOf
    <2>8. Range(new) \subseteq Range(seq) \ {j}
      <3>1. ASSUME NEW i \in 1..Len(new) PROVE new[i] # j /\ new[i] \in Range(seq)
        <4>1. from[i] \in DOMAIN seq /\ from[i] # p
          BY <2>1, <2>3, <2>4
        <4> QED BY <2>1, <2>6, <4>1 DEF Range
      <3> QED BY <2>3, <3>1 DEF Range
    <2>9. Range(seq) \ {j} \subseteq Range(new)
      <3> SUFFICES ASSUME NEW i \in DOMAIN seq, seq[i] # j
                   PROVE  \E k \in DOMAIN new : new[k] = seq[i]
        BY DEF Range
      <3>1. CASE i < p
        BY <2>1, <2>3, <3>1
      <3>2. CASE i > p
        <4>1. i - 1 \in DOMAIN new /\ new[i - 1] = seq[i]
          BY <2>1, <2>3, <3>2
        <4> QED BY <4>1
      <3> QED BY <2>1, <3>1, <3>2
    <2> QED BY <2>2, <2>3, <2>7, <2>8, <2>9
  <1> QED BY <1>1, <1>2

\* All orders of a finite set.
LEMMA SeqsOfSet ==
  ASSUME NEW S, IsFiniteSet(S), NEW seq \in SetToSeqs(S)
  PROVE  seq \in Seq(S) /\ IsInjective(seq) /\ Range(seq) \subseteq S
  <1>1. Cardinality(S) \in Nat
    BY FS_CardinalityType
  <1>2. /\ seq \in [1..Cardinality(S) -> S]
        /\ \A i, k \in 1..Cardinality(S) : i # k => seq[i] # seq[k]
    BY DEF SetToSeqs
  <1>3. seq \in Seq(S)
    BY <1>1, <1>2
  <1> QED BY <1>2, <1>3 DEF IsInjective, Range

-----------------------------------------------------------------------------
(* What each filter lets through is a part of what it is given. *)

LEMMA AffordOne ==
  ASSUME NEW s, NEW j
  PROVE  Afford(s, j).kept \in {s.kept, Append(s.kept, j)}
  <1> DEFINE ns == Workload[j].ns
             room == \A q \in DOMAIN HardQuota[ns] :
                        used[ns][q] + s.spent[ns][q] + Charge(j)[q] <= HardQuota[ns][q]
  <1>1. Afford(s, j) =
            IF ns \notin DOMAIN HardQuota THEN [spent |-> s.spent, kept |-> Append(s.kept, j)]
            ELSE IF ~room THEN s
                 ELSE [spent |-> [s.spent EXCEPT ![ns] = Plus(@, Charge(j))],
                       kept |-> Append(s.kept, j)]
    BY Zenon DEF Afford
  <1> HIDE DEF room
  <1> QED BY <1>1

LEMMA AffordableIsPart ==
  ASSUME NEW seq \in Seq(Jobs)
  PROVE  Affordable(seq) \in Seq(Jobs) /\ PartOf(Affordable(seq), seq, Len(seq))
  <1> DEFINE kept == [n \in 0..Len(seq) |-> QuotaRun(seq)[n].kept]
  <1>0. Len(seq) \in Nat
    OBVIOUS
  <1>1. kept[0] = <<>>
    BY <1>0, QuotaRunStep
  <1>2. ASSUME NEW n \in 1..Len(seq)
        PROVE  \/ kept[n] = kept[n - 1]
               \/ kept[n] = Append(kept[n - 1], seq[n]) /\ seq[n] \in Jobs
    <2>1. kept[n] = QuotaRun(seq)[n].kept /\ kept[n - 1] = QuotaRun(seq)[n - 1].kept
      OBVIOUS
    <2>2. QuotaRun(seq)[n] = Afford(QuotaRun(seq)[n - 1], seq[n])
      BY <1>0, QuotaRunStep
    <2>3. seq[n] \in Jobs
      OBVIOUS
    <2>4. Afford(QuotaRun(seq)[n - 1], seq[n]).kept
              \in {QuotaRun(seq)[n - 1].kept, Append(QuotaRun(seq)[n - 1].kept, seq[n])}
      BY AffordOne
    <2> HIDE DEF kept
    <2> QED BY <2>1, <2>2, <2>3, <2>4
  <1>3. Affordable(seq) = kept[Len(seq)]
    BY <1>0 DEF Affordable
  <1> HIDE DEF kept
  <1> QED BY <1>0, <1>1, <1>2, <1>3, FilteredIsPart

LEMMA PlaceableIsPart ==
  ASSUME NEW seq \in Seq(Jobs), NEW room
  PROVE  Placeable(seq, room) \in Seq(Jobs) /\ PartOf(Placeable(seq, room), seq, Len(seq))
  <1> DEFINE kept == [n \in 0..Len(seq) |-> NodeRun(seq, room)[n].kept]
  <1>0. Len(seq) \in Nat
    OBVIOUS
  <1>1. kept[0] = <<>>
    <2>1. NodeRun(seq, room)[0] = [room |-> room, kept |-> <<>>]
      BY <1>0, NodeRunStep, Zenon
    <2> QED BY <1>0, <2>1
  <1>2. ASSUME NEW n \in 1..Len(seq)
        PROVE  \/ kept[n] = kept[n - 1]
               \/ kept[n] = Append(kept[n - 1], seq[n]) /\ seq[n] \in Jobs
    <2>1. kept[n] = NodeRun(seq, room)[n].kept /\ kept[n - 1] = NodeRun(seq, room)[n - 1].kept
      OBVIOUS
    <2>2. NodeRun(seq, room)[n] = TryNodes(NodeRun(seq, room)[n - 1], seq[n])
      BY <1>0, NodeRunStep
    <2>3. seq[n] \in Jobs
      OBVIOUS
    <2> QED BY <2>1, <2>2, <2>3 DEF TryNodes
  <1>3. Placeable(seq, room) = kept[Len(seq)]
    BY <1>0 DEF Placeable
  <1> HIDE DEF kept
  <1> QED BY <1>0, <1>1, <1>2, <1>3, FilteredIsPart

\* Whoever passes gap filling ends in time, if a job of its key is stalled.
Passing == {j \in Jobs : Key(j) \in StalledKeys => EndsInTime(j)}

LEMMA GapsFilledIsPart ==
  ASSUME NEW seq \in Seq(Jobs)
  PROVE  GapsFilled(seq) \in Seq(Passing) /\ PartOf(GapsFilled(seq), seq, Len(seq))
  <1> DEFINE kept == [n \in 0..Len(seq) |-> GapRun(seq)[n].kept]
  <1>0. Len(seq) \in Nat
    OBVIOUS
  <1>1. kept[0] = <<>>
    BY <1>0, GapRunStep
  <1>2. ASSUME NEW n \in 1..Len(seq)
        PROVE  \/ kept[n] = kept[n - 1]
               \/ kept[n] = Append(kept[n - 1], seq[n]) /\ seq[n] \in Passing
    <2>1. kept[n] = GapRun(seq)[n].kept /\ kept[n - 1] = GapRun(seq)[n - 1].kept
      OBVIOUS
    <2>2. GapRun(seq)[n] = FillGap(GapRun(seq)[n - 1], seq[n])
      BY <1>0, GapRunStep
    <2>3. seq[n] \in Jobs
      OBVIOUS
    <2> DEFINE s == GapRun(seq)[n - 1]
               j == seq[n]
    <2> HIDE DEF s, j, kept
    <2>4. \/ FillGap(s, j).kept = s.kept
          \/ /\ FillGap(s, j).kept = Append(s.kept, j)
             /\ Key(j) \in StalledKeys => EndsInTime(j)
      BY DEF FillGap
    <2> QED BY <2>1, <2>2, <2>3, <2>4 DEF s, j, Passing
  <1>3. GapsFilled(seq) = kept[Len(seq)]
    BY <1>0 DEF GapsFilled
  <1> HIDE DEF kept
  <1> QED BY <1>0, <1>1, <1>2, <1>3, FilteredIsPart

-----------------------------------------------------------------------------
(* Rows and candidates. *)

Statuses == {"none", "QUEUED", "DISPATCHED", "RUNNING"}

RowsTyped ==
    /\ status \in [Jobs -> Statuses]
    /\ order \in Seq(Jobs) /\ IsInjective(order)
    /\ Range(order) = Jobs \ With("none")

\* A candidate is a waiting row, and there once: no step but the dispatch itself
\* takes a row of the batch out of the queue.
CandidatesWait ==
    /\ cand \in Seq(Jobs) /\ IsInjective(cand)
    /\ Range(cand) \subseteq With("QUEUED")

RowsInv == RowsTyped /\ CandidatesWait

\* KeepsOrder, of any sequence of jobs and any order of the rows.
Crowd(S, o, i, j) == {h \in S : /\ Workload[h].ns = Workload[j].ns
                                /\ PlaceIn(o, i) < PlaceIn(o, h)
                                /\ PlaceIn(o, h) <= PlaceIn(o, j)}
InOrder(seq, o) ==
    \A a, b \in DOMAIN seq :
        a < b /\ Key(seq[a]) = Key(seq[b])
            => Cardinality(Crowd(Range(seq), o, seq[b], seq[a])) < RoundSize

LEMMA OrderOfBatch == /\ KeepsOrder <=> InOrder(cand, order)
                      /\ KeepsOrder' <=> InOrder(cand', order')
  <1>1. KeepsOrder <=> InOrder(cand, order)
    BY DEF KeepsOrder, InOrder, After, Crowd, Place
  <1>2. KeepsOrder' <=> InOrder(cand', order')
    BY DEF KeepsOrder, InOrder, After, Crowd, Place
  <1> QED BY <1>1, <1>2

\* new has jobs of old, those of one key in the same order.
KeyPart(new, old) ==
    /\ Range(new) \subseteq Range(old)
    /\ \A a, b \in DOMAIN new : a < b /\ Key(new[a]) = Key(new[b]) =>
           \E c, d \in DOMAIN old : c < d /\ new[a] = old[c] /\ new[b] = old[d]

\* A part of a sequence in order is in order.
LEMMA PartInOrder ==
  ASSUME NEW old, NEW new, NEW o, NEW p, Range(old) \subseteq Jobs, KeyPart(new, old),
         \A i, j \in Range(new) : /\ PlaceIn(p, i) < PlaceIn(p, j) => PlaceIn(o, i) < PlaceIn(o, j)
                                  /\ PlaceIn(p, i) <= PlaceIn(p, j) => PlaceIn(o, i) <= PlaceIn(o, j),
         InOrder(old, o)
  PROVE  InOrder(new, p)
  <1> SUFFICES ASSUME NEW a \in DOMAIN new, NEW b \in DOMAIN new, a < b, Key(new[a]) = Key(new[b])
               PROVE  Cardinality(Crowd(Range(new), p, new[b], new[a])) < RoundSize
    BY DEF InOrder
  <1>1. PICK c \in DOMAIN old, d \in DOMAIN old : c < d /\ new[a] = old[c] /\ new[b] = old[d]
    BY DEF KeyPart
  <1> DEFINE few  == Crowd(Range(new), p, new[b], new[a])
             many == Crowd(Range(old), o, old[d], old[c])
  <1>2. new[a] \in Range(new) /\ new[b] \in Range(new) /\ Range(new) \subseteq Range(old)
    BY DEF KeyPart, Range
  <1>3. few \subseteq many /\ many \subseteq Jobs
    BY <1>1, <1>2 DEF Crowd
  <1>4. Key(old[c]) = Key(old[d])
    BY <1>1
  <1>5. Cardinality(many) < RoundSize
    BY <1>1, <1>4 DEF InOrder
  <1> HIDE DEF few, many
  <1>6. IsFiniteSet(many)
    BY <1>3, FS_Subset, DispatchConstantsOK
  <1>7. IsFiniteSet(few) /\ Cardinality(few) <= Cardinality(many)
    BY <1>3, <1>6, FS_Subset
  <1>8. Cardinality(few) \in Nat /\ Cardinality(many) \in Nat
    BY <1>6, <1>7, FS_CardinalityType
  <1>9. Cardinality(few) < RoundSize
    BY <1>5, <1>7, <1>8, DispatchConstantsOK
  <1> QED BY <1>9 DEF few

\* With the order of the rows unchanged nothing has to be known of their places.
LEMMA PartKeepsOrder ==
  ASSUME CandidatesWait, NEW seq, KeyPart(seq, cand), cand' = seq, order' = order, KeepsOrder
  PROVE  KeepsOrder'
  <1>1. Range(cand) \subseteq Jobs
    BY DEF CandidatesWait, Range
  <1>2. InOrder(cand, order)
    BY OrderOfBatch
  <1>3. InOrder(seq, order)
    BY <1>1, <1>2, PartInOrder
  <1> QED BY <1>3, OrderOfBatch

LEMMA InitRows == Init => RowsInv /\ KeepsOrder
  <1> SUFFICES ASSUME Init PROVE RowsInv /\ KeepsOrder
    OBVIOUS
  <1>1. status \in [Jobs -> Statuses] /\ With("none") = Jobs
    BY DEF Init, Statuses, With
  <1>2. order = <<>> /\ cand = <<>> /\ DOMAIN <<>> = {} /\ <<>> \in Seq(Jobs)
    BY DEF Init
  <1>3. \A seq : seq = <<>> => IsInjective(seq) /\ Range(seq) = {}
    BY DEF IsInjective, Range
  <1> QED BY <1>1, <1>2, <1>3 DEF RowsInv, RowsTyped, CandidatesWait, KeepsOrder

\* A stage that hands on a part of its candidates.
LEMMA PartProceeds ==
  ASSUME RowsInv, NEW from, NEW to, NEW seq \in Seq(Jobs), PartOf(seq, cand, Len(cand)),
         Proceed(from, to, seq)
  PROVE  RowsInv' /\ (KeepsOrder => KeepsOrder')
  <1> USE DEF RowsInv
  <1>1. UNCHANGED <<status, order>> /\ cand' = seq
    BY DEF Proceed, rows
  <1>2. RowsTyped'
    BY <1>1 DEF RowsTyped, With
  <1>3. /\ Range(seq) \subseteq Range(cand) /\ IsInjective(seq)
        /\ \A a, b \in DOMAIN seq : a < b =>
               \E c, d \in DOMAIN cand : c < d /\ seq[a] = cand[c] /\ seq[b] = cand[d]
    BY PartFacts DEF CandidatesWait
  <1>4. CandidatesWait'
    BY <1>1, <1>3 DEF CandidatesWait, With
  <1>5. KeyPart(seq, cand)
    BY <1>3 DEF KeyPart
  <1>6. KeepsOrder => KeepsOrder'
    BY <1>1, <1>5, PartKeepsOrder
  <1> QED BY <1>2, <1>4, <1>6

LEMMA RowsHavePlaces ==
  ASSUME RowsTyped, NEW j \in Jobs, status[j] # "none"
  PROVE  /\ Place(j) \in 1..Len(order) /\ order[Place(j)] = j
         /\ \A i \in DOMAIN order : order[i] = j => i = Place(j)
  <1>1. j \in Range(order)
    BY DEF RowsTyped, With
  <1> QED BY <1>1, PlaceInFound DEF RowsTyped, Place

\* Division: numbers of one round differ by less than its size.
LEMMA OneRound ==
  ASSUME NEW x \in Nat, NEW y \in Nat, NEW r \in Nat \ {0}, ~(x \div r < y \div r)
  PROVE  y - x < r
  <1> DEFINE u == x \div r
             v == y \div r
  <1>1. u \in Nat /\ v \in Nat
    OBVIOUS
  <1>2. r * u <= x /\ y < r * v + r
    OBVIOUS
  <1>3. v <= u
    BY <1>1
  <1> HIDE DEF u, v
  <1>4. r * v <= r * u
    BY <1>1, <1>3
  <1>5. r * v \in Nat /\ r * u \in Nat
    BY <1>1
  <1> QED BY <1>2, <1>4, <1>5

\* Two rows of a namespace, the later one not in a later round: few rows between.
LEMMA RowsOfOneRound ==
  ASSUME RowsTyped, NEW prio, NEW i \in Waiting, NEW j \in Waiting,
         Workload[i].ns = Workload[j].ns, ~Precedes(i, j, prio)
  PROVE  Cardinality(Crowd(Waiting, order, i, j)) < RoundSize
  <1> DEFINE Mates(k) == {h \in Ahead(k, Waiting) : Workload[h].ns = Workload[k].ns}
             crowd == Crowd(Waiting, order, i, j)
  <1>1. \A k \in Waiting : k \in Jobs /\ Place(k) \in Nat
    BY RowsHavePlaces DEF Waiting, With, RowsTyped
  <1>2. /\ RowNumber(i) = Cardinality(Mates(i)) /\ RowNumber(j) = Cardinality(Mates(j))
        /\ \A k \in Waiting : k \in Mates(k) /\ Mates(k) \subseteq Jobs
        /\ crowd \subseteq Mates(j) \ Mates(i) /\ crowd \subseteq Jobs
    BY <1>1 DEF RowNumber, Ahead, Crowd, Place
  <1>3. Mates(i) \subseteq Mates(j) \/ crowd = {}
    <2>1. CASE Place(i) <= Place(j)
      BY <1>1, <2>1 DEF Ahead
    <2>2. CASE ~(Place(i) <= Place(j))
      <3>1. ASSUME NEW h \in crowd PROVE FALSE
        BY <1>1, <2>2 DEF Crowd, Place
      <3> QED BY <3>1
    <2> QED BY <2>1, <2>2
  <1>4. ~(RoundOf(i) < RoundOf(j))
    BY DEF Precedes
  <1> DEFINE before == Mates(i)
             upto == Mates(j)
  <1>5. IsFiniteSet(before) /\ IsFiniteSet(upto) /\ IsFiniteSet(crowd) /\ before # {} /\ upto # {}
    BY <1>2, FS_Subset, DispatchConstantsOK
  <1>6. RowNumber(i) = Cardinality(before) /\ RowNumber(j) = Cardinality(upto)
    BY <1>2
  <1>7. crowd \subseteq upto \ before /\ (before \subseteq upto \/ crowd = {})
    BY <1>2, <1>3
  <1> HIDE DEF Mates, crowd, before, upto
  <1>8. Cardinality(before) \in Nat \ {0} /\ Cardinality(upto) \in Nat \ {0}
    BY <1>5, FS_CardinalityType, FS_EmptySet
  <1>9. RowNumber(j) - 1 - (RowNumber(i) - 1) < RoundSize
    <2>1. RowNumber(i) - 1 \in Nat /\ RowNumber(j) - 1 \in Nat
      BY <1>6, <1>8
    <2> QED BY <2>1, <1>4, OneRound, DispatchConstantsOK DEF RoundOf
  <1>10. CASE crowd = {}
    BY <1>10, FS_EmptySet, DispatchConstantsOK DEF crowd
  <1>11. CASE before \subseteq upto
    <2>1. IsFiniteSet(upto \ before) /\ Cardinality(upto \ before) = Cardinality(upto) - Cardinality(before)
      <3>1. /\ IsFiniteSet(upto \ before)
            /\ Cardinality(upto \ before) = Cardinality(upto) - Cardinality(upto \cap before)
        BY <1>5, FS_Difference
      <3>2. upto \cap before = before
        BY <1>11
      <3> QED BY <3>1, <3>2
    <2>2. Cardinality(crowd) <= Cardinality(upto \ before)
      BY <1>7, <2>1, FS_Subset
    <2>3. Cardinality(crowd) \in Nat
      BY <1>5, FS_CardinalityType
    <2> QED BY <1>6, <1>8, <1>9, <2>1, <2>2, <2>3, DispatchConstantsOK DEF crowd
  <1> QED BY <1>7, <1>10, <1>11

LEMMA FetchedInOrder ==
  ASSUME RowsInv, NEW prio, NEW seq \in Orders(prio)
  PROVE  /\ seq \in Seq(Jobs) /\ IsInjective(seq) /\ Range(seq) \subseteq With("QUEUED")
         /\ InOrder(seq, order)
  <1>1. Eligible \subseteq Waiting /\ Waiting \subseteq With("QUEUED") /\ Waiting \subseteq Jobs
    BY DEF Eligible, Waiting, With
  <1>2. IsFiniteSet(Eligible)
    BY <1>1, FS_Subset, DispatchConstantsOK
  <1>3. seq \in SetToSeqs(Eligible) /\ \A a, b \in DOMAIN seq : a < b => ~Precedes(seq[b], seq[a], prio)
    BY DEF Orders
  <1>4. seq \in Seq(Eligible) /\ IsInjective(seq) /\ Range(seq) \subseteq Eligible
    BY <1>2, <1>3, SeqsOfSet
  <1>5. seq \in Seq(Jobs)
    BY <1>1, <1>4
  <1>6. ASSUME NEW a \in DOMAIN seq, NEW b \in DOMAIN seq, a < b, Key(seq[a]) = Key(seq[b])
        PROVE  Cardinality(Crowd(Range(seq), order, seq[b], seq[a])) < RoundSize
    <2>1. seq[a] \in Waiting /\ seq[b] \in Waiting
      BY <1>1, <1>4 DEF Range
    <2>2. Workload[seq[b]].ns = Workload[seq[a]].ns /\ ~Precedes(seq[b], seq[a], prio)
      BY <1>3, <1>6 DEF Key
    <2> DEFINE few  == Crowd(Range(seq), order, seq[b], seq[a])
               many == Crowd(Waiting, order, seq[b], seq[a])
    <2>3. Cardinality(many) < RoundSize
      BY <2>1, <2>2, RowsOfOneRound DEF RowsInv
    <2>4. few \subseteq many /\ many \subseteq Jobs
      BY <1>1, <1>4 DEF Crowd
    <2> HIDE DEF few, many
    <2>5. IsFiniteSet(many)
      BY <2>4, FS_Subset, DispatchConstantsOK
    <2>6. IsFiniteSet(few) /\ Cardinality(few) <= Cardinality(many)
      BY <2>4, <2>5, FS_Subset
    <2>7. Cardinality(few) \in Nat /\ Cardinality(many) \in Nat
      BY <2>5, <2>6, FS_CardinalityType
    <2>8. Cardinality(few) < RoundSize
      BY <2>3, <2>6, <2>7, DispatchConstantsOK
    <2> QED BY <2>8 DEF few
  <1> QED BY <1>1, <1>4, <1>5, <1>6 DEF InOrder

LEMMA FetchRows ==
  ASSUME RowsInv, Fetch
  PROVE  RowsInv' /\ KeepsOrder'
  <1>0. PICK prio : \E seq \in Orders(prio) : Proceed("idle", "gaps", First(FetchLimit, seq))
    BY DEF Fetch
  <1>1. PICK seq \in Orders(prio) : Proceed("idle", "gaps", First(FetchLimit, seq))
    BY <1>0
  <1>2. /\ seq \in Seq(Jobs) /\ IsInjective(seq) /\ Range(seq) \subseteq With("QUEUED")
        /\ InOrder(seq, order)
    BY FetchedInOrder
  <1> DEFINE new == First(FetchLimit, seq)
  <1>3. new \in Seq(Jobs) /\ PartOf(new, seq, Len(seq))
    BY <1>2, FirstIsPart, DispatchConstantsOK
  <1> HIDE DEF new
  <1>4. Range(new) \subseteq Range(seq) /\ IsInjective(new) /\ KeyPart(new, seq)
    BY <1>2, <1>3, PartFacts DEF KeyPart
  <1>5. UNCHANGED <<status, order>> /\ cand' = new
    BY <1>1 DEF Proceed, rows, new
  <1>6. RowsInv'
    BY <1>2, <1>3, <1>4, <1>5 DEF RowsInv, RowsTyped, CandidatesWait, With
  <1>7. Range(seq) \subseteq Jobs
    BY <1>2 DEF With
  <1>8. InOrder(new, order)
    BY <1>2, <1>4, <1>7, PartInOrder
  <1> QED BY <1>5, <1>6, <1>8, OrderOfBatch

\* Gap filling regroups its candidates by key, but not those of one key.
LEMMA RegroupedInOrder ==
  ASSUME RowsInv, NEW rank \in Injection(StalledKeys, 1..Cardinality(StalledKeys)),
         NEW seq \in Regrouped(cand, rank)
  PROVE  seq \in Seq(Jobs) /\ IsInjective(seq) /\ KeyPart(seq, cand)
  <1>1. Range(cand) \subseteq Jobs
    BY DEF RowsInv, CandidatesWait, Range
  <1>2. IsFiniteSet(Range(cand))
    BY <1>1, FS_Subset, DispatchConstantsOK
  <1>3. seq \in Seq(Range(cand)) /\ IsInjective(seq) /\ Range(seq) \subseteq Range(cand)
    BY <1>2, SeqsOfSet DEF Regrouped
  <1>4. seq \in Seq(Jobs)
    BY <1>1, <1>3
  <1>5. ASSUME NEW a \in DOMAIN seq, NEW b \in DOMAIN seq, a < b, Key(seq[a]) = Key(seq[b])
        PROVE  \E c, d \in DOMAIN cand : c < d /\ seq[a] = cand[c] /\ seq[b] = cand[d]
    <2>1. Group(seq[a], rank) = Group(seq[b], rank) /\ Group(seq[a], rank) \in Int
      BY <1>5 DEF Group, Injection
    <2>2. PlaceIn(cand, seq[a]) < PlaceIn(cand, seq[b])
      BY <1>5, <2>1 DEF Regrouped
    <2>3. seq[a] \in Range(cand) /\ seq[b] \in Range(cand)
      BY <1>3
    <2>4. /\ PlaceIn(cand, seq[a]) \in DOMAIN cand /\ cand[PlaceIn(cand, seq[a])] = seq[a]
          /\ PlaceIn(cand, seq[b]) \in DOMAIN cand /\ cand[PlaceIn(cand, seq[b])] = seq[b]
      BY <2>3, PlaceInFound DEF RowsInv, CandidatesWait
    <2> QED BY <2>2, <2>4
  <1> QED BY <1>3, <1>4, <1>5 DEF KeyPart

LEMMA GapsRows ==
  ASSUME RowsInv, ApplyGapFilling
  PROVE  RowsInv' /\ (KeepsOrder => KeepsOrder')
  <1>1. CASE ~GapFilling
    <2>1. Proceed("gaps", "quota", cand)
      BY <1>1 DEF ApplyGapFilling
    <2>2. UNCHANGED <<status, order, cand>>
      BY <2>1 DEF Proceed, rows
    <2> QED BY <2>2, OrderOfBatch DEF RowsInv, RowsTyped, CandidatesWait, With
  <1>2. CASE GapFilling
    <2>1. PICK rank \in Injection(StalledKeys, 1..Cardinality(StalledKeys)) :
              \E seq \in Regrouped(cand, rank) : Proceed("gaps", "quota", GapsFilled(seq))
      BY <1>2 DEF ApplyGapFilling
    <2>2. PICK seq \in Regrouped(cand, rank) : Proceed("gaps", "quota", GapsFilled(seq))
      BY <2>1
    <2>3. /\ seq \in Seq(Jobs) /\ IsInjective(seq) /\ Range(seq) \subseteq Range(cand)
          /\ KeyPart(seq, cand)
      BY RegroupedInOrder DEF KeyPart
    <2> DEFINE new == GapsFilled(seq)
    <2>4. new \in Seq(Passing) /\ PartOf(new, seq, Len(seq))
      BY <2>3, GapsFilledIsPart
    <2>5. new \in Seq(Jobs)
      <3>1. Passing \subseteq Jobs
        BY DEF Passing
      <3> HIDE DEF new
      <3> QED BY <2>4, <3>1
    <2> HIDE DEF new
    <2>6. /\ Range(new) \subseteq Range(seq) /\ IsInjective(new)
          /\ \A a, b \in DOMAIN new : a < b =>
                 \E c, d \in DOMAIN seq : c < d /\ new[a] = seq[c] /\ new[b] = seq[d]
      BY <2>3, <2>4, <2>5, PartFacts
    <2>7. UNCHANGED <<status, order>> /\ cand' = new
      BY <2>2 DEF Proceed, rows, new
    <2>8. RowsInv'
      BY <2>3, <2>5, <2>6, <2>7 DEF RowsInv, RowsTyped, CandidatesWait, With
    <2>9. KeyPart(new, cand)
      BY <2>3, <2>6 DEF KeyPart
    <2>10. KeepsOrder => KeepsOrder'
      BY <2>7, <2>9, PartKeepsOrder DEF RowsInv
    <2> QED BY <2>8, <2>10
  <1> QED BY <1>1, <1>2

\* The node filter ends in a batch of what it lets through.
LEMMA NodesFiltered ==
  ASSUME RowsInv, FilterByNodeCapacity
  PROVE  \E placed \in Seq(Jobs) :
            /\ PartOf(placed, cand, Len(cand)) \/ placed = cand
            /\ Proceed("nodes", "dispatch", First(BatchSize, placed))
  <1>0. cand \in Seq(Jobs)
    BY DEF RowsInv, CandidatesWait
  <1>1. CASE BinPacking /\ known # {}
    <2>1. PICK ahead : Proceed("nodes", "dispatch", First(BatchSize, Placeable(cand, RoomBeside(ahead))))
      BY <1>1 DEF FilterByNodeCapacity
    <2> DEFINE room == RoomBeside(ahead)
    <2>2. Placeable(cand, room) \in Seq(Jobs) /\ PartOf(Placeable(cand, room), cand, Len(cand))
      <3> HIDE DEF room
      <3> QED BY <1>0, PlaceableIsPart
    <2> QED BY <2>1, <2>2
  <1>2. CASE ~(BinPacking /\ known # {})
    BY <1>0, <1>2 DEF FilterByNodeCapacity
  <1> QED BY <1>1, <1>2

LEMMA FilterRows ==
  ASSUME RowsInv, FilterByResourceQuota \/ FilterByNodeCapacity
  PROVE  /\ RowsInv' /\ (KeepsOrder => KeepsOrder')
         /\ Range(cand') \subseteq Range(cand)
  <1>0. cand \in Seq(Jobs) /\ IsInjective(cand)
    BY DEF RowsInv, CandidatesWait
  <1>1. CASE FilterByResourceQuota
    <2>1. Affordable(cand) \in Seq(Jobs) /\ PartOf(Affordable(cand), cand, Len(cand))
      BY <1>0, AffordableIsPart
    <2>2. Range(Affordable(cand)) \subseteq Range(cand)
      BY <1>0, <2>1, PartFacts
    <2>3. cand' = Affordable(cand)
      BY <1>1 DEF FilterByResourceQuota, Proceed
    <2> QED BY <1>1, <2>1, <2>2, <2>3, PartProceeds DEF FilterByResourceQuota
  <1>2. CASE FilterByNodeCapacity
    <2>1. PICK placed \in Seq(Jobs) :
              /\ PartOf(placed, cand, Len(cand)) \/ placed = cand
              /\ Proceed("nodes", "dispatch", First(BatchSize, placed))
      BY <1>2, NodesFiltered
    <2> DEFINE new == First(BatchSize, placed)
    <2>2. /\ IsInjective(placed) /\ Range(placed) \subseteq Range(cand)
          /\ \A a, b \in DOMAIN placed : a < b =>
                 \E c, d \in DOMAIN cand : c < d /\ placed[a] = cand[c] /\ placed[b] = cand[d]
      <3>1. CASE PartOf(placed, cand, Len(cand))
        BY <1>0, <3>1, PartFacts
      <3>2. CASE placed = cand
        BY <1>0, <3>2
      <3> QED BY <2>1, <3>1, <3>2
    <2>3. UNCHANGED <<status, order>> /\ cand' = new
      BY <2>1 DEF Proceed, rows
    <2>4. new \in Seq(Jobs) /\ PartOf(new, placed, Len(placed))
      BY FirstIsPart, DispatchConstantsOK
    <2> HIDE DEF new
    <2>5. /\ Range(new) \subseteq Range(placed) /\ IsInjective(new)
          /\ \A a, b \in DOMAIN new : a < b =>
                 \E c, d \in DOMAIN placed : c < d /\ new[a] = placed[c] /\ new[b] = placed[d]
      BY <2>2, <2>4, PartFacts
    <2>6. RowsInv'
      BY <2>2, <2>3, <2>4, <2>5 DEF RowsInv, RowsTyped, CandidatesWait, With
    <2>7. KeyPart(new, cand)
      BY <2>2, <2>5 DEF KeyPart
    <2>8. KeepsOrder => KeepsOrder'
      BY <2>3, <2>7, PartKeepsOrder DEF RowsInv
    <2> QED BY <2>2, <2>3, <2>5, <2>6, <2>8
  <1> QED BY <1>1, <1>2

LEMMA DispatchRows ==
  ASSUME RowsInv, DispatchOne
  PROVE  RowsInv' /\ (KeepsOrder => KeepsOrder')
  <1> DEFINE j == Head(cand)
  <1>1. cand \in Seq(Jobs) /\ cand # <<>> /\ cand' = Tail(cand) /\ order' = order
    BY DEF RowsInv, CandidatesWait, DispatchOne
  <1>2. /\ Len(cand) \in Nat \ {0} /\ cand[1] = j /\ 1 \in DOMAIN cand
        /\ Tail(cand) \in Seq(Jobs) /\ DOMAIN Tail(cand) = 1..(Len(cand) - 1)
        /\ \A i \in 1..(Len(cand) - 1) : Tail(cand)[i] = cand[i + 1] /\ i + 1 \in DOMAIN cand
    BY <1>1
  <1>3. status' = status \/ status' = [status EXCEPT ![j] = "DISPATCHED"]
    BY DEF DispatchOne
  <1> DEFINE rest == Tail(cand)
  <1> HIDE DEF j, rest
  <1>4. j \in Jobs /\ status[j] = "QUEUED"
    BY <1>2 DEF RowsInv, CandidatesWait, Range, With
  <1>5. IsInjective(rest)
    BY <1>2 DEF RowsInv, CandidatesWait, IsInjective, rest
  <1>6. Range(rest) \subseteq With("QUEUED") \ {j}
    <2> SUFFICES ASSUME NEW i \in 1..(Len(cand) - 1) PROVE rest[i] \in With("QUEUED") \ {j}
      BY <1>2 DEF Range, rest
    <2>1. rest[i] = cand[i + 1] /\ i + 1 \in DOMAIN cand /\ i + 1 # 1
      BY <1>2 DEF rest
    <2>2. cand[i + 1] # cand[1]
      BY <1>2, <2>1 DEF RowsInv, CandidatesWait, IsInjective
    <2> QED BY <1>2, <2>1, <2>2 DEF RowsInv, CandidatesWait, Range
  <1>7. RowsTyped'
    <2>1. status' \in [Jobs -> Statuses] /\ With("none")' = With("none")
      BY <1>3, <1>4 DEF RowsInv, RowsTyped, With, Statuses
    <2> QED BY <1>1, <2>1 DEF RowsInv, RowsTyped
  <1>8. CandidatesWait'
    <2>1. With("QUEUED") \ {j} \subseteq With("QUEUED")'
      BY <1>3, <1>4 DEF RowsInv, RowsTyped, With
    <2> QED BY <1>1, <1>2, <1>5, <1>6, <2>1 DEF CandidatesWait, rest
  <1>9. KeyPart(rest, cand)
    <2>1. Range(rest) \subseteq Range(cand)
      BY <1>2 DEF Range, rest
    <2>2. ASSUME NEW a \in DOMAIN rest, NEW b \in DOMAIN rest, a < b
          PROVE  \E c, d \in DOMAIN cand : c < d /\ rest[a] = cand[c] /\ rest[b] = cand[d]
      <3>1. /\ rest[a] = cand[a + 1] /\ a + 1 \in DOMAIN cand
            /\ rest[b] = cand[b + 1] /\ b + 1 \in DOMAIN cand /\ a + 1 < b + 1
        BY <1>2, <2>2 DEF rest
      <3> QED BY <3>1
    <2> QED BY <2>1, <2>2 DEF KeyPart
  <1>10. KeepsOrder => KeepsOrder'
    BY <1>1, <1>9, PartKeepsOrder DEF RowsInv, rest
  <1> QED BY <1>7, <1>8, <1>10 DEF RowsInv

LEMMA SubmitRows ==
  ASSUME RowsInv, NEW j \in Jobs, Submit(j)
  PROVE  RowsInv' /\ (KeepsOrder => KeepsOrder')
  <1>1. /\ status[j] = "none" /\ status' = [status EXCEPT ![j] = "QUEUED"]
        /\ order' = Append(order, j) /\ cand' = cand
    BY DEF Submit, cycle
  <1>2. order \in Seq(Jobs) /\ IsInjective(order) /\ Range(order) = Jobs \ With("none")
    BY DEF RowsInv, RowsTyped
  <1>3. /\ order' \in Seq(Jobs) /\ DOMAIN order' = 1..(Len(order) + 1)
        /\ DOMAIN order = 1..Len(order) /\ Len(order) \in Nat
        /\ order'[Len(order) + 1] = j /\ \A i \in 1..Len(order) : order'[i] = order[i]
    BY <1>1, <1>2
  <1>4. \A i \in DOMAIN order : order[i] # j
    BY <1>1, <1>2 DEF Range, With
  <1>5. IsInjective(order')
    <2> SUFFICES ASSUME NEW a \in DOMAIN order', NEW b \in DOMAIN order', order'[a] = order'[b]
                 PROVE  a = b
      BY DEF IsInjective
    <2>1. CASE a \in DOMAIN order /\ b \in DOMAIN order
      BY <1>2, <1>3, <2>1 DEF IsInjective
    <2>2. CASE a \notin DOMAIN order \/ b \notin DOMAIN order
      BY <1>3, <1>4, <2>2
    <2> QED BY <2>1, <2>2
  <1>6. Range(order') = Range(order) \cup {j}
    <2>1. ASSUME NEW x \in Range(order') PROVE x \in Range(order) \cup {j}
      BY <1>3 DEF Range
    <2>2. j \in Range(order')
      BY <1>3 DEF Range
    <2>3. ASSUME NEW x \in Range(order) PROVE x \in Range(order')
      BY <1>3 DEF Range
    <2> QED BY <2>1, <2>2, <2>3
  <1>7. RowsTyped'
    <2>1. status' \in [Jobs -> Statuses] /\ With("none")' = With("none") \ {j}
      BY <1>1 DEF RowsInv, RowsTyped, With, Statuses
    <2> QED BY <1>1, <1>2, <1>3, <1>5, <1>6, <2>1 DEF RowsTyped
  <1>8. CandidatesWait'
    BY <1>1 DEF RowsInv, RowsTyped, CandidatesWait, With
  <1>9. ASSUME KeepsOrder PROVE KeepsOrder'
    <2>1. ASSUME NEW i \in Jobs, status[i] # "none" PROVE Place(i)' = Place(i)
      <3>1. /\ Place(i) \in 1..Len(order) /\ order[Place(i)] = i
        BY <2>1, RowsHavePlaces DEF RowsInv
      <3>2. RowsTyped' /\ i \in Jobs /\ status'[i] # "none"
        BY <1>1, <1>7, <2>1 DEF RowsInv, RowsTyped
      <3>3. \A k \in DOMAIN order' : order'[k] = i => k = PlaceIn(order', i)
        <4>1. i \in Range(order')
          BY <1>3, <3>1 DEF Range
        <4> QED BY <1>3, <1>5, <4>1, PlaceInFound
      <3> QED BY <1>3, <3>1, <3>3 DEF Place
    <2>2. \A a \in DOMAIN cand : cand[a] \in Jobs /\ status[cand[a]] # "none"
      BY DEF RowsInv, CandidatesWait, Range, With
    <2>3. \A i \in Range(cand) : PlaceIn(order', i) = PlaceIn(order, i)
      BY <2>1, <2>2 DEF Place, Range
    <2>4. InOrder(cand, order)
      BY <1>9, OrderOfBatch
    <2>5. InOrder(cand, order')
      <3>1. Range(cand) \subseteq Jobs /\ KeyPart(cand, cand)
        BY <2>2 DEF Range, KeyPart
      <3> QED BY <2>3, <2>4, <3>1, PartInOrder
    <2> QED BY <1>1, <2>5, OrderOfBatch
  <1> QED BY <1>7, <1>8, <1>9 DEF RowsInv
\* A row that goes away leaves the others in order.
LEMMA JobEndsRows ==
  ASSUME RowsInv, NEW j \in Jobs, JobEnds(j)
  PROVE  RowsInv' /\ (KeepsOrder => KeepsOrder')
  <1>1. /\ status[j] = "RUNNING" /\ status' = [status EXCEPT ![j] = "none"]
        /\ order' = Without(j, order) /\ cand' = cand
    BY DEF JobEnds, cycle
  <1>2. order \in Seq(Jobs) /\ IsInjective(order) /\ Range(order) = Jobs \ With("none")
    BY DEF RowsInv, RowsTyped
  <1>3. /\ order' \in Seq(Jobs) /\ PartOf(order', order, Len(order))
        /\ Range(order') = Range(order) \ {j}
    BY <1>1, <1>2, WithoutIsPart
  <1>4. /\ IsInjective(order')
        /\ \A a, b \in DOMAIN order' : a < b =>
               \E c, d \in DOMAIN order : c < d /\ order'[a] = order[c] /\ order'[b] = order[d]
    BY <1>2, <1>3, PartFacts
  <1>5. RowsTyped'
    <2>1. status' \in [Jobs -> Statuses] /\ With("none")' = With("none") \cup {j}
      BY <1>1 DEF RowsInv, RowsTyped, With, Statuses
    <2> QED BY <1>2, <1>3, <1>4, <2>1 DEF RowsTyped
  <1>6. CandidatesWait'
    BY <1>1 DEF RowsInv, RowsTyped, CandidatesWait, With
  <1>7. ASSUME NEW i \in Range(cand), NEW k \in Range(cand)
        PROVE  /\ PlaceIn(order', i) < PlaceIn(order', k) => PlaceIn(order, i) < PlaceIn(order, k)
               /\ PlaceIn(order', i) <= PlaceIn(order', k) => PlaceIn(order, i) <= PlaceIn(order, k)
    <2>0. i \in Jobs /\ status[i] = "QUEUED" /\ k \in Jobs /\ status[k] = "QUEUED"
      BY DEF RowsInv, CandidatesWait, With
    <2>1. i \in Range(order') /\ k \in Range(order')
      BY <1>1, <1>2, <1>3, <2>0 DEF With
    <2>2. /\ PlaceIn(order', i) \in DOMAIN order' /\ order'[PlaceIn(order', i)] = i
          /\ PlaceIn(order', k) \in DOMAIN order' /\ order'[PlaceIn(order', k)] = k
          /\ PlaceIn(order', i) \in Int /\ PlaceIn(order', k) \in Int
      BY <1>3, <2>1, PlaceInFound
    <2>3. /\ Place(i) \in Int /\ Place(k) \in Int
          /\ \A c \in DOMAIN order : /\ order[c] = i => c = Place(i)
                                     /\ order[c] = k => c = Place(k)
      BY <2>0, RowsHavePlaces DEF RowsInv
    <2>4. ASSUME PlaceIn(order', i) < PlaceIn(order', k) PROVE Place(i) < Place(k)
      <3>1. PICK c \in DOMAIN order, d \in DOMAIN order : c < d /\ i = order[c] /\ k = order[d]
        BY <1>4, <2>2, <2>4
      <3> QED BY <2>3, <3>1
    <2>5. ASSUME PlaceIn(order', i) = PlaceIn(order', k) PROVE Place(i) <= Place(k)
      <3>1. i = k
        BY <2>2, <2>5
      <3> QED BY <2>3, <3>1
    <2> QED BY <2>2, <2>3, <2>4, <2>5 DEF Place
  <1>8. ASSUME KeepsOrder PROVE KeepsOrder'
    <2>1. Range(cand) \subseteq Jobs /\ KeyPart(cand, cand)
      BY DEF RowsInv, CandidatesWait, Range, KeyPart
    <2>2. InOrder(cand, order)
      BY <1>8, OrderOfBatch
    <2>3. InOrder(cand, order')
      BY <1>7, <2>1, <2>2, PartInOrder
    <2> QED BY <1>1, <2>3, OrderOfBatch
  <1> QED BY <1>5, <1>6, <1>8 DEF RowsInv

\* The other steps leave the batch and the order of the rows alone, and put rows
\* back or take them further on their way.
LEMMA MovedRows ==
  ASSUME RowsInv, UNCHANGED <<order, cand>>,
         \/ status' = status
         \/ \E j \in Jobs : /\ status[j] \in {"DISPATCHED", "RUNNING"}
                            /\ status' \in {[status EXCEPT ![j] = "QUEUED"],
                                            [status EXCEPT ![j] = "RUNNING"]}
  PROVE  RowsInv' /\ (KeepsOrder => KeepsOrder')
  <1>1. status' \in [Jobs -> Statuses] /\ With("none")' = With("none")
    BY DEF RowsInv, RowsTyped, With, Statuses
  <1>2. With("QUEUED") \subseteq With("QUEUED")'
    BY DEF RowsInv, RowsTyped, With
  <1>3. RowsInv'
    BY <1>1, <1>2 DEF RowsInv, RowsTyped, CandidatesWait
  <1>4. ASSUME KeepsOrder PROVE KeepsOrder'
    BY <1>4, OrderOfBatch
  <1> QED BY <1>3, <1>4

LEMMA PendingInFlight ==
  ASSUME NEW j, Pending(j)
  PROVE  j \in Jobs /\ status[j] \in {"DISPATCHED", "RUNNING"} /\ j \notin Range(kueue)
  BY DEF Pending, Admitted, InFlight, With

LEMMA NextRows ==
  ASSUME RowsInv, [Next]_vars
  PROVE  RowsInv' /\ (KeepsOrder => KeepsOrder')
  <1>1. CASE Fetch
    BY <1>1, FetchRows
  <1>2. CASE ApplyGapFilling
    BY <1>2, GapsRows
  <1>3. CASE FilterByResourceQuota \/ FilterByNodeCapacity
    BY <1>3, FilterRows
  <1>4. CASE DispatchOne
    BY <1>4, DispatchRows
  <1>5. CASE EndCycle
    BY <1>5, MovedRows DEF EndCycle, rows
  <1>6. CASE SyncNodes
    BY <1>6, MovedRows DEF SyncNodes, rows, cycle
  <1>7. CASE SyncResourceQuota
    BY <1>7, MovedRows DEF SyncResourceQuota, rows, cycle
  <1>8. CASE Tick
    BY <1>8, MovedRows DEF Tick
  <1>9. ASSUME NEW j \in Jobs, Submit(j) PROVE RowsInv' /\ (KeepsOrder => KeepsOrder')
    BY <1>9, SubmitRows
  <1>10. ASSUME NEW j \in Jobs, Requeue(j) PROVE RowsInv' /\ (KeepsOrder => KeepsOrder')
    BY <1>10, MovedRows DEF Requeue, cycle
  <1>11. ASSUME NEW j \in Jobs, Admit(j) PROVE RowsInv' /\ (KeepsOrder => KeepsOrder')
    BY <1>11, MovedRows DEF Admit, rows, cycle
  <1>12. ASSUME NEW j \in Jobs, JobEnds(j) PROVE RowsInv' /\ (KeepsOrder => KeepsOrder')
    BY <1>12, JobEndsRows
  <1>13. ASSUME NEW j \in Jobs, NEW n \in Nodes, PodStarts(j, n)
         PROVE  RowsInv' /\ (KeepsOrder => KeepsOrder')
    <2>1. status[j] \in {"DISPATCHED", "RUNNING"}
      BY <1>13, PendingInFlight DEF PodStarts
    <2> QED BY <1>13, <2>1, MovedRows DEF PodStarts, cycle
  <1>14. ASSUME NEW j \in Jobs, NEW n \in Nodes, PodEnds(j, n)
         PROVE  RowsInv' /\ (KeepsOrder => KeepsOrder')
    BY <1>14, MovedRows DEF PodEnds, cycle
  <1>15. ASSUME NEW n \in Nodes, NodeLeaves(n) \/ NodeReturns(n)
         PROVE  RowsInv' /\ (KeepsOrder => KeepsOrder')
    BY <1>15, MovedRows DEF NodeLeaves, NodeReturns, rows, cycle
  <1>16. CASE UNCHANGED vars
    BY <1>16, MovedRows DEF vars, rows, cycle
  <1> QED
    BY <1>1, <1>2, <1>3, <1>4, <1>5, <1>6, <1>7, <1>8, <1>9, <1>10, <1>11, <1>12, <1>13,
       <1>14, <1>15, <1>16 DEF Next

\* A cycle dispatches the rows of a namespace and flavor in the order of their
\* submission but for those of one round, whatever is requeued, ends or is
\* submitted meanwhile.
THEOREM BatchIsInOrder == Spec => []KeepsOrder
  <1>1. Init => RowsInv /\ KeepsOrder
    BY InitRows
  <1>2. (RowsInv /\ KeepsOrder) /\ [Next]_vars => (RowsInv /\ KeepsOrder)'
    BY NextRows
  <1> QED BY <1>1, <1>2, PTL DEF Spec

-----------------------------------------------------------------------------
(* Sums over finite sets. *)

\* What holds of the empty set, and of a set if it holds of the set without any
\* one of its members, holds of every subset of a finite set.
LEMMA SubsetInduction ==
  ASSUME NEW S, IsFiniteSet(S), NEW Good, {} \in Good,
         \A T \in SUBSET S : T # {} /\ (\A x \in T : T \ {x} \in Good) => T \in Good
  PROVE  \A T \in SUBSET S : T \in Good
  <1> DEFINE Sizes == {n \in Nat : \A T \in SUBSET S : Cardinality(T) = n => T \in Good}
  <1>1. \A T \in SUBSET S : IsFiniteSet(T) /\ Cardinality(T) \in Nat
    BY FS_Subset, FS_CardinalityType
  <1>2. 0 \in Sizes
    BY <1>1, FS_EmptySet
  <1>3. ASSUME NEW n \in Nat, n \in Sizes PROVE n + 1 \in Sizes
    <2> SUFFICES ASSUME NEW T \in SUBSET S, Cardinality(T) = n + 1 PROVE T \in Good
      OBVIOUS
    <2>1. T # {}
      BY FS_EmptySet
    <2>2. ASSUME NEW x \in T PROVE T \ {x} \in Good
      <3>1. Cardinality(T \ {x}) = n
        BY <1>1, FS_RemoveElement
      <3> QED BY <1>3, <3>1
    <2> QED BY <2>1, <2>2
  <1>4. ASSUME NEW N \in Nat PROVE N \in Sizes
    <2> HIDE DEF Sizes
    <2> QED BY <1>2, <1>3, SetInduction
  <1> QED BY <1>1, <1>4

Picked(T) == CHOOSE x \in T : TRUE
\* sums has the sums of f over the subsets of S of at most n members.
SumsUpTo(sums, f, S, n) ==
    sums = [T \in {U \in SUBSET S : Cardinality(U) <= n} |->
               IF T = {} THEN 0 ELSE f[Picked(T)] + sums[T \ {Picked(T)}]]
Sums(sums, f, S) ==
    sums = [T \in SUBSET S |-> IF T = {} THEN 0 ELSE f[Picked(T)] + sums[T \ {Picked(T)}]]

LEMMA SumsExist ==
  ASSUME NEW f, NEW S, IsFiniteSet(S)
  PROVE  \E sums : Sums(sums, f, S)
  <1> DEFINE Good == {n \in Nat : \E sums : SumsUpTo(sums, f, S, n)}
  <1>1. \A T \in SUBSET S : IsFiniteSet(T) /\ Cardinality(T) \in Nat /\ Cardinality(T) <= Cardinality(S)
    BY FS_Subset, FS_CardinalityType
  <1>2. \A T \in SUBSET S : T # {} =>
            /\ Picked(T) \in T /\ T \ {Picked(T)} \in SUBSET S
            /\ Cardinality(T \ {Picked(T)}) = Cardinality(T) - 1
    <2> SUFFICES ASSUME NEW T \in SUBSET S, T # {}
                 PROVE  /\ Picked(T) \in T /\ T \ {Picked(T)} \in SUBSET S
                        /\ Cardinality(T \ {Picked(T)}) = Cardinality(T) - 1
      OBVIOUS
    <2>1. Picked(T) \in T
      BY Zenon DEF Picked
    <2> QED BY <1>1, <2>1, FS_RemoveElement
  <1>3. 0 \in Good
    <2> DEFINE none == [T \in {U \in SUBSET S : Cardinality(U) <= 0} |-> 0]
    <2>1. {U \in SUBSET S : Cardinality(U) <= 0} = {{}}
      <3>1. Cardinality({}) = 0
        BY FS_EmptySet
      <3>2. ASSUME NEW U \in SUBSET S, Cardinality(U) <= 0 PROVE U = {}
        BY <1>1, <3>2, FS_EmptySet
      <3> QED BY <3>1, <3>2
    <2>2. SumsUpTo(none, f, S, 0)
      BY <2>1 DEF SumsUpTo
    <2> QED BY <2>2
  <1>4. ASSUME NEW n \in Nat, NEW g, SumsUpTo(g, f, S, n)
        PROVE  \E sums : SumsUpTo(sums, f, S, n + 1)
    <2> DEFINE Small(m) == {U \in SUBSET S : Cardinality(U) <= m}
               h == [T \in Small(n + 1) |->
                        IF Cardinality(T) <= n THEN g[T] ELSE f[Picked(T)] + g[T \ {Picked(T)}]]
    <2>1. ASSUME NEW T \in Small(n + 1)
          PROVE  h[T] = IF T = {} THEN 0 ELSE f[Picked(T)] + h[T \ {Picked(T)}]
      <3>1. CASE T = {}
        <4>1. Cardinality(T) = 0 /\ T \in Small(n)
          BY <3>1, FS_EmptySet
        <4>2. h[T] = g[T]
          BY <2>1, <4>1
        <4> QED BY <1>4, <3>1, <4>1, <4>2 DEF SumsUpTo
      <3>2. CASE T # {}
        <4> DEFINE less == T \ {Picked(T)}
        <4>1. less \in Small(n) /\ less \in Small(n + 1)
          BY <1>1, <1>2, <3>2
        <4>2. h[less] = g[less]
          BY <4>1
        <4>3. h[T] = f[Picked(T)] + g[less]
          <5>1. CASE Cardinality(T) <= n
            BY <1>4, <3>2, <5>1 DEF SumsUpTo
          <5>2. CASE ~(Cardinality(T) <= n)
            BY <5>2
          <5> QED BY <5>1, <5>2
        <4> QED BY <3>2, <4>2, <4>3
      <3> QED BY <3>1, <3>2
    <2>2. h = [T \in Small(n + 1) |-> h[T]]
      OBVIOUS
    <2> HIDE DEF h
    <2>3. SumsUpTo(h, f, S, n + 1)
      BY <2>1, <2>2 DEF SumsUpTo
    <2> QED BY <2>3
  <1>5. Cardinality(S) \in Good
    <2>1. \A n \in 0..Cardinality(S) : n \in Good /\ n < Cardinality(S) => n + 1 \in Good
      <3> HIDE DEF SumsUpTo
      <3> QED BY <1>4
    <2> HIDE DEF Good
    <2> QED BY <1>1, <1>3, <2>1, SetInduction
  <1>6. {U \in SUBSET S : Cardinality(U) <= Cardinality(S)} = SUBSET S
    BY <1>1
  <1> QED BY <1>5, <1>6 DEF SumsUpTo, Sums

LEMMA SumsAgree ==
  ASSUME NEW f, NEW S, NEW T, NEW a, NEW b, IsFiniteSet(S), T \in SUBSET S, Sums(a, f, S), Sums(b, f, T)
  PROVE  a[T] = b[T]
  <1> DEFINE Good == {U \in SUBSET T : a[U] = b[U]}
  <1>1. {} \in Good
    BY DEF Sums
  <1>2. ASSUME NEW U \in SUBSET T, U # {}, \A x \in U : U \ {x} \in Good PROVE U \in Good
    <2>1. Picked(U) \in U
      BY <1>2, Zenon DEF Picked
    <2>2. a[U \ {Picked(U)}] = b[U \ {Picked(U)}]
      BY <1>2, <2>1
    <2>3. a[U] = f[Picked(U)] + a[U \ {Picked(U)}]
      BY <1>2 DEF Sums
    <2>4. b[U] = f[Picked(U)] + b[U \ {Picked(U)}]
      BY <1>2 DEF Sums
    <2> QED BY <2>2, <2>3, <2>4
  <1>3. IsFiniteSet(T)
    BY FS_Subset
  <1>4. \A U \in SUBSET T : U \in Good
    <2> HIDE DEF Good
    <2> QED BY <1>1, <1>2, <1>3, SubsetInduction
  <1> QED BY <1>4

\* The library's sum, unfolded.
LEMMA SumPicked ==
  ASSUME NEW f, NEW S, IsFiniteSet(S)
  PROVE  /\ SumFunctionOnSet(f, {}) = 0
         /\ S # {} => /\ Picked(S) \in S
                      /\ SumFunctionOnSet(f, S) = f[Picked(S)] + SumFunctionOnSet(f, S \ {Picked(S)})
  <1>1. ASSUME NEW T \in SUBSET S
        PROVE  \E sums : Sums(sums, f, T) /\ SumFunctionOnSet(f, T) = sums[T]
    <2>1. \E sums : Sums(sums, f, T)
      BY FS_Subset, SumsExist
    <2>2. SumFunctionOnSet(f, T) = (CHOOSE sums : Sums(sums, f, T))[T]
      BY Zenon DEF SumFunctionOnSet, FoldFunctionOnSet, MapThenFoldSet, Sums, Picked
    <2> QED BY <2>1, <2>2
  <1>2. PICK a : Sums(a, f, S) /\ SumFunctionOnSet(f, S) = a[S]
    BY <1>1
  <1>3. ASSUME NEW T \in SUBSET S PROVE SumFunctionOnSet(f, T) = a[T]
    <2>1. PICK b : Sums(b, f, T) /\ SumFunctionOnSet(f, T) = b[T]
      BY <1>1
    <2>2. Sums(a, f, S) /\ Sums(b, f, T)
      BY <1>2, <2>1
    <2>3. a[T] = b[T]
      BY <2>2, SumsAgree, Zenon
    <2> QED BY <2>1, <2>3
  <1>4. SumFunctionOnSet(f, {}) = 0
    BY <1>2, <1>3 DEF Sums
  <1>5. ASSUME S # {}
        PROVE  /\ Picked(S) \in S
               /\ SumFunctionOnSet(f, S) = f[Picked(S)] + SumFunctionOnSet(f, S \ {Picked(S)})
    <2>1. Picked(S) \in S
      BY <1>5, Zenon DEF Picked
    <2>2. a[S] = f[Picked(S)] + a[S \ {Picked(S)}]
      BY <1>2, <1>5 DEF Sums
    <2> QED BY <1>2, <1>3, <2>1, <2>2
  <1> QED BY <1>4, <1>5

LEMMA SumIsNatural ==
  ASSUME NEW f, NEW S, IsFiniteSet(S), \A x \in S : f[x] \in Nat
  PROVE  SumFunctionOnSet(f, S) \in Nat
  <1> DEFINE Good == {T \in SUBSET S : SumFunctionOnSet(f, T) \in Nat}
  <1>1. {} \in Good
    <2>1. SumFunctionOnSet(f, {}) = 0
      BY SumPicked, Zenon
    <2> QED BY <2>1
  <1>2. ASSUME NEW T \in SUBSET S, T # {}, \A x \in T : T \ {x} \in Good PROVE T \in Good
    <2>1. IsFiniteSet(T)
      BY FS_Subset
    <2>2. Picked(T) \in T /\ SumFunctionOnSet(f, T) = f[Picked(T)] + SumFunctionOnSet(f, T \ {Picked(T)})
      BY <1>2, <2>1, SumPicked, Zenon
    <2>3. f[Picked(T)] \in Nat /\ SumFunctionOnSet(f, T \ {Picked(T)}) \in Nat
      BY <1>2, <2>2
    <2> QED BY <2>2, <2>3
  <1>3. \A T \in SUBSET S : T \in Good
    <2> HIDE DEF Good
    <2> QED BY <1>1, <1>2, SubsetInduction
  <1> QED BY <1>3

\* Whichever member is taken first.
LEMMA SumWithout ==
  ASSUME NEW f, NEW S, NEW x \in S, IsFiniteSet(S), \A y \in S : f[y] \in Nat
  PROVE  /\ SumFunctionOnSet(f, S) = f[x] + SumFunctionOnSet(f, S \ {x})
         /\ SumFunctionOnSet(f, S \ {x}) \in Nat
  <1> DEFINE Good == {T \in SUBSET S : \A y \in T :
                         SumFunctionOnSet(f, T) = f[y] + SumFunctionOnSet(f, T \ {y})}
  <1>1. {} \in Good
    OBVIOUS
  <1>2. \A T \in SUBSET S : IsFiniteSet(T) /\ SumFunctionOnSet(f, T) \in Nat
    BY FS_Subset, SumIsNatural
  <1>3. ASSUME NEW T \in SUBSET S, T # {}, \A y \in T : T \ {y} \in Good PROVE T \in Good
    <2> SUFFICES ASSUME NEW y \in T
                 PROVE  SumFunctionOnSet(f, T) = f[y] + SumFunctionOnSet(f, T \ {y})
      OBVIOUS
    <2> DEFINE c == Picked(T)
    <2>1. c \in T /\ SumFunctionOnSet(f, T) = f[c] + SumFunctionOnSet(f, T \ {c})
      BY <1>2, <1>3, SumPicked
    <2> HIDE DEF c
    <2>2. CASE c = y
      BY <2>1, <2>2
    <2>3. CASE c # y
      <3>1. SumFunctionOnSet(f, T \ {c}) = f[y] + SumFunctionOnSet(f, (T \ {c}) \ {y})
        BY <1>3, <2>1, <2>3
      <3>2. SumFunctionOnSet(f, T \ {y}) = f[c] + SumFunctionOnSet(f, (T \ {y}) \ {c})
        BY <1>3, <2>1, <2>3
      <3>3. (T \ {y}) \ {c} = (T \ {c}) \ {y} /\ (T \ {y}) \ {c} \in SUBSET S
        OBVIOUS
      <3>4. SumFunctionOnSet(f, (T \ {y}) \ {c}) \in Nat /\ f[c] \in Nat /\ f[y] \in Nat
        BY <1>2, <2>1, <3>3
      <3> QED BY <2>1, <3>1, <3>2, <3>3, <3>4
    <2> QED BY <2>2, <2>3
  <1>4. \A T \in SUBSET S : T \in Good
    <2> HIDE DEF Good
    <2> QED BY <1>1, <1>3, SubsetInduction
  <1> QED BY <1>2, <1>4

LEMMA SumsOfEqual ==
  ASSUME NEW f, NEW g, NEW S, IsFiniteSet(S), \A x \in S : f[x] = g[x]
  PROVE  SumFunctionOnSet(f, S) = SumFunctionOnSet(g, S)
  <1> DEFINE Good == {T \in SUBSET S : SumFunctionOnSet(f, T) = SumFunctionOnSet(g, T)}
  <1>1. {} \in Good
    BY SumPicked
  <1>2. ASSUME NEW T \in SUBSET S, T # {}, \A x \in T : T \ {x} \in Good PROVE T \in Good
    <2>1. IsFiniteSet(T)
      BY FS_Subset
    <2>2. Picked(T) \in T
      BY <1>2, <2>1, SumPicked
    <2>3. SumFunctionOnSet(f, T) = f[Picked(T)] + SumFunctionOnSet(f, T \ {Picked(T)})
      BY <1>2, <2>1, SumPicked
    <2>4. SumFunctionOnSet(g, T) = g[Picked(T)] + SumFunctionOnSet(g, T \ {Picked(T)})
      BY <1>2, <2>1, SumPicked
    <2> QED BY <1>2, <2>2, <2>3, <2>4
  <1>3. \A T \in SUBSET S : T \in Good
    <2> HIDE DEF Good
    <2> QED BY <1>1, <1>2, SubsetInduction
  <1> QED BY <1>3

\* A sum after one of its terms has changed.
LEMMA SumChanged ==
  ASSUME NEW f, NEW g, NEW S, IsFiniteSet(S), \A y \in S : f[y] \in Nat, NEW x \in S,
         g[x] \in Nat, \A y \in S \ {x} : g[y] = f[y]
  PROVE  /\ SumFunctionOnSet(f, S) \in Nat
         /\ SumFunctionOnSet(g, S) = (SumFunctionOnSet(f, S) - f[x]) + g[x]
  <1>1. \A y \in S : g[y] \in Nat
    OBVIOUS
  <1>2. IsFiniteSet(S \ {x})
    BY FS_Subset
  <1>3. SumFunctionOnSet(f, S \ {x}) = SumFunctionOnSet(g, S \ {x})
    BY <1>2, SumsOfEqual
  <1>4. /\ SumFunctionOnSet(f, S) = f[x] + SumFunctionOnSet(f, S \ {x})
        /\ SumFunctionOnSet(f, S \ {x}) \in Nat
    BY SumWithout
  <1>5. SumFunctionOnSet(g, S) = g[x] + SumFunctionOnSet(g, S \ {x})
    BY <1>1, SumWithout
  <1> QED BY <1>3, <1>4, <1>5

-----------------------------------------------------------------------------
(* Type correctness. *)

LEMMA LimitsPositive ==
  ASSUME NEW j \in Jobs
  PROVE  Workload[j].limit \in Nat /\ Workload[j].pods \in Nat /\ Workload[j].tasks \in Nat
  BY DispatchConstantsOK

LEMMA LeastOfTwo ==
  ASSUME NEW a \in Nat, NEW b \in Nat
  PROVE  LeastOf({a, b}) \in {a, b} /\ LeastOf({a, b}) <= a /\ LeastOf({a, b}) <= b
  <1>1. \E x \in {a, b} : \A y \in {a, b} : x <= y
    <2>1. a <= b \/ b <= a
      OBVIOUS
    <2> QED BY <2>1
  <1> QED BY <1>1 DEF LeastOf

\* Jobs that wait to be admitted are on their way, and wait once.
KueueInFlight ==
    /\ kueue \in Seq(Jobs) /\ IsInjective(kueue)
    /\ Range(kueue) \subseteq InFlight

\* No job has more pods than it may have in parallel, or than tasks left.
PodsCounted ==
    /\ pods \in [Jobs -> [Nodes -> Nat]] /\ ended \in [Jobs -> Nat]
    /\ \A j \in Jobs : PodCount(j) <= Workload[j].pods /\ PodCount(j) + ended[j] <= Workload[j].tasks

TimesTyped ==
    /\ waited \in [Jobs -> 0..DispatchTimeout]
    /\ left \in [Jobs -> Nat] /\ \A j \in Jobs : left[j] <= Workload[j].limit
    /\ backoff \in [Jobs -> 0..(BackoffMax + 1)]
    /\ attempts \in [Jobs -> 0..MaxAttempts]

SitesTyped ==
    /\ hosts \in [Jobs -> SUBSET Nodes] /\ ran \in [Jobs -> SUBSET Nodes]
    /\ up \subseteq Nodes /\ known \subseteq Nodes /\ outages \in 0..MaxOutages
    /\ stage \in {"idle", "gaps", "quota", "nodes", "dispatch"} /\ passed \in BOOLEAN

UsedTyped == used \in [DOMAIN HardQuota -> [Quantities -> Nat]]

TypeInv == RowsInv /\ KueueInFlight /\ PodsCounted /\ TimesTyped /\ SitesTyped /\ UsedTyped

LEMMA SumOverNodes ==
  ASSUME NEW h \in [Nodes -> Nat], NEW n \in Nodes, NEW k \in Nat
  PROVE  /\ SumFunction(h) \in Nat /\ h[n] <= SumFunction(h)
         /\ SumFunction([h EXCEPT ![n] = k]) = (SumFunction(h) - h[n]) + k
  <1> DEFINE g == [h EXCEPT ![n] = k]
  <1>1. /\ DOMAIN h = Nodes /\ DOMAIN g = Nodes /\ g[n] = k /\ g[n] \in Nat
        /\ \A m \in Nodes : h[m] \in Nat
        /\ \A m \in Nodes \ {n} : g[m] = h[m]
    OBVIOUS
  <1> HIDE DEF g
  <1>2. IsFiniteSet(Nodes)
    BY DispatchConstantsOK
  <1>3. /\ SumFunctionOnSet(h, Nodes) \in Nat
        /\ SumFunctionOnSet(g, Nodes) = (SumFunctionOnSet(h, Nodes) - h[n]) + g[n]
    BY <1>1, <1>2, SumChanged
  <1>4. /\ SumFunctionOnSet(h, Nodes) = h[n] + SumFunctionOnSet(h, Nodes \ {n})
        /\ SumFunctionOnSet(h, Nodes \ {n}) \in Nat
    BY <1>1, <1>2, SumWithout, Zenon
  <1>5. SumFunction(h) = SumFunctionOnSet(h, Nodes) /\ SumFunction(g) = SumFunctionOnSet(g, Nodes)
    BY <1>1 DEF SumFunction
  <1>6. SumFunction(h) \in Nat /\ h[n] <= SumFunction(h)
    BY <1>1, <1>3, <1>4, <1>5
  <1>7. SumFunction(g) = (SumFunction(h) - h[n]) + k
    BY <1>1, <1>3, <1>5
  <1> QED BY <1>6, <1>7 DEF g

LEMMA CountsNatural ==
  ASSUME NEW h \in [Nodes -> Nat]
  PROVE  SumFunction(h) \in Nat
  <1>1. IsFiniteSet(Nodes) /\ DOMAIN h = Nodes /\ \A m \in Nodes : h[m] \in Nat
    BY DispatchConstantsOK
  <1>2. SumFunctionOnSet(h, Nodes) \in Nat
    BY <1>1, SumIsNatural, Zenon
  <1> QED BY <1>1, <1>2 DEF SumFunction

LEMMA NoPods ==
  SumFunction(Nowhere) = 0
  <1> DEFINE Good == {T \in SUBSET Nodes : SumFunctionOnSet(Nowhere, T) = 0}
  <1>1. {} \in Good
    <2>1. SumFunctionOnSet(Nowhere, {}) = 0
      BY DispatchConstantsOK, SumPicked, Zenon
    <2> QED BY <2>1
  <1>2. ASSUME NEW T \in SUBSET Nodes, T # {}, \A x \in T : T \ {x} \in Good PROVE T \in Good
    <2>1. IsFiniteSet(T)
      BY FS_Subset, DispatchConstantsOK
    <2>2. /\ Picked(T) \in T
          /\ SumFunctionOnSet(Nowhere, T) = Nowhere[Picked(T)] + SumFunctionOnSet(Nowhere, T \ {Picked(T)})
      BY <1>2, <2>1, SumPicked, Zenon
    <2>3. Nowhere[Picked(T)] = 0 /\ SumFunctionOnSet(Nowhere, T \ {Picked(T)}) = 0
      BY <1>2, <2>2 DEF Nowhere
    <2> QED BY <2>2, <2>3
  <1>3. IsFiniteSet(Nodes)
    BY DispatchConstantsOK
  <1>4. \A T \in SUBSET Nodes : T \in Good
    <2> HIDE DEF Good
    <2> QED BY <1>1, <1>2, <1>3, SubsetInduction
  <1>5. DOMAIN Nowhere = Nodes
    BY DEF Nowhere
  <1> QED BY <1>4, <1>5 DEF SumFunction

LEMMA PodsCountedNext ==
  ASSUME PodsCounted, [Next]_vars
  PROVE  PodsCounted'
  <1> USE DEF PodsCounted
  <1>1. CASE UNCHANGED <<pods, ended>>
    BY <1>1 DEF PodCount
  <1>2. ASSUME NEW j \in Jobs, NEW n \in Nodes, NEW k \in Nat, NEW e \in Nat,
               pods' = [pods EXCEPT ![j][n] = k], ended' = [ended EXCEPT ![j] = e],
               (PodCount(j) - pods[j][n]) + k <= Workload[j].pods,
               (PodCount(j) - pods[j][n]) + k + e <= Workload[j].tasks
        PROVE  PodsCounted'
    <2>1. pods' \in [Jobs -> [Nodes -> Nat]] /\ ended' \in [Jobs -> Nat]
      BY <1>2
    <2>2. \A i \in Jobs : i # j => pods'[i] = pods[i] /\ ended'[i] = ended[i]
      BY <1>2
    <2>3. PodCount(j)' = (PodCount(j) - pods[j][n]) + k
      <3>1. pods[j] \in [Nodes -> Nat] /\ pods'[j] = [pods[j] EXCEPT ![n] = k]
        BY <1>2
      <3> QED BY <1>2, <3>1, SumOverNodes DEF PodCount
    <2>4. ended'[j] = e
      BY <1>2
    <2>5. ASSUME NEW i \in Jobs
          PROVE  (PodCount(i) <= Workload[i].pods /\ PodCount(i) + ended[i] <= Workload[i].tasks)'
      <3>1. CASE i = j
        BY <1>2, <2>3, <2>4, <3>1
      <3>2. CASE i # j
        BY <2>2, <3>2 DEF PodCount
      <3> QED BY <3>1, <3>2
    <2> QED BY <2>1, <2>5
  <1>3. ASSUME NEW j \in Jobs PROVE
            /\ PodCount(j) \in Nat /\ ended[j] \in Nat /\ pods[j] \in [Nodes -> Nat]
            /\ Workload[j].pods \in Nat /\ Workload[j].tasks \in Nat
            /\ \A n \in Nodes : pods[j][n] \in Nat /\ pods[j][n] <= PodCount(j)
    <2>1. pods[j] \in [Nodes -> Nat] /\ ended[j] \in Nat
      OBVIOUS
    <2>2. PodCount(j) \in Nat
      BY <2>1, CountsNatural DEF PodCount
    <2>3. ASSUME NEW n \in Nodes PROVE pods[j][n] \in Nat /\ pods[j][n] <= PodCount(j)
      BY <2>1, SumOverNodes DEF PodCount
    <2> QED BY <2>1, <2>2, <2>3, LimitsPositive
  <1>4. ASSUME NEW j \in Jobs, NEW n \in Nodes, PodStarts(j, n) PROVE PodsCounted'
    <2>1. pods' = [pods EXCEPT ![j][n] = pods[j][n] + 1] /\ ended' = [ended EXCEPT ![j] = ended[j]]
      BY <1>4 DEF PodStarts
    <2>2. PodCount(j) < LeastOf({Workload[j].pods, Workload[j].tasks - ended[j]})
      BY <1>4 DEF PodStarts, Pending
    <2>3. Workload[j].tasks - ended[j] \in Nat
      BY <1>3
    <2>4. PodCount(j) < Workload[j].pods /\ PodCount(j) < Workload[j].tasks - ended[j]
      <3>1. /\ LeastOf({Workload[j].pods, Workload[j].tasks - ended[j]})
                   \in {Workload[j].pods, Workload[j].tasks - ended[j]}
            /\ LeastOf({Workload[j].pods, Workload[j].tasks - ended[j]}) <= Workload[j].pods
            /\ LeastOf({Workload[j].pods, Workload[j].tasks - ended[j]}) <= Workload[j].tasks - ended[j]
        BY <1>3, <2>3, LeastOfTwo
      <3> QED BY <1>3, <2>2, <2>3, <3>1
    <2>5. /\ (PodCount(j) - pods[j][n]) + (pods[j][n] + 1) <= Workload[j].pods
          /\ (PodCount(j) - pods[j][n]) + (pods[j][n] + 1) + ended[j] <= Workload[j].tasks
          /\ pods[j][n] + 1 \in Nat
      BY <1>3, <2>4
    <2> QED BY <1>2, <1>3, <2>1, <2>5
  <1>5. ASSUME NEW j \in Jobs, NEW n \in Nodes, PodEnds(j, n) PROVE PodsCounted'
    <2>1. /\ pods' = [pods EXCEPT ![j][n] = pods[j][n] - 1] /\ ended' = [ended EXCEPT ![j] = ended[j] + 1]
          /\ pods[j][n] > 0
      BY <1>5 DEF PodEnds
    <2>2. /\ (PodCount(j) - pods[j][n]) + (pods[j][n] - 1) <= Workload[j].pods
          /\ (PodCount(j) - pods[j][n]) + (pods[j][n] - 1) + (ended[j] + 1) <= Workload[j].tasks
          /\ pods[j][n] - 1 \in Nat /\ ended[j] + 1 \in Nat
      BY <1>3, <2>1
    <2> QED BY <1>2, <2>1, <2>2
  <1>6. ASSUME NEW j \in Jobs, JobEnds(j) PROVE PodsCounted'
    <2>1. pods' = [pods EXCEPT ![j] = Nowhere] /\ ended' = [ended EXCEPT ![j] = 0]
      BY <1>6 DEF JobEnds
    <2>2. pods' \in [Jobs -> [Nodes -> Nat]] /\ ended' \in [Jobs -> Nat]
      BY <2>1 DEF Nowhere
    <2>3. \A i \in Jobs : i # j => pods'[i] = pods[i] /\ ended'[i] = ended[i]
      BY <2>1
    <2>4. PodCount(j)' = 0 /\ ended'[j] = 0
      BY <2>1, NoPods DEF PodCount
    <2>5. ASSUME NEW i \in Jobs
          PROVE  (PodCount(i) <= Workload[i].pods /\ PodCount(i) + ended[i] <= Workload[i].tasks)'
      <3>1. CASE i = j
        BY <1>3, <2>4, <3>1
      <3>2. CASE i # j
        BY <2>3, <3>2 DEF PodCount
      <3> QED BY <3>1, <3>2
    <2> QED BY <2>2, <2>5
  <1>7. CASE Fetch
    <2>1. PICK to, seq : Proceed("idle", to, seq)
      BY <1>7 DEF Fetch
    <2> QED BY <1>1, <2>1 DEF Proceed, cluster
  <1>8. CASE ApplyGapFilling
    <2>1. PICK to, seq : Proceed("gaps", to, seq)
      BY <1>8 DEF ApplyGapFilling
    <2> QED BY <1>1, <2>1 DEF Proceed, cluster
  <1>9. CASE FilterByResourceQuota \/ FilterByNodeCapacity
    BY <1>1, <1>9 DEF FilterByResourceQuota, FilterByNodeCapacity, Proceed, cluster
  <1>10. CASE DispatchOne \/ EndCycle \/ SyncNodes \/ SyncResourceQuota \/ Tick
    BY <1>1, <1>10 DEF DispatchOne, EndCycle, SyncNodes, SyncResourceQuota, Tick, cluster
  <1>11. ASSUME NEW j \in Jobs, Submit(j) \/ Requeue(j) \/ Admit(j) PROVE PodsCounted'
    BY <1>1, <1>11 DEF Submit, Requeue, Admit, cluster
  <1>12. ASSUME NEW n \in Nodes, NodeLeaves(n) \/ NodeReturns(n) PROVE PodsCounted'
    BY <1>1, <1>12 DEF NodeLeaves, NodeReturns
  <1>13. CASE UNCHANGED vars
    BY <1>1, <1>13 DEF vars, cluster
  <1> QED
    BY <1>4, <1>5, <1>6, <1>7, <1>8, <1>9, <1>10, <1>11, <1>12, <1>13 DEF Next

LEMMA AppendedOnce ==
  ASSUME NEW S, NEW seq \in Seq(S), IsInjective(seq), NEW j \in S, j \notin Range(seq)
  PROVE  /\ Append(seq, j) \in Seq(S) /\ IsInjective(Append(seq, j))
         /\ Range(Append(seq, j)) = Range(seq) \cup {j}
  <1> DEFINE new == Append(seq, j)
  <1>1. /\ new \in Seq(S) /\ DOMAIN new = 1..(Len(seq) + 1)
        /\ DOMAIN seq = 1..Len(seq) /\ Len(seq) \in Nat
        /\ new[Len(seq) + 1] = j /\ \A i \in 1..Len(seq) : new[i] = seq[i]
    OBVIOUS
  <1> HIDE DEF new
  <1>2. \A i \in DOMAIN seq : seq[i] # j
    BY DEF Range
  <1>3. ASSUME NEW a \in DOMAIN new, NEW b \in DOMAIN new, new[a] = new[b] PROVE a = b
    <2>1. CASE a \in DOMAIN seq /\ b \in DOMAIN seq
      BY <1>1, <1>3, <2>1 DEF IsInjective
    <2>2. CASE a \notin DOMAIN seq \/ b \notin DOMAIN seq
      BY <1>1, <1>2, <1>3, <2>2
    <2> QED BY <2>1, <2>2
  <1>4. ASSUME NEW x \in Range(new) PROVE x \in Range(seq) \cup {j}
    BY <1>1 DEF Range
  <1>5. j \in Range(new) /\ \A i \in DOMAIN seq : seq[i] \in Range(new)
    BY <1>1 DEF Range
  <1>6. Range(new) = Range(seq) \cup {j}
    BY <1>4, <1>5 DEF Range
  <1> QED BY <1>1, <1>3, <1>6 DEF IsInjective, new

LEMMA KueueNext ==
  ASSUME RowsInv, KueueInFlight, [Next]_vars
  PROVE  KueueInFlight'
  <1> USE DEF RowsInv, RowsTyped
  <1>1. CASE UNCHANGED <<status, kueue>>
    BY <1>1 DEF KueueInFlight, InFlight, With
  <1>2. ASSUME NEW j \in Jobs, kueue' = Without(j, kueue),
               \A i \in Jobs : i # j => status'[i] = status[i]
        PROVE  KueueInFlight'
    <2>1. /\ kueue' \in Seq(Jobs) /\ PartOf(kueue', kueue, Len(kueue))
          /\ Range(kueue') = Range(kueue) \ {j}
      BY <1>2, WithoutIsPart DEF KueueInFlight
    <2>2. IsInjective(kueue')
      BY <2>1, PartFacts DEF KueueInFlight
    <2>3. Range(kueue') \subseteq InFlight'
      BY <1>2, <2>1 DEF KueueInFlight, InFlight, With
    <2> QED BY <2>1, <2>2, <2>3 DEF KueueInFlight
  <1>3. ASSUME NEW j \in Jobs, kueue' = kueue, j \notin Range(kueue),
               \A i \in Jobs : i # j => status'[i] = status[i]
        PROVE  KueueInFlight'
    BY <1>3 DEF KueueInFlight, InFlight, With
  <1>4. CASE DispatchOne
    <2> DEFINE j == Head(cand)
    <2>1. j \in Jobs /\ status[j] = "QUEUED"
      <3>1. cand \in Seq(Jobs) /\ cand # <<>>
        BY <1>4 DEF DispatchOne, CandidatesWait
      <3>2. 1 \in DOMAIN cand /\ cand[1] = j
        BY <3>1
      <3> HIDE DEF j
      <3> QED BY <3>2 DEF CandidatesWait, Range, With
    <2>2. j \notin Range(kueue)
      BY <2>1 DEF KueueInFlight, InFlight, With
    <2>3. \/ UNCHANGED <<status, kueue>>
          \/ status' = [status EXCEPT ![j] = "DISPATCHED"] /\ kueue' = Append(kueue, j)
      BY <1>4 DEF DispatchOne
    <2> HIDE DEF j
    <2>4. CASE status' = [status EXCEPT ![j] = "DISPATCHED"] /\ kueue' = Append(kueue, j)
      <3>1. /\ kueue' \in Seq(Jobs) /\ IsInjective(kueue')
            /\ Range(kueue') \subseteq Range(kueue) \cup {j}
        BY <2>1, <2>2, <2>4, AppendedOnce DEF KueueInFlight
      <3>2. InFlight' = InFlight \cup {j}
        BY <2>1, <2>4 DEF InFlight, With
      <3> QED BY <3>1, <3>2 DEF KueueInFlight
    <2> QED BY <1>1, <2>3, <2>4
  <1>5. ASSUME NEW j \in Jobs, Submit(j) PROVE KueueInFlight'
    <2>1. j \notin Range(kueue) /\ kueue' = kueue /\ \A i \in Jobs : i # j => status'[i] = status[i]
      BY <1>5 DEF Submit, cluster, KueueInFlight, InFlight, With
    <2> QED BY <1>3, <2>1
  <1>6. ASSUME NEW j \in Jobs, Requeue(j) PROVE KueueInFlight'
    <2>1. kueue' = Without(j, kueue) /\ \A i \in Jobs : i # j => status'[i] = status[i]
      BY <1>6 DEF Requeue
    <2> QED BY <1>2, <2>1
  <1>7. ASSUME NEW j \in Jobs, Admit(j) PROVE KueueInFlight'
    <2>1. kueue' = Without(j, kueue) /\ \A i \in Jobs : i # j => status'[i] = status[i]
      BY <1>7 DEF Admit, rows
    <2> QED BY <1>2, <2>1
  <1>8. ASSUME NEW j \in Jobs, JobEnds(j) PROVE KueueInFlight'
    <2>1. j \notin Range(kueue) /\ kueue' = kueue /\ \A i \in Jobs : i # j => status'[i] = status[i]
      BY <1>8 DEF JobEnds, KueueInFlight, InFlight, With
    <2> QED BY <1>3, <2>1
  <1>9. ASSUME NEW j \in Jobs, NEW n \in Nodes, PodStarts(j, n) PROVE KueueInFlight'
    <2>1. j \notin Range(kueue)
      BY <1>9, PendingInFlight DEF PodStarts
    <2>2. kueue' = kueue /\ \A i \in Jobs : i # j => status'[i] = status[i]
      BY <1>9 DEF PodStarts
    <2> QED BY <1>3, <2>1, <2>2
  <1>10. ASSUME NEW j \in Jobs, NEW n \in Nodes, PodEnds(j, n) PROVE KueueInFlight'
    BY <1>1, <1>10 DEF PodEnds
  <1>11. CASE Fetch
    <2>1. PICK to, seq : Proceed("idle", to, seq)
      BY <1>11 DEF Fetch
    <2> QED BY <1>1, <2>1 DEF Proceed, rows, cluster
  <1>12. CASE ApplyGapFilling
    <2>1. PICK to, seq : Proceed("gaps", to, seq)
      BY <1>12 DEF ApplyGapFilling
    <2> QED BY <1>1, <2>1 DEF Proceed, rows, cluster
  <1>13. CASE FilterByResourceQuota \/ FilterByNodeCapacity
    BY <1>1, <1>13 DEF FilterByResourceQuota, FilterByNodeCapacity, Proceed, rows, cluster
  <1>14. CASE EndCycle \/ SyncNodes \/ SyncResourceQuota \/ Tick
    BY <1>1, <1>14 DEF EndCycle, SyncNodes, SyncResourceQuota, Tick, rows, cluster
  <1>15. ASSUME NEW n \in Nodes, NodeLeaves(n) \/ NodeReturns(n) PROVE KueueInFlight'
    BY <1>1, <1>15 DEF NodeLeaves, NodeReturns, rows
  <1>16. CASE UNCHANGED vars
    BY <1>1, <1>16 DEF vars, rows, cluster
  <1> QED
    BY <1>4, <1>5, <1>6, <1>7, <1>8, <1>9, <1>10, <1>11, <1>12, <1>13, <1>14, <1>15, <1>16 DEF Next

LEMMA DoubledNatural ==
  \A n \in 0..MaxAttempts : Doubled[n] \in Nat
  <1> SUFFICES ASSUME NEW n \in 0..MaxAttempts PROVE Doubled[n] \in Nat
    OBVIOUS
  <1> DEFINE Good == {m \in 0..n : Doubled[m] \in Nat}
  <1>1. MaxAttempts \in Nat /\ DispatchTimeout \in Nat
    BY DispatchConstantsOK
  <1>2. 0 \in Good
    BY <1>1, DoubledStep
  <1>3. ASSUME NEW m \in 0..n, m \in Good, m < n PROVE m + 1 \in Good
    <2>1. m + 1 \in 1..MaxAttempts /\ (m + 1) - 1 = m /\ m + 1 \in 0..n
      BY <1>1, <1>3
    <2>2. Doubled[m + 1] = 2 * Doubled[m]
      BY <1>1, <2>1, DoubledStep
    <2>3. Doubled[m] \in Nat
      BY <1>3
    <2>4. 2 * Doubled[m] \in Nat
      BY <2>3
    <2> QED BY <2>1, <2>2, <2>4
  <1>4. n \in Nat /\ \A m \in 0..n : m \in Good /\ m < n => m + 1 \in Good
    BY <1>1, <1>3
  <1>5. n \in Good
    <2> HIDE DEF Good
    <2> QED BY <1>2, <1>4, SetInduction
  <1> QED BY <1>5

LEMMA TimesNext ==
  ASSUME RowsInv, TimesTyped, [Next]_vars
  PROVE  TimesTyped'
  <1> USE DEF TimesTyped
  <1>1. CASE UNCHANGED <<waited, left, backoff, attempts>>
    BY <1>1
  <1>0. /\ DispatchTimeout \in Nat \ {0} /\ BackoffMax \in Nat /\ MaxAttempts \in Nat \ {0}
        /\ \A j \in Jobs : Workload[j].limit \in Nat
    BY LimitsPositive, DispatchConstantsOK
  <1>2. CASE DispatchOne
    <2> DEFINE j == Head(cand)
    <2>1. UNCHANGED <<left, attempts>>
      BY <1>2 DEF DispatchOne
    <2>2. \/ backoff' = [backoff EXCEPT ![j] = 1] /\ waited' = waited
          \/ backoff' = backoff /\ waited' = [waited EXCEPT ![j] = 0]
      BY <1>2 DEF DispatchOne
    <2> QED BY <1>0, <2>1, <2>2
  <1>3. CASE Tick
    <2>1. UNCHANGED attempts
      BY <1>3 DEF Tick
    <2>2. waited' \in [Jobs -> 0..DispatchTimeout]
      <3>1. \A j \in Jobs : status[j] = "DISPATCHED" => waited[j] < DispatchTimeout
        BY <1>3 DEF Tick, With
      <3>2. waited' = [j \in Jobs |-> IF status[j] = "DISPATCHED" THEN waited[j] + 1 ELSE waited[j]]
        BY <1>3 DEF Tick
      <3> QED BY <1>0, <3>1, <3>2
    <2>3. left' \in [Jobs -> Nat] /\ \A j \in Jobs : left'[j] <= Workload[j].limit
      <3>1. left' = [j \in Jobs |-> Monus(left[j], 1)]
        BY <1>3 DEF Tick
      <3>2. ASSUME NEW j \in Jobs
            PROVE  Monus(left[j], 1) \in Nat /\ Monus(left[j], 1) <= Workload[j].limit
        BY <1>0 DEF Monus
      <3> QED BY <3>1, <3>2
    <2>4. backoff' \in [Jobs -> 0..(BackoffMax + 1)]
      <3>1. backoff' = [j \in Jobs |-> Monus(backoff[j], 1)]
        BY <1>3 DEF Tick
      <3>2. ASSUME NEW j \in Jobs PROVE Monus(backoff[j], 1) \in 0..(BackoffMax + 1)
        BY <1>0 DEF Monus
      <3> QED BY <3>1, <3>2
    <2> QED BY <2>1, <2>2, <2>3, <2>4
  <1>4. ASSUME NEW j \in Jobs, Requeue(j) PROVE TimesTyped'
    <2>1. /\ attempts' = [attempts EXCEPT ![j] = LeastOf({attempts[j] + 1, MaxAttempts})]
          /\ backoff' = [backoff EXCEPT ![j] = LeastOf({Doubled[(attempts[j] + 1) - 1], BackoffMax})]
          /\ waited' = [waited EXCEPT ![j] = 0] /\ left' = left
      BY <1>4 DEF Requeue
    <2>2. attempts[j] \in 0..MaxAttempts /\ attempts[j] + 1 \in Nat /\ (attempts[j] + 1) - 1 = attempts[j]
      BY <1>0
    <2>3. LeastOf({attempts[j] + 1, MaxAttempts}) \in 0..MaxAttempts
      <3>1. /\ LeastOf({attempts[j] + 1, MaxAttempts}) \in {attempts[j] + 1, MaxAttempts}
            /\ LeastOf({attempts[j] + 1, MaxAttempts}) <= MaxAttempts
        BY <1>0, <2>2, LeastOfTwo
      <3> QED BY <1>0, <2>2, <3>1
    <2>4. Doubled[attempts[j]] \in Nat
      BY <2>2, DoubledNatural
    <2>5. LeastOf({Doubled[attempts[j]], BackoffMax}) \in 0..(BackoffMax + 1)
      <3>1. /\ LeastOf({Doubled[attempts[j]], BackoffMax}) \in {Doubled[attempts[j]], BackoffMax}
            /\ LeastOf({Doubled[attempts[j]], BackoffMax}) <= BackoffMax
        BY <1>0, <2>4, LeastOfTwo
      <3> QED BY <1>0, <2>4, <3>1
    <2>6. 0 \in 0..DispatchTimeout
      BY <1>0
    <2> QED BY <2>1, <2>2, <2>3, <2>5, <2>6
  <1>5. ASSUME NEW j \in Jobs, JobEnds(j) PROVE TimesTyped'
    BY <1>0, <1>5 DEF JobEnds
  <1>6. ASSUME NEW j \in Jobs, NEW n \in Nodes, PodStarts(j, n) PROVE TimesTyped'
    BY <1>0, <1>6 DEF PodStarts
  <1>7. CASE Fetch
    <2>1. PICK to, seq : Proceed("idle", to, seq)
      BY <1>7 DEF Fetch
    <2> QED BY <1>1, <2>1 DEF Proceed, rows
  <1>8. CASE ApplyGapFilling
    <2>1. PICK to, seq : Proceed("gaps", to, seq)
      BY <1>8 DEF ApplyGapFilling
    <2> QED BY <1>1, <2>1 DEF Proceed, rows
  <1>9. CASE FilterByResourceQuota \/ FilterByNodeCapacity
    BY <1>1, <1>9 DEF FilterByResourceQuota, FilterByNodeCapacity, Proceed, rows
  <1>10. CASE EndCycle \/ SyncNodes \/ SyncResourceQuota
    BY <1>1, <1>10 DEF EndCycle, SyncNodes, SyncResourceQuota, rows
  <1>11. ASSUME NEW j \in Jobs, Submit(j) \/ Admit(j) PROVE TimesTyped'
    BY <1>1, <1>11 DEF Submit, Admit, rows
  <1>12. ASSUME NEW j \in Jobs, NEW n \in Nodes, PodEnds(j, n) PROVE TimesTyped'
    BY <1>1, <1>12 DEF PodEnds
  <1>13. ASSUME NEW n \in Nodes, NodeLeaves(n) \/ NodeReturns(n) PROVE TimesTyped'
    BY <1>1, <1>13 DEF NodeLeaves, NodeReturns, rows
  <1>14. CASE UNCHANGED vars
    BY <1>1, <1>14 DEF vars, rows
  <1> QED
    BY <1>2, <1>3, <1>4, <1>5, <1>6, <1>7, <1>8, <1>9, <1>10, <1>11, <1>12, <1>13, <1>14 DEF Next

LEMMA SitesNext ==
  ASSUME SitesTyped, [Next]_vars
  PROVE  SitesTyped'
  <1> USE DEF SitesTyped
  <1>1. CASE UNCHANGED <<hosts, ran, up, known, outages, stage, passed>>
    BY <1>1
  <1>2. ASSUME NEW from, NEW to \in {"gaps", "quota", "nodes", "dispatch"}, NEW seq, Proceed(from, to, seq)
        PROVE  SitesTyped'
    BY <1>2 DEF Proceed, rows, cluster, tables
  <1>3. CASE Fetch
    <2>1. PICK seq : Proceed("idle", "gaps", seq)
      BY <1>3 DEF Fetch
    <2> QED BY <1>2, <2>1
  <1>4. CASE ApplyGapFilling
    <2>1. PICK seq : Proceed("gaps", "quota", seq)
      BY <1>4 DEF ApplyGapFilling
    <2> QED BY <1>2, <2>1
  <1>5. CASE FilterByResourceQuota
    <2>1. PICK seq : Proceed("quota", "nodes", seq)
      BY <1>5 DEF FilterByResourceQuota
    <2> QED BY <1>2, <2>1
  <1>6. CASE FilterByNodeCapacity
    <2>1. PICK seq : Proceed("nodes", "dispatch", seq)
      BY <1>6 DEF FilterByNodeCapacity
    <2> QED BY <1>2, <2>1
  <1>7. CASE DispatchOne
    BY <1>1, <1>7 DEF DispatchOne, tables
  <1>8. CASE EndCycle
    BY <1>8 DEF EndCycle, rows, cluster, tables
  <1>9. CASE SyncNodes
    BY <1>9 DEF SyncNodes, rows, cluster, cycle
  <1>10. CASE SyncResourceQuota
    BY <1>1, <1>10 DEF SyncResourceQuota, rows, cluster, cycle
  <1>11. CASE Tick
    BY <1>11 DEF Tick, cluster, tables
  <1>12. ASSUME NEW j \in Jobs, Submit(j) \/ Requeue(j) \/ Admit(j) PROVE SitesTyped'
    BY <1>1, <1>12 DEF Submit, Requeue, Admit, rows, cluster, tables, cycle
  <1>13. ASSUME NEW j \in Jobs, JobEnds(j) PROVE SitesTyped'
    BY <1>13 DEF JobEnds, tables, cycle
  <1>14. ASSUME NEW j \in Jobs, ran' \in [Jobs -> SUBSET Nodes], Noted(j)
         PROVE  hosts' \in [Jobs -> SUBSET Nodes]
    <2>1. hosts' = [hosts EXCEPT ![j] = hosts[j] \cup ran'[j]] \/ hosts' = hosts
      BY <1>14 DEF Noted
    <2> QED BY <1>14, <2>1
  <1>15. ASSUME NEW j \in Jobs, NEW n \in Nodes, PodStarts(j, n) PROVE SitesTyped'
    <2>1. ran' \in [Jobs -> SUBSET Nodes]
      BY <1>15 DEF PodStarts
    <2>2. hosts' = hosts \/ Noted(j)
      BY <1>15 DEF PodStarts
    <2>3. UNCHANGED <<up, known, outages, stage, passed>>
      BY <1>15 DEF PodStarts, tables, cycle
    <2> QED BY <1>14, <2>1, <2>2, <2>3
  <1>16. ASSUME NEW j \in Jobs, NEW n \in Nodes, PodEnds(j, n) PROVE SitesTyped'
    <2>1. ran' = ran /\ Noted(j) /\ UNCHANGED <<up, known, outages, stage, passed>>
      BY <1>16 DEF PodEnds, tables, cycle
    <2> QED BY <1>14, <2>1
  <1>17. ASSUME NEW n \in Nodes, NodeLeaves(n) PROVE SitesTyped'
    <2>1. outages' \in 0..MaxOutages
      BY <1>17, DispatchConstantsOK DEF NodeLeaves
    <2> QED BY <1>17, <2>1 DEF NodeLeaves, rows, tables, cycle
  <1>18. ASSUME NEW n \in Nodes, NodeReturns(n) PROVE SitesTyped'
    BY <1>18 DEF NodeReturns, rows, tables, cycle
  <1>19. CASE UNCHANGED vars
    BY <1>1, <1>19 DEF vars, rows, cluster, tables, cycle
  <1> QED
    BY <1>3, <1>4, <1>5, <1>6, <1>7, <1>8, <1>9, <1>10, <1>11, <1>12, <1>13, <1>15, <1>16, <1>17,
       <1>18, <1>19 DEF Next

LEMMA SumOfFunction ==
  ASSUME NEW S, IsFiniteSet(S), NEW h \in [S -> Nat]
  PROVE  SumFunction(h) \in Nat
  <1>1. DOMAIN h = S /\ \A x \in S : h[x] \in Nat
    OBVIOUS
  <1>2. SumFunctionOnSet(h, S) \in Nat
    BY <1>1, SumIsNatural, Zenon
  <1> QED BY <1>1, <1>2 DEF SumFunction

\* What a namespace uses is a number of each quantity.
LEMMA UsageTyped ==
  ASSUME PodsCounted, NEW s
  PROVE  Usage(s) \in [Quantities -> Nat]
  <1> SUFFICES ASSUME NEW q \in Quantities
               PROVE  (IF q = "count"
                       THEN Cardinality({j \in InFlight \cup With("RUNNING") : Workload[j].ns = s})
                       ELSE SumFunction([j \in {i \in Jobs : Workload[i].ns = s} |->
                                            Workload[j].ask[q] * PodCount(j)])) \in Nat
    BY DEF Usage
  <1>1. CASE q = "count"
    <2> DEFINE S == {j \in InFlight \cup With("RUNNING") : Workload[j].ns = s}
    <2>1. S \subseteq Jobs
      BY DEF InFlight, With
    <2>2. IsFiniteSet(S)
      BY <2>1, FS_Subset, DispatchConstantsOK
    <2> HIDE DEF S
    <2>3. Cardinality(S) \in Nat
      BY <2>2, FS_CardinalityType
    <2> QED BY <1>1, <2>3 DEF S
  <1>2. CASE q # "count"
    <2> DEFINE S == {i \in Jobs : Workload[i].ns = s}
               h == [j \in S |-> Workload[j].ask[q] * PodCount(j)]
    <2>1. q \in Resources
      BY <1>2 DEF Quantities
    <2>2. ASSUME NEW j \in S PROVE Workload[j].ask[q] * PodCount(j) \in Nat
      <3>1. Workload[j].ask[q] \in Nat
        BY <2>1, DispatchConstantsOK
      <3>2. pods[j] \in [Nodes -> Nat]
        BY DEF PodsCounted
      <3>3. PodCount(j) \in Nat
        BY <3>2, CountsNatural DEF PodCount
      <3> QED BY <3>1, <3>3
    <2>3. h \in [S -> Nat]
      BY <2>2
    <2>4. IsFiniteSet(S)
      BY FS_Subset, DispatchConstantsOK
    <2>5. SumFunction(h) \in Nat
      <3> HIDE DEF h, S
      <3> QED BY <2>3, <2>4, SumOfFunction
    <2> QED BY <1>2, <2>5
  <1> QED BY <1>1, <1>2

LEMMA UsedNext ==
  ASSUME PodsCounted, UsedTyped, [Next]_vars
  PROVE  UsedTyped'
  <1> USE DEF UsedTyped
  <1>1. CASE SyncResourceQuota
    <2>1. used' = [s \in DOMAIN HardQuota |-> Usage(s)]
      BY <1>1 DEF SyncResourceQuota
    <2>2. \A s \in DOMAIN HardQuota : Usage(s) \in [Quantities -> Nat]
      BY UsageTyped
    <2> QED BY <2>1, <2>2
  <1>2. CASE Fetch
    <2>1. PICK to, seq : Proceed("idle", to, seq)
      BY <1>2 DEF Fetch
    <2> QED BY <2>1 DEF Proceed, tables
  <1>3. CASE ApplyGapFilling
    <2>1. PICK to, seq : Proceed("gaps", to, seq)
      BY <1>3 DEF ApplyGapFilling
    <2> QED BY <2>1 DEF Proceed, tables
  <1>4. CASE FilterByResourceQuota \/ FilterByNodeCapacity
    BY <1>4 DEF FilterByResourceQuota, FilterByNodeCapacity, Proceed, tables
  <1>5. CASE DispatchOne \/ EndCycle \/ SyncNodes \/ Tick
    BY <1>5 DEF DispatchOne, EndCycle, SyncNodes, Tick, tables
  <1>6. ASSUME NEW j \in Jobs, Submit(j) \/ Requeue(j) \/ Admit(j) \/ JobEnds(j) PROVE UsedTyped'
    BY <1>6 DEF Submit, Requeue, Admit, JobEnds, tables
  <1>7. ASSUME NEW j \in Jobs, NEW n \in Nodes, PodStarts(j, n) \/ PodEnds(j, n) PROVE UsedTyped'
    BY <1>7 DEF PodStarts, PodEnds, tables
  <1>8. ASSUME NEW n \in Nodes, NodeLeaves(n) \/ NodeReturns(n) PROVE UsedTyped'
    BY <1>8 DEF NodeLeaves, NodeReturns, tables
  <1>9. CASE UNCHANGED vars
    BY <1>9 DEF vars, tables
  <1> QED
    BY <1>1, <1>2, <1>3, <1>4, <1>5, <1>6, <1>7, <1>8, <1>9 DEF Next

LEMMA InitTyped == Init => TypeInv
  <1> SUFFICES ASSUME Init PROVE TypeInv
    OBVIOUS
  <1> USE DEF Init
  <1>1. RowsInv
    BY InitRows
  <1>2. KueueInFlight
    <2>1. kueue = <<>> /\ <<>> \in Seq(Jobs) /\ DOMAIN <<>> = {}
      OBVIOUS
    <2>2. \A seq : seq = <<>> => IsInjective(seq) /\ Range(seq) = {}
      BY DEF IsInjective, Range
    <2> QED BY <2>1, <2>2 DEF KueueInFlight
  <1>3. PodsCounted
    <2>1. pods \in [Jobs -> [Nodes -> Nat]] /\ ended \in [Jobs -> Nat]
      BY DEF Nowhere
    <2>2. \A j \in Jobs : PodCount(j) = 0 /\ ended[j] = 0
      BY NoPods DEF PodCount
    <2> QED BY <2>1, <2>2, LimitsPositive DEF PodsCounted
  <1>4. TimesTyped
    BY LimitsPositive, DispatchConstantsOK DEF TimesTyped
  <1>5. SitesTyped
    <2>1. 0 \in 0..MaxOutages
      BY DispatchConstantsOK
    <2> QED BY <2>1 DEF SitesTyped
  <1>6. UsedTyped
    BY DEF UsedTyped, Zero
  <1> QED BY <1>1, <1>2, <1>3, <1>4, <1>5, <1>6 DEF TypeInv

LEMMA TypeInvAlways == Spec => []TypeInv
  <1>1. TypeInv /\ [Next]_vars => TypeInv'
    BY NextRows, KueueNext, PodsCountedNext, TimesNext, SitesNext, UsedNext DEF TypeInv
  <1> QED BY InitTyped, <1>1, PTL DEF Spec

\* Every column and every table keeps its bounds: a job has never more pods than
\* it may have in parallel, whatever fails, comes back or is requeued, and what
\* waits to be admitted is on its way.
THEOREM TypesAreKept == Spec => []TypeOK
  <1>1. TypeInv => TypeOK
    <2> SUFFICES ASSUME TypeInv PROVE TypeOK
      OBVIOUS
    <2>1. /\ status \in [Jobs -> {"none", "QUEUED", "DISPATCHED", "RUNNING"}]
          /\ Range(order) = Jobs \ With("none") /\ IsInjective(order)
          /\ IsInjective(cand) /\ Range(kueue) \subseteq InFlight /\ IsInjective(kueue)
      BY DEF TypeInv, RowsInv, RowsTyped, Statuses, CandidatesWait, KueueInFlight
    <2>2. Range(cand) \subseteq Jobs \ With("none")
      BY DEF TypeInv, RowsInv, CandidatesWait, With
    <2>3. ASSUME NEW j \in Jobs
          PROVE  /\ left[j] \in 0..Workload[j].limit /\ ended[j] \in 0..Workload[j].tasks
                 /\ \A n \in Nodes : pods[j][n] \in 0..Workload[j].pods
      <3>1. pods[j] \in [Nodes -> Nat] /\ left[j] \in Nat /\ ended[j] \in Nat
        BY DEF TypeInv, PodsCounted, TimesTyped
      <3>2. PodCount(j) \in Nat
        BY <3>1, CountsNatural DEF PodCount
      <3>3. \A n \in Nodes : pods[j][n] <= PodCount(j)
        BY <3>1, SumOverNodes DEF PodCount
      <3>4. /\ left[j] <= Workload[j].limit /\ PodCount(j) <= Workload[j].pods
            /\ PodCount(j) + ended[j] <= Workload[j].tasks
        BY DEF TypeInv, PodsCounted, TimesTyped
      <3> QED BY <3>1, <3>2, <3>3, <3>4, LimitsPositive
    <2>4. \A s \in DOMAIN HardQuota : used[s] \in [Quantities -> Nat]
      BY DEF TypeInv, UsedTyped
    <2>5. /\ waited \in [Jobs -> 0..DispatchTimeout]
          /\ backoff \in [Jobs -> 0..(BackoffMax + 1)] /\ attempts \in [Jobs -> 0..MaxAttempts]
      BY DEF TypeInv, TimesTyped
    <2> QED BY <2>1, <2>2, <2>3, <2>4, <2>5 DEF TypeInv, SitesTyped, TypeOK
  <1> QED BY <1>1, TypeInvAlways, PTL

-----------------------------------------------------------------------------
(* What a stalled job waits for. *)

LeftTyped == left \in [Jobs -> Nat]

NoLonger(j) == \A x \in Spans(j)' : \E y \in Spans(j) : x <= y

\* Enough for it: who runs ran before, or was on its way, and who is on its way was.
LEMMA NoNewSpans ==
  ASSUME LeftTyped, NEW j \in Jobs,
         \A i \in With("RUNNING")' :
             \/ i \in With("RUNNING") /\ left'[i] <= left[i]
             \/ i \in InFlight \cup LetThrough /\ left'[i] <= Workload[i].limit,
         (InFlight \cup LetThrough)' \subseteq (InFlight \cup LetThrough) \cap Jobs
  PROVE  NoLonger(j)
  <1>1. ASSUME NEW i \in OthersOf(j, With("RUNNING")')
        PROVE  \E y \in Spans(j) : left'[i] <= y
    <2>1. CASE i \in With("RUNNING") /\ left'[i] <= left[i]
      BY <1>1, <2>1 DEF Spans, OthersOf
    <2>2. CASE i \in InFlight \cup LetThrough /\ left'[i] <= Workload[i].limit
      BY <1>1, <2>2 DEF Spans, OthersOf
    <2> QED BY <1>1, <2>1, <2>2 DEF OthersOf
  <1>2. ASSUME NEW i \in OthersOf(j, (InFlight \cup LetThrough)')
        PROVE  \E y \in Spans(j) : Workload[i].limit <= y
    <2>1. i \in OthersOf(j, InFlight \cup LetThrough) /\ i \in Jobs
      BY DEF OthersOf
    <2>2. Workload[i].limit \in Spans(j)
      BY <2>1 DEF Spans
    <2>3. Workload[i].limit \in Nat
      BY <2>1, LimitsPositive
    <2> QED BY <2>2, <2>3
  <1>3. Spans(j)' = {left'[i] : i \in OthersOf(j, With("RUNNING")')}
                      \cup {Workload[i].limit : i \in OthersOf(j, (InFlight \cup LetThrough)')}
    BY DEF Spans, OthersOf
  <1> QED BY <1>1, <1>2, <1>3 DEF NoLonger
\* The steps that leave the rows alone, and let no candidate through anew.
LEMMA ProceedSpans ==
  ASSUME RowsInv, LeftTyped, NEW j \in Jobs, UNCHANGED rows,
         LetThrough' \subseteq LetThrough
  PROVE  NoLonger(j)
  <1>1. /\ With("RUNNING")' = With("RUNNING") /\ InFlight' = InFlight /\ left' = left
    BY DEF rows, With, InFlight
  <1>2. InFlight \subseteq Jobs /\ LetThrough \subseteq Jobs /\ With("RUNNING") \subseteq Jobs
    BY DEF InFlight, With, LetThrough, RowsInv, CandidatesWait
  <1>3. \A i \in With("RUNNING")' : i \in With("RUNNING") /\ left'[i] <= left[i]
    BY <1>1, <1>2 DEF LeftTyped
  <1>4. (InFlight \cup LetThrough)' \subseteq (InFlight \cup LetThrough) \cap Jobs
    BY <1>1, <1>2
  <1> QED BY <1>3, <1>4, NoNewSpans

\* Gap filling lets through of a stalled key only what ends before the first
\* running job of the key.
LEMMA GapsSpans ==
  ASSUME RowsInv, LeftTyped, NEW j \in Jobs, ApplyGapFilling, GapFilling, InVain(j),
         Running(Key(j)) # {}
  PROVE  NoLonger(j)
  <1>1. PICK rank \in Injection(StalledKeys, 1..Cardinality(StalledKeys)) :
            \E seq \in Regrouped(cand, rank) : Proceed("gaps", "quota", GapsFilled(seq))
    BY DEF ApplyGapFilling
  <1>2. PICK seq \in Regrouped(cand, rank) : Proceed("gaps", "quota", GapsFilled(seq))
    BY <1>1
  <1>3. seq \in Seq(Jobs)
    BY RegroupedInOrder
  <1>4. GapsFilled(seq) \in Seq(Passing)
    BY <1>3, GapsFilledIsPart
  <1>5. /\ With("RUNNING")' = With("RUNNING") /\ InFlight' = InFlight /\ left' = left
        /\ LetThrough' = Range(GapsFilled(seq))
    BY <1>2 DEF Proceed, rows, With, InFlight, LetThrough
  <1>6. LetThrough' \subseteq Passing
    BY <1>4, <1>5 DEF Range
  <1>7. Key(j) \in StalledKeys
    BY DEF StalledKeys, Stalled, InVain, With
  <1>8. PICK r \in Running(Key(j)) : TRUE
    OBVIOUS
  <1>9. /\ r \in With("RUNNING") /\ r \in Jobs /\ Key(r) = Key(j) /\ r # j
        /\ left[r] \in Spans(j)
    <2>1. r \in Jobs /\ status[r] = "RUNNING" /\ Key(r) = Key(j) /\ status[j] # "RUNNING"
      BY DEF Running, With, InVain
    <2> QED BY <2>1 DEF With, Spans, OthersOf
  <1>10. ASSUME NEW i \in OthersOf(j, With("RUNNING")) PROVE \E y \in Spans(j) : left[i] <= y
    <2>1. left[i] \in Spans(j) /\ left[i] <= left[i]
      BY DEF Spans, OthersOf, With, LeftTyped
    <2> QED BY <2>1
  <1>11. ASSUME NEW i \in OthersOf(j, InFlight) PROVE \E y \in Spans(j) : Workload[i].limit <= y
    <2>1. Workload[i].limit \in Spans(j) /\ i \in Jobs
      BY DEF Spans, OthersOf, With, InFlight
    <2> QED BY <2>1, LimitsPositive
  <1>12. ASSUME NEW i \in OthersOf(j, LetThrough') PROVE \E y \in Spans(j) : Workload[i].limit <= y
    <2>1. i \in Passing /\ Key(i) = Key(j)
      BY <1>6, <1>12 DEF OthersOf
    <2>2. Workload[i].limit <= left[r]
      BY <1>7, <1>8, <2>1 DEF Passing, EndsInTime
    <2> QED BY <1>9, <2>2
  <1>13. Spans(j)' = {left[i] : i \in OthersOf(j, With("RUNNING"))}
                     \cup {Workload[i].limit : i \in OthersOf(j, InFlight \cup LetThrough')}
    BY <1>5 DEF Spans, OthersOf
  <1>14. OthersOf(j, InFlight \cup LetThrough') = OthersOf(j, InFlight) \cup OthersOf(j, LetThrough')
    BY DEF OthersOf
  <1> QED BY <1>10, <1>11, <1>12, <1>13, <1>14 DEF NoLonger

LEMMA DispatchSpans ==
  ASSUME RowsInv, LeftTyped, NEW j \in Jobs, DispatchOne
  PROVE  NoLonger(j)
  <1> DEFINE i == Head(cand)
  <1>1. cand \in Seq(Jobs) /\ cand # <<>> /\ cand' = Tail(cand) /\ left' = left
        /\ stage = "dispatch" /\ stage' = "dispatch"
    BY DEF RowsInv, CandidatesWait, DispatchOne
  <1>2. i \in Range(cand) /\ Range(Tail(cand)) \subseteq Range(cand)
    BY <1>1 DEF Range
  <1>3. status' = status \/ status' = [status EXCEPT ![i] = "DISPATCHED"]
    BY DEF DispatchOne
  <1> HIDE DEF i
  <1>4. LetThrough = Range(cand) /\ LetThrough' = Range(Tail(cand)) /\ LetThrough \subseteq Jobs
    BY <1>1 DEF LetThrough, RowsInv, CandidatesWait, Range
  <1>5. (InFlight \cup LetThrough)' \subseteq (InFlight \cup LetThrough) \cap Jobs
    <2>1. InFlight' \subseteq (InFlight \cup {i}) \cap Jobs
      BY <1>2, <1>3, <1>4 DEF InFlight, With, RowsInv, RowsTyped
    <2> QED BY <1>2, <1>4, <2>1
  <1>6. ASSUME NEW k \in With("RUNNING")' PROVE k \in With("RUNNING") /\ left'[k] <= left[k]
    <2>1. k \in Jobs /\ status[k] = "RUNNING"
      BY <1>2, <1>3, <1>4 DEF With, RowsInv, RowsTyped
    <2> QED BY <1>1, <2>1 DEF With, LeftTyped
  <1> QED BY <1>5, <1>6, NoNewSpans
\* The other steps: rows are put back, start to run, come nearer to their end or
\* go away, and the batch stays as it is.
LEMMA MovedSpans ==
  ASSUME RowsInv, LeftTyped, NEW j \in Jobs, UNCHANGED <<stage, cand>>,
         \A i \in Jobs : /\ status'[i] = "DISPATCHED" => status[i] = "DISPATCHED"
                         /\ status'[i] = "RUNNING" =>
                                \/ status[i] = "RUNNING" /\ left'[i] <= left[i]
                                \/ status[i] = "DISPATCHED" /\ left'[i] <= Workload[i].limit
  PROVE  NoLonger(j)
  <1>1. LetThrough' = LetThrough /\ LetThrough \subseteq Jobs
    BY DEF LetThrough, RowsInv, CandidatesWait, Range
  <1>2. InFlight' \subseteq InFlight /\ InFlight \subseteq Jobs
    BY DEF InFlight, With
  <1>3. \A i \in With("RUNNING")' :
             \/ i \in With("RUNNING") /\ left'[i] <= left[i]
             \/ i \in InFlight \cup LetThrough /\ left'[i] <= Workload[i].limit
    BY DEF With, InFlight
  <1> QED BY <1>1, <1>2, <1>3, NoNewSpans

LEMMA NextSpans ==
  ASSUME RowsInv, LeftTyped, [Next]_vars, NEW j \in Jobs, GapFilling, InVain(j),
         Running(Key(j)) # {}
  PROVE  NoLonger(j)
  <1>0. \A i \in Jobs : left[i] \in Nat /\ left[i] <= left[i] /\ Workload[i].limit <= Workload[i].limit
    BY LimitsPositive DEF LeftTyped
  <1>1. CASE Fetch
    <2>1. PICK seq : Proceed("idle", "gaps", seq)
      BY <1>1 DEF Fetch
    <2>2. UNCHANGED rows /\ LetThrough' = {}
      BY <2>1 DEF Proceed, LetThrough
    <2> QED BY <2>2, ProceedSpans
  <1>2. CASE ApplyGapFilling
    BY <1>2, GapsSpans
  <1>3. CASE FilterByResourceQuota \/ FilterByNodeCapacity
    <2>1. UNCHANGED rows /\ stage \in {"quota", "nodes"}
      BY <1>3 DEF FilterByResourceQuota, FilterByNodeCapacity, Proceed
    <2>2. Range(cand') \subseteq Range(cand)
      BY <1>3, FilterRows
    <2>3. LetThrough' \subseteq LetThrough
      BY <2>1, <2>2 DEF LetThrough
    <2> QED BY <2>1, <2>3, ProceedSpans
  <1>4. CASE DispatchOne
    BY <1>4, DispatchSpans
  <1>5. CASE EndCycle
    <2>1. UNCHANGED rows /\ LetThrough' = {}
      BY <1>5 DEF EndCycle, LetThrough
    <2> QED BY <2>1, ProceedSpans
  <1>6. CASE SyncNodes \/ SyncResourceQuota
    BY <1>0, <1>6, MovedSpans DEF SyncNodes, SyncResourceQuota, rows, cycle
  <1>7. CASE Tick
    <2>1. \A i \in Jobs : left'[i] <= left[i]
      BY <1>0, <1>7 DEF Tick, Monus
    <2> QED BY <1>7, <2>1, MovedSpans DEF Tick
  <1>8. ASSUME NEW i \in Jobs, Submit(i) PROVE NoLonger(j)
    <2>1. status' = [status EXCEPT ![i] = "QUEUED"] /\ UNCHANGED <<stage, cand, left>>
      BY <1>8 DEF Submit, cycle
    <2> QED BY <1>0, <2>1, MovedSpans DEF RowsInv, RowsTyped
  <1>9. ASSUME NEW i \in Jobs, Requeue(i) PROVE NoLonger(j)
    <2>1. status' = [status EXCEPT ![i] = "QUEUED"] /\ UNCHANGED <<stage, cand, left>>
      BY <1>9 DEF Requeue, cycle
    <2> QED BY <1>0, <2>1, MovedSpans DEF RowsInv, RowsTyped
  <1>10. ASSUME NEW i \in Jobs, Admit(i) PROVE NoLonger(j)
    BY <1>0, <1>10, MovedSpans DEF Admit, rows, cycle
  <1>11. ASSUME NEW i \in Jobs, JobEnds(i) PROVE NoLonger(j)
    <2>1. /\ status' = [status EXCEPT ![i] = "none"] /\ left' = [left EXCEPT ![i] = 0]
          /\ UNCHANGED <<stage, cand>>
      BY <1>11 DEF JobEnds, cycle
    <2> QED BY <1>0, <2>1, MovedSpans DEF RowsInv, RowsTyped, LeftTyped
  <1>12. ASSUME NEW i \in Jobs, NEW n \in Nodes, PodStarts(i, n) PROVE NoLonger(j)
    <2>1. /\ status' = [status EXCEPT ![i] = "RUNNING"]
          /\ left' = [left EXCEPT ![i] = IF status[i] = "RUNNING" THEN @ ELSE Workload[i].limit]
          /\ UNCHANGED <<stage, cand>> /\ status[i] \in {"DISPATCHED", "RUNNING"}
      BY <1>12, PendingInFlight DEF PodStarts, cycle
    <2> QED BY <1>0, <2>1, MovedSpans DEF RowsInv, RowsTyped, LeftTyped
  <1>13. ASSUME NEW i \in Jobs, NEW n \in Nodes, PodEnds(i, n) PROVE NoLonger(j)
    BY <1>0, <1>13, MovedSpans DEF PodEnds, cycle
  <1>14. ASSUME NEW n \in Nodes, NodeLeaves(n) \/ NodeReturns(n) PROVE NoLonger(j)
    BY <1>0, <1>14, MovedSpans DEF NodeLeaves, NodeReturns, rows, cycle
  <1>15. CASE UNCHANGED vars
    BY <1>0, <1>15, MovedSpans DEF vars, rows, cycle
  <1> QED
    BY <1>1, <1>2, <1>3, <1>4, <1>5, <1>6, <1>7, <1>8, <1>9, <1>10, <1>11, <1>12, <1>13,
       <1>14, <1>15 DEF Next

\* While a job waits in vain, the others of its key that run, are on their way or
\* have passed gap filling take no longer than they did before: whatever the
\* constants, jobs let through meanwhile do not keep it waiting.
THEOREM HorizonNeverGrows == Spec => HorizonShrinks
  <1>1. TypeInv => RowsInv /\ LeftTyped
    BY DEF TypeInv, TimesTyped, LeftTyped
  <1>2. TypeInv /\ [Next]_vars
            => [\A j \in Jobs : GapFilling /\ InVain(j) /\ InVain(j)' /\ Running(Key(j)) # {}
                  => \A x \in Spans(j)' : \E y \in Spans(j) : x <= y]_vars
    BY <1>1, NextSpans DEF NoLonger
  <1> QED BY TypeInvAlways, <1>2, PTL DEF Spec, HorizonShrinks

-----------------------------------------------------------------------------
(* The quota filter. *)

ChargeOf(q) == [j \in Jobs |-> Charge(j)[q]]
Of(ns, S)   == {j \in S : Workload[j].ns = ns}

\* What holds after n candidates: spent is what the kept ones ask for, a
\* namespace with a kept job is within its quota, and a job that was held back
\* does not fit beside what is kept.
Filtered(seq, n, s) ==
    /\ s.kept \in Seq(Jobs) /\ IsInjective(s.kept)
    /\ Range(s.kept) \subseteq {seq[i] : i \in 1..n}
    /\ s.spent \in [DOMAIN HardQuota -> [Quantities -> Nat]]
    /\ \A ns \in DOMAIN HardQuota : \A q \in Quantities :
          s.spent[ns][q] = SumFunctionOnSet(ChargeOf(q), Of(ns, Range(s.kept)))
    /\ \A j \in Range(s.kept) : \A ns \in DOMAIN HardQuota : Workload[j].ns = ns =>
          \A q \in DOMAIN HardQuota[ns] : used[ns][q] + s.spent[ns][q] <= HardQuota[ns][q]
    /\ \A i \in 1..n : \/ seq[i] \in Range(s.kept)
                       \/ \E ns \in DOMAIN HardQuota : /\ Workload[seq[i]].ns = ns
                             /\ \E q \in DOMAIN HardQuota[ns] :
                                   used[ns][q] + s.spent[ns][q] + Charge(seq[i])[q] > HardQuota[ns][q]

LEMMA ChargeTyped ==
  ASSUME NEW j \in Jobs
  PROVE  Charge(j) \in [Quantities -> Nat]
  <1>1. ASSUME NEW r \in Resources PROVE Workload[j].pods * Workload[j].ask[r] \in Nat
    <2>1. Workload[j].ask[r] \in Nat /\ Workload[j].pods \in Nat
      BY LimitsPositive, DispatchConstantsOK
    <2> QED BY <2>1
  <1>2. ASSUME NEW q \in Quantities PROVE (IF q = "count" THEN 1 ELSE Demand(j)[q]) \in Nat
    <2>1. q # "count" => q \in Resources
      BY DEF Quantities
    <2> QED BY <1>1, <2>1 DEF Demand
  <1> QED BY <1>2 DEF Charge

\* One more job in the sum of its namespace.
LEMMA ChargeAdded ==
  ASSUME NEW S \in SUBSET Jobs, NEW j \in Jobs, NEW q \in Quantities, j \notin S
  PROVE  /\ SumFunctionOnSet(ChargeOf(q), Of(Workload[j].ns, S \cup {j}))
                = SumFunctionOnSet(ChargeOf(q), Of(Workload[j].ns, S)) + Charge(j)[q]
         /\ \A ns : ns # Workload[j].ns => Of(ns, S \cup {j}) = Of(ns, S)
  <1> DEFINE T == Of(Workload[j].ns, S \cup {j})
             f == ChargeOf(q)
  <1>1. j \in T /\ T \subseteq Jobs /\ T \ {j} = Of(Workload[j].ns, S)
    BY DEF Of
  <1>2. IsFiniteSet(T)
    BY <1>1, FS_Subset, DispatchConstantsOK
  <1>3. \A i \in Jobs : f[i] = Charge(i)[q] /\ f[i] \in Nat
    BY ChargeTyped DEF ChargeOf
  <1>4. \A i \in T : f[i] \in Nat
    BY <1>1, <1>3
  <1> HIDE DEF T, f
  <1>5. /\ SumFunctionOnSet(f, T) = f[j] + SumFunctionOnSet(f, T \ {j})
        /\ SumFunctionOnSet(f, T \ {j}) \in Nat
    BY <1>1, <1>2, <1>4, SumWithout, Zenon
  <1>6. SumFunctionOnSet(f, T) = SumFunctionOnSet(f, Of(Workload[j].ns, S)) + Charge(j)[q]
    <2>1. f[j] = Charge(j)[q] /\ f[j] \in Nat
      BY <1>3
    <2>2. SumFunctionOnSet(f, T) = SumFunctionOnSet(f, T \ {j}) + f[j]
      BY <1>5, <2>1
    <2> QED BY <1>1, <2>1, <2>2
  <1>7. \A ns : ns # Workload[j].ns => Of(ns, S \cup {j}) = Of(ns, S)
    BY DEF Of
  <1> QED BY <1>6, <1>7 DEF T, f

LEMMA HardTyped ==
  ASSUME UsedTyped, NEW ns \in DOMAIN HardQuota, NEW q \in DOMAIN HardQuota[ns]
  PROVE  q \in Quantities /\ HardQuota[ns][q] \in Nat /\ used[ns][q] \in Nat
  <1>1. DOMAIN HardQuota[ns] \subseteq Quantities /\ HardQuota[ns] \in [DOMAIN HardQuota[ns] -> Nat]
    BY DispatchConstantsOK
  <1>2. q \in Quantities
    BY <1>1
  <1> QED BY <1>1, <1>2 DEF UsedTyped

LEMMA AffordCases ==
  ASSUME NEW s, NEW j, NEW ns, ns = Workload[j].ns
  PROVE  \/ ns \notin DOMAIN HardQuota /\ Afford(s, j) = [spent |-> s.spent, kept |-> Append(s.kept, j)]
         \/ /\ ns \in DOMAIN HardQuota /\ Afford(s, j) = s
            /\ \E q \in DOMAIN HardQuota[ns] :
                  ~(used[ns][q] + s.spent[ns][q] + Charge(j)[q] <= HardQuota[ns][q])
         \/ /\ ns \in DOMAIN HardQuota
            /\ Afford(s, j) = [spent |-> [s.spent EXCEPT ![ns] = Plus(s.spent[ns], Charge(j))],
                               kept |-> Append(s.kept, j)]
            /\ \A q \in DOMAIN HardQuota[ns] :
                  used[ns][q] + s.spent[ns][q] + Charge(j)[q] <= HardQuota[ns][q]
  <1> DEFINE room == \A q \in DOMAIN HardQuota[ns] :
                        used[ns][q] + s.spent[ns][q] + Charge(j)[q] <= HardQuota[ns][q]
  <1>1. Afford(s, j) =
            IF ns \notin DOMAIN HardQuota THEN [spent |-> s.spent, kept |-> Append(s.kept, j)]
            ELSE IF ~room THEN s
                 ELSE [spent |-> [s.spent EXCEPT ![ns] = Plus(s.spent[ns], Charge(j))],
                       kept |-> Append(s.kept, j)]
    BY Zenon DEF Afford
  <1>2. room \/ \E q \in DOMAIN HardQuota[ns] :
                    ~(used[ns][q] + s.spent[ns][q] + Charge(j)[q] <= HardQuota[ns][q])
    OBVIOUS
  <1>3. room => \A q \in DOMAIN HardQuota[ns] :
                    used[ns][q] + s.spent[ns][q] + Charge(j)[q] <= HardQuota[ns][q]
    OBVIOUS
  <1> HIDE DEF room
  <1>4. CASE ns \notin DOMAIN HardQuota
    BY <1>1, <1>4
  <1>5. CASE ns \in DOMAIN HardQuota /\ ~room
    BY <1>1, <1>2, <1>5
  <1>6. CASE ns \in DOMAIN HardQuota /\ room
    BY <1>1, <1>3, <1>6
  <1> QED BY <1>4, <1>5, <1>6

\* A job that stays with those kept, with more spent or the same.
LEMMA FilteredGrows ==
  ASSUME UsedTyped, NEW seq \in Seq(Jobs), IsInjective(seq), NEW n \in Nat, n < Len(seq),
         NEW s, Filtered(seq, n, s), NEW j, j = seq[n + 1],
         NEW t, t.kept = Append(s.kept, j),
         t.spent \in [DOMAIN HardQuota -> [Quantities -> Nat]],
         \A ns \in DOMAIN HardQuota : \A q \in Quantities :
             t.spent[ns][q] = IF ns = Workload[j].ns THEN s.spent[ns][q] + Charge(j)[q]
                              ELSE s.spent[ns][q],
         \A ns \in DOMAIN HardQuota : ns = Workload[j].ns => \A q \in DOMAIN HardQuota[ns] :
             used[ns][q] + s.spent[ns][q] + Charge(j)[q] <= HardQuota[ns][q]
  PROVE  Filtered(seq, n + 1, t)
  <1>1. n + 1 \in 1..Len(seq) /\ j \in Jobs /\ \A i \in 1..n : seq[i] # j /\ seq[i] \in Jobs
    BY DEF IsInjective
  <1>2. j \notin Range(s.kept)
    BY <1>1 DEF Filtered
  <1>3. /\ t.kept \in Seq(Jobs) /\ IsInjective(t.kept)
        /\ Range(t.kept) = Range(s.kept) \cup {j}
    BY <1>1, <1>2, AppendedOnce DEF Filtered
  <1>4. Range(t.kept) \subseteq {seq[i] : i \in 1..(n + 1)}
    <2>1. \A i \in 1..n : i \in 1..(n + 1)
      OBVIOUS
    <2>2. n + 1 \in 1..(n + 1)
      OBVIOUS
    <2> QED BY <1>3, <2>1, <2>2 DEF Filtered
  <1>5. ASSUME NEW ns \in DOMAIN HardQuota, NEW q \in Quantities
        PROVE  t.spent[ns][q] = SumFunctionOnSet(ChargeOf(q), Of(ns, Range(t.kept)))
    <2>1. Range(s.kept) \in SUBSET Jobs
      BY DEF Filtered, Range
    <2>2. /\ SumFunctionOnSet(ChargeOf(q), Of(Workload[j].ns, Range(s.kept) \cup {j}))
                = SumFunctionOnSet(ChargeOf(q), Of(Workload[j].ns, Range(s.kept))) + Charge(j)[q]
          /\ \A other : other # Workload[j].ns
                          => Of(other, Range(s.kept) \cup {j}) = Of(other, Range(s.kept))
      BY <1>1, <1>2, <2>1, ChargeAdded, Zenon
    <2>3. s.spent[ns][q] = SumFunctionOnSet(ChargeOf(q), Of(ns, Range(s.kept)))
      BY DEF Filtered
    <2>4. CASE ns = Workload[j].ns
      BY <1>3, <2>2, <2>3, <2>4
    <2>5. CASE ns # Workload[j].ns
      BY <1>3, <2>2, <2>3, <2>5
    <2> QED BY <2>4, <2>5
  <1>6. ASSUME NEW ns \in DOMAIN HardQuota, NEW q \in Quantities
        PROVE  /\ s.spent[ns][q] \in Nat /\ t.spent[ns][q] \in Nat /\ Charge(j)[q] \in Nat
               /\ s.spent[ns][q] <= t.spent[ns][q]
    <2>1. s.spent[ns][q] \in Nat /\ t.spent[ns][q] \in Nat
      BY DEF Filtered
    <2>2. Charge(j)[q] \in Nat
      BY <1>1, ChargeTyped
    <2> QED BY <2>1, <2>2
  <1>7. ASSUME NEW i \in Range(t.kept), NEW ns \in DOMAIN HardQuota, Workload[i].ns = ns,
               NEW q \in DOMAIN HardQuota[ns]
        PROVE  used[ns][q] + t.spent[ns][q] <= HardQuota[ns][q]
    <2>1. q \in Quantities /\ HardQuota[ns][q] \in Nat /\ used[ns][q] \in Nat
      BY HardTyped
    <2>2. CASE ns = Workload[j].ns
      <3>1. t.spent[ns][q] = s.spent[ns][q] + Charge(j)[q]
        BY <2>1, <2>2
      <3>2. used[ns][q] + s.spent[ns][q] + Charge(j)[q] <= HardQuota[ns][q]
        BY <2>2
      <3> QED BY <1>6, <2>1, <3>1, <3>2
    <2>3. CASE ns # Workload[j].ns
      <3>1. t.spent[ns][q] = s.spent[ns][q]
        BY <2>1, <2>3
      <3>2. i \in Range(s.kept)
        BY <1>3, <1>7, <2>3
      <3>3. used[ns][q] + s.spent[ns][q] <= HardQuota[ns][q]
        BY <1>7, <3>2 DEF Filtered
      <3> QED BY <3>1, <3>3
    <2> QED BY <2>2, <2>3
  <1>8. ASSUME NEW i \in 1..(n + 1), seq[i] \notin Range(t.kept)
        PROVE  \E ns \in DOMAIN HardQuota : /\ Workload[seq[i]].ns = ns
                 /\ \E q \in DOMAIN HardQuota[ns] :
                       used[ns][q] + t.spent[ns][q] + Charge(seq[i])[q] > HardQuota[ns][q]
    <2>1. i \in 1..n /\ seq[i] \notin Range(s.kept) /\ seq[i] \in Jobs
      <3>1. i # n + 1
        BY <1>3, <1>8
      <3> QED BY <1>1, <1>3, <1>8, <3>1
    <2>2. PICK ns \in DOMAIN HardQuota : /\ Workload[seq[i]].ns = ns
              /\ \E q \in DOMAIN HardQuota[ns] :
                    used[ns][q] + s.spent[ns][q] + Charge(seq[i])[q] > HardQuota[ns][q]
      BY <2>1 DEF Filtered
    <2>3. PICK q \in DOMAIN HardQuota[ns] :
                    used[ns][q] + s.spent[ns][q] + Charge(seq[i])[q] > HardQuota[ns][q]
      BY <2>2
    <2>4. q \in Quantities /\ HardQuota[ns][q] \in Nat /\ used[ns][q] \in Nat
      BY HardTyped
    <2>5. Charge(seq[i])[q] \in Nat
      BY <2>1, <2>4, ChargeTyped
    <2>6. used[ns][q] + t.spent[ns][q] + Charge(seq[i])[q] > HardQuota[ns][q]
      <3>1. /\ s.spent[ns][q] \in Nat /\ t.spent[ns][q] \in Nat
            /\ s.spent[ns][q] <= t.spent[ns][q]
        BY <1>6, <2>4
      <3>2. \A u, a, b, c, h \in Nat : u + a + c > h /\ a <= b => u + b + c > h
        OBVIOUS
      <3> QED BY <2>3, <2>4, <2>5, <3>1, <3>2
    <2> QED BY <2>2, <2>6
  <1> QED BY <1>3, <1>4, <1>5, <1>7, <1>8 DEF Filtered

LEMMA FilteredStep ==
  ASSUME UsedTyped, NEW seq \in Seq(Jobs), IsInjective(seq), NEW n \in Nat, n < Len(seq),
         NEW s, Filtered(seq, n, s)
  PROVE  Filtered(seq, n + 1, Afford(s, seq[n + 1]))
  <1> DEFINE j == seq[n + 1]
             ns == Workload[j].ns
             t == Afford(s, j)
  <1>1. j \in Jobs
    OBVIOUS
  <1>2. \/ ns \notin DOMAIN HardQuota /\ t = [spent |-> s.spent, kept |-> Append(s.kept, j)]
        \/ /\ ns \in DOMAIN HardQuota /\ t = s
           /\ \E q \in DOMAIN HardQuota[ns] :
                 ~(used[ns][q] + s.spent[ns][q] + Charge(j)[q] <= HardQuota[ns][q])
        \/ /\ ns \in DOMAIN HardQuota
           /\ t = [spent |-> [s.spent EXCEPT ![ns] = Plus(s.spent[ns], Charge(j))],
                   kept |-> Append(s.kept, j)]
           /\ \A q \in DOMAIN HardQuota[ns] :
                 used[ns][q] + s.spent[ns][q] + Charge(j)[q] <= HardQuota[ns][q]
    BY AffordCases
  <1>3. s.spent \in [DOMAIN HardQuota -> [Quantities -> Nat]]
    BY DEF Filtered
  <1>4. \A q \in Quantities : Charge(j)[q] \in Nat
    BY <1>1, ChargeTyped
  <1>5. ns = Workload[j].ns
    OBVIOUS
  <1> HIDE DEF t, ns
  <1>6. CASE ns \notin DOMAIN HardQuota /\ t = [spent |-> s.spent, kept |-> Append(s.kept, j)]
    <2>1. t.kept = Append(s.kept, j) /\ t.spent = s.spent
      BY <1>6
    <2>2. \A x \in DOMAIN HardQuota : \A q \in Quantities :
             t.spent[x][q] = IF x = Workload[j].ns THEN s.spent[x][q] + Charge(j)[q] ELSE s.spent[x][q]
      BY <1>5, <1>6, <2>1
    <2>3. \A x \in DOMAIN HardQuota : x = Workload[j].ns => \A q \in DOMAIN HardQuota[x] :
             used[x][q] + s.spent[x][q] + Charge(j)[q] <= HardQuota[x][q]
      BY <1>5, <1>6
    <2>4. t.spent \in [DOMAIN HardQuota -> [Quantities -> Nat]]
      BY <1>3, <2>1
    <2>5. Filtered(seq, n + 1, t)
      BY <2>1, <2>2, <2>3, <2>4, FilteredGrows
    <2> QED BY <2>5 DEF t
  <1>7. CASE /\ ns \in DOMAIN HardQuota /\ t = s
             /\ \E q \in DOMAIN HardQuota[ns] :
                   ~(used[ns][q] + s.spent[ns][q] + Charge(j)[q] <= HardQuota[ns][q])
    <2>1. PICK q \in DOMAIN HardQuota[ns] :
              ~(used[ns][q] + s.spent[ns][q] + Charge(j)[q] <= HardQuota[ns][q])
      BY <1>7
    <2>2. q \in Quantities /\ HardQuota[ns][q] \in Nat /\ used[ns][q] \in Nat
      BY <1>7, HardTyped
    <2>3. s.spent[ns][q] \in Nat /\ Charge(j)[q] \in Nat
      BY <1>3, <1>4, <1>7, <2>2
    <2>4. \A u, a, c, h \in Nat : ~(u + a + c <= h) => u + a + c > h
      OBVIOUS
    <2>5. used[ns][q] + s.spent[ns][q] + Charge(j)[q] > HardQuota[ns][q]
      BY <2>1, <2>2, <2>3, <2>4
    <2>6. \E x \in DOMAIN HardQuota : /\ Workload[seq[n + 1]].ns = x
             /\ \E y \in DOMAIN HardQuota[x] :
                   used[x][y] + s.spent[x][y] + Charge(seq[n + 1])[y] > HardQuota[x][y]
      BY <1>5, <1>7, <2>5
    <2>7. \A i \in 1..(n + 1) : i \in 1..n \/ i = n + 1
      OBVIOUS
    <2>8. \A i \in 1..n : i \in 1..(n + 1)
      OBVIOUS
    <2>9. Range(s.kept) \subseteq {seq[i] : i \in 1..(n + 1)}
      BY <2>8 DEF Filtered
    <2>10. ASSUME NEW i \in 1..(n + 1)
           PROVE  \/ seq[i] \in Range(s.kept)
                  \/ \E x \in DOMAIN HardQuota : /\ Workload[seq[i]].ns = x
                        /\ \E y \in DOMAIN HardQuota[x] :
                              used[x][y] + s.spent[x][y] + Charge(seq[i])[y] > HardQuota[x][y]
      <3>1. CASE i \in 1..n
        BY <3>1 DEF Filtered
      <3>2. CASE i = n + 1
        BY <2>6, <3>2
      <3> QED BY <2>7, <3>1, <3>2
    <2>11. Filtered(seq, n + 1, s)
      BY <2>9, <2>10 DEF Filtered
    <2> QED BY <1>7, <2>11 DEF t
  <1>8. CASE /\ ns \in DOMAIN HardQuota
             /\ t = [spent |-> [s.spent EXCEPT ![ns] = Plus(s.spent[ns], Charge(j))],
                     kept |-> Append(s.kept, j)]
             /\ \A q \in DOMAIN HardQuota[ns] :
                   used[ns][q] + s.spent[ns][q] + Charge(j)[q] <= HardQuota[ns][q]
    <2>1. /\ t.kept = Append(s.kept, j)
          /\ t.spent = [s.spent EXCEPT ![ns] = Plus(s.spent[ns], Charge(j))]
      BY <1>8
    <2>2. s.spent[ns] \in [Quantities -> Nat]
      BY <1>3, <1>8
    <2>3. /\ Plus(s.spent[ns], Charge(j)) \in [Quantities -> Nat]
          /\ \A q \in Quantities : Plus(s.spent[ns], Charge(j))[q] = s.spent[ns][q] + Charge(j)[q]
      BY <1>4, <2>2 DEF Plus
    <2>4. t.spent \in [DOMAIN HardQuota -> [Quantities -> Nat]]
      BY <1>3, <2>1, <2>3
    <2>5. \A x \in DOMAIN HardQuota : \A q \in Quantities :
             t.spent[x][q] = IF x = Workload[j].ns THEN s.spent[x][q] + Charge(j)[q] ELSE s.spent[x][q]
      BY <1>3, <1>5, <1>8, <2>1, <2>3
    <2>6. \A x \in DOMAIN HardQuota : x = Workload[j].ns => \A q \in DOMAIN HardQuota[x] :
             used[x][q] + s.spent[x][q] + Charge(j)[q] <= HardQuota[x][q]
      BY <1>5, <1>8
    <2>7. Filtered(seq, n + 1, t)
      BY <2>1, <2>4, <2>5, <2>6, FilteredGrows
    <2> QED BY <2>7 DEF t
  <1>9. Filtered(seq, n + 1, t)
    BY <1>2, <1>6, <1>7, <1>8 DEF t
  <1> QED BY <1>9 DEF t

LEMMA FilteredAtLast ==
  ASSUME UsedTyped, NEW seq \in Seq(Jobs), IsInjective(seq)
  PROVE  Filtered(seq, Len(seq), QuotaRun(seq)[Len(seq)])
  <1> DEFINE Good == {n \in 0..Len(seq) : Filtered(seq, n, QuotaRun(seq)[n])}
  <1>0. Len(seq) \in Nat
    OBVIOUS
  <1>1. 0 \in Good
    <2> DEFINE s == [spent |-> [ns \in DOMAIN HardQuota |-> Zero], kept |-> <<>>]
    <2>1. QuotaRun(seq)[0] = s
      BY <1>0, QuotaRunStep
    <2>2. s.kept = <<>> /\ <<>> \in Seq(Jobs) /\ DOMAIN <<>> = {} /\ s.spent = [ns \in DOMAIN HardQuota |-> Zero]
      OBVIOUS
    <2> HIDE DEF s
    <2>3. IsInjective(s.kept) /\ Range(s.kept) = {} /\ s.kept \in Seq(Jobs)
      BY <2>2 DEF IsInjective, Range
    <2>4. s.spent \in [DOMAIN HardQuota -> [Quantities -> Nat]]
      BY <2>2 DEF Zero
    <2>5. ASSUME NEW ns \in DOMAIN HardQuota, NEW q \in Quantities
          PROVE  s.spent[ns][q] = SumFunctionOnSet(ChargeOf(q), Of(ns, Range(s.kept)))
      <3>1. Of(ns, Range(s.kept)) = {} /\ IsFiniteSet({})
        BY <2>3, FS_EmptySet DEF Of
      <3>2. SumFunctionOnSet(ChargeOf(q), {}) = 0
        BY <3>1, SumPicked, Zenon
      <3>3. s.spent[ns][q] = 0
        BY <2>2 DEF Zero
      <3> QED BY <3>1, <3>2, <3>3
    <2>6. \A i \in 1..0 : FALSE
      OBVIOUS
    <2>7. Filtered(seq, 0, s)
      BY <2>3, <2>4, <2>5, <2>6 DEF Filtered
    <2> QED BY <1>0, <2>1, <2>7
  <1>2. ASSUME NEW n \in 0..Len(seq), n \in Good, n < Len(seq) PROVE n + 1 \in Good
    <2>1. n \in Nat /\ n + 1 \in 1..Len(seq) /\ (n + 1) - 1 = n /\ n + 1 \in 0..Len(seq)
      BY <1>2
    <2>2. QuotaRun(seq)[n + 1] = Afford(QuotaRun(seq)[n], seq[n + 1])
      BY <1>0, <2>1, QuotaRunStep
    <2>3. Filtered(seq, n, QuotaRun(seq)[n])
      BY <1>2
    <2>4. Filtered(seq, n + 1, Afford(QuotaRun(seq)[n], seq[n + 1]))
      BY <1>2, <2>1, <2>3, FilteredStep
    <2> QED BY <2>1, <2>2, <2>4
  <1>3. Len(seq) \in Good
    <2> HIDE DEF Good
    <2> QED BY <1>0, <1>1, <1>2, SetInduction
  <1> QED BY <1>3

LEMMA QuotaStep ==
  ASSUME TypeInv, FilterByResourceQuota
  PROVE  /\ \A s \in DOMAIN HardQuota :
               (\E j \in Range(cand') : Workload[j].ns = s) => Within(s, Charged(s, Range(cand')))
         /\ \A j \in Range(cand) \ Range(cand') :
               ~Within(Workload[j].ns, Charged(Workload[j].ns, Range(cand') \cup {j}))
  <1> DEFINE s == QuotaRun(cand)[Len(cand)]
  <1>0. UsedTyped /\ cand \in Seq(Jobs) /\ IsInjective(cand)
    BY DEF TypeInv, RowsInv, CandidatesWait
  <1>1. Filtered(cand, Len(cand), s)
    BY <1>0, FilteredAtLast
  <1>2. cand' = s.kept
    BY DEF FilterByResourceQuota, Proceed, Affordable
  <1> HIDE DEF s
  <1>3. ASSUME NEW ns \in DOMAIN HardQuota, NEW q \in DOMAIN HardQuota[ns]
        PROVE  /\ Charged(ns, Range(s.kept))[q] = used[ns][q] + s.spent[ns][q]
               /\ \A j \in Jobs \ Range(s.kept) : Workload[j].ns = ns =>
                     Charged(ns, Range(s.kept) \cup {j})[q] = used[ns][q] + s.spent[ns][q] + Charge(j)[q]
    <2>1. q \in Quantities /\ used[ns][q] \in Nat
      BY <1>0, HardTyped
    <2>2. \A S : Charged(ns, S)[q] = used[ns][q] + SumFunctionOnSet(ChargeOf(q), Of(ns, S))
      BY <2>1 DEF Charged, ChargeOf, Of
    <2>3. s.spent[ns][q] = SumFunctionOnSet(ChargeOf(q), Of(ns, Range(s.kept))) /\ s.spent[ns][q] \in Nat
      BY <1>1, <2>1 DEF Filtered
    <2>4. ASSUME NEW j \in Jobs \ Range(s.kept), Workload[j].ns = ns
          PROVE  Charged(ns, Range(s.kept) \cup {j})[q] = used[ns][q] + s.spent[ns][q] + Charge(j)[q]
      <3>1. Range(s.kept) \in SUBSET Jobs /\ j \in Jobs /\ j \notin Range(s.kept)
        BY <1>1 DEF Filtered, Range
      <3>2. SumFunctionOnSet(ChargeOf(q), Of(Workload[j].ns, Range(s.kept) \cup {j}))
                = SumFunctionOnSet(ChargeOf(q), Of(Workload[j].ns, Range(s.kept))) + Charge(j)[q]
        BY <2>1, <3>1, ChargeAdded, Zenon
      <3>3. Charge(j)[q] \in Nat
        BY <2>1, ChargeTyped
      <3>4. Charged(ns, Range(s.kept) \cup {j})[q] = used[ns][q] + (s.spent[ns][q] + Charge(j)[q])
        BY <2>2, <2>3, <2>4, <3>2
      <3> QED BY <2>1, <2>3, <3>3, <3>4
    <2> QED BY <2>2, <2>3, <2>4
  <1>4. ASSUME NEW ns \in DOMAIN HardQuota, NEW j \in Range(s.kept), Workload[j].ns = ns
        PROVE  Within(ns, Charged(ns, Range(s.kept)))
    <2>1. ASSUME NEW q \in DOMAIN HardQuota[ns]
          PROVE  Charged(ns, Range(s.kept))[q] <= HardQuota[ns][q]
      <3>1. used[ns][q] + s.spent[ns][q] <= HardQuota[ns][q]
        BY <1>1, <1>4 DEF Filtered
      <3>2. Charged(ns, Range(s.kept))[q] = used[ns][q] + s.spent[ns][q]
        BY <1>3
      <3> QED BY <3>1, <3>2
    <2> QED BY <2>1 DEF Within, Fits
  <1>5. ASSUME NEW j \in Range(cand) \ Range(s.kept)
        PROVE  ~Within(Workload[j].ns, Charged(Workload[j].ns, Range(s.kept) \cup {j}))
    <2>1. PICK i \in 1..Len(cand) : cand[i] = j
      BY <1>0 DEF Range
    <2>2. j \in Jobs \ Range(s.kept)
      BY <1>0, <2>1
    <2>3. PICK ns \in DOMAIN HardQuota : /\ Workload[j].ns = ns
              /\ \E q \in DOMAIN HardQuota[ns] :
                    used[ns][q] + s.spent[ns][q] + Charge(j)[q] > HardQuota[ns][q]
      BY <1>1, <2>1, <2>2 DEF Filtered
    <2>4. PICK q \in DOMAIN HardQuota[ns] :
                    used[ns][q] + s.spent[ns][q] + Charge(j)[q] > HardQuota[ns][q]
      BY <2>3
    <2>5. Charged(ns, Range(s.kept) \cup {j})[q] = used[ns][q] + s.spent[ns][q] + Charge(j)[q]
      BY <1>3, <2>2, <2>3
    <2>6. /\ HardQuota[ns][q] \in Nat /\ used[ns][q] \in Nat /\ s.spent[ns][q] \in Nat
          /\ Charge(j)[q] \in Nat
      <3>1. q \in Quantities /\ HardQuota[ns][q] \in Nat /\ used[ns][q] \in Nat
        BY <1>0, HardTyped
      <3>2. s.spent[ns][q] \in Nat
        BY <1>1, <3>1 DEF Filtered
      <3>3. Charge(j)[q] \in Nat
        BY <2>2, <3>1, ChargeTyped
      <3> QED BY <3>1, <3>2, <3>3
    <2>7. \A u, a, c, h \in Nat : u + a + c > h => ~(u + a + c <= h)
      OBVIOUS
    <2>8. ~(Charged(ns, Range(s.kept) \cup {j})[q] <= HardQuota[ns][q])
      BY <2>4, <2>5, <2>6, <2>7
    <2>9. ~Within(ns, Charged(ns, Range(s.kept) \cup {j}))
      BY <2>8 DEF Within, Fits
    <2> QED BY <2>3, <2>9
  <1> QED BY <1>2, <1>4, <1>5

\* The jobs that pass the quota filter fit their namespace's quota, as it was
\* last synchronised, all of them at once, and a job that does not pass would
\* not have fitted beside them: the running total of the filter is what the jobs
\* it has let through ask for.
THEOREM QuotaIsUsedWell == Spec => QuotaUsedWell
  <1>1. TypeInv /\ [Next]_vars =>
           [FilterByResourceQuota =>
              /\ \A s \in DOMAIN HardQuota :
                    (\E j \in Range(cand') : Workload[j].ns = s) => Within(s, Charged(s, Range(cand')))
              /\ \A j \in Range(cand) \ Range(cand') :
                    ~Within(Workload[j].ns, Charged(Workload[j].ns, Range(cand') \cup {j}))]_vars
    BY QuotaStep
  <1> QED BY TypeInvAlways, <1>1, PTL DEF Spec, QuotaUsedWell

-----------------------------------------------------------------------------
(* The node capacity filter. *)

RoomTyped(room) == room \in [known -> [Resources -> Nat]]
NoMore(b, a)    == \A n \in known : \A r \in Resources : b[n][r] <= a[n][r]

Weigh(r) == [p \in Jobs \X Nat |-> Workload[p[1]].ask[r]]

\* The pods of S are put where at says, on nodes of their flavors, and b is what
\* they leave of a at least.
Placed(S, at, a, b) ==
    /\ S \subseteq Jobs \X Nat /\ IsFiniteSet(S) /\ at \in [S -> known]
    /\ \A p \in S : at[p] \in NodesFor(p[1])
    /\ \A n \in known : \A r \in Resources :
          SumFunctionOnSet(Weigh(r), {p \in S : at[p] = n}) + b[n][r] <= a[n][r]

LEMMA WeighTyped ==
  ASSUME NEW r \in Resources
  PROVE  \A p \in Jobs \X Nat : Weigh(r)[p] = Workload[p[1]].ask[r] /\ Weigh(r)[p] \in Nat
  <1> SUFFICES ASSUME NEW p \in Jobs \X Nat
               PROVE  Weigh(r)[p] = Workload[p[1]].ask[r] /\ Weigh(r)[p] \in Nat
    OBVIOUS
  <1>1. p[1] \in Jobs
    OBVIOUS
  <1>2. Workload[p[1]].ask[r] \in Nat
    BY <1>1, DispatchConstantsOK
  <1> QED BY <1>2 DEF Weigh

\* Of finitely many nodes one has the most free CPU, and is the first of those.
LEMMA SomeLeastLoaded ==
  ASSUME NEW S, S \subseteq known, S # {}, known \subseteq Nodes, NEW room, RoomTyped(room)
  PROVE  LeastLoaded(S, room) \in S
  <1> DEFINE Before(m, n) == room[m]["cpu"] < room[n]["cpu"]
                             \/ (room[m]["cpu"] = room[n]["cpu"] /\ n <= m)
             Good == {T \in SUBSET S : T = {} \/ \E n \in T : \A m \in T : Before(m, n)}
  <1>1. \A n \in S : n \in Nat /\ room[n]["cpu"] \in Nat
    BY DispatchConstantsOK DEF RoomTyped
  <1>2. \A m, n \in S : Before(m, n) \/ Before(n, m)
    BY <1>1
  <1>3. \A k, m, n \in S : Before(k, m) /\ Before(m, n) => Before(k, n)
    BY <1>1
  <1>4. \A n \in S : Before(n, n)
    BY <1>1
  <1>5. IsFiniteSet(S)
    BY FS_Subset, DispatchConstantsOK
  <1> HIDE DEF Before
  <1>6. {} \in Good
    OBVIOUS
  <1>7. ASSUME NEW T \in SUBSET S, T # {}, \A x \in T : T \ {x} \in Good PROVE T \in Good
    <2>1. PICK x \in T : TRUE
      BY <1>7
    <2>2. CASE T \ {x} = {}
      <3>1. T = {x}
        BY <2>1, <2>2
      <3> QED BY <1>4, <2>1, <3>1
    <2>3. CASE \E n \in T \ {x} : \A m \in T \ {x} : Before(m, n)
      <3>1. PICK n \in T \ {x} : \A m \in T \ {x} : Before(m, n)
        BY <2>3
      <3>2. CASE Before(x, n)
        <4>1. \A m \in T : Before(m, n)
          BY <3>1, <3>2
        <4> QED BY <3>1, <4>1
      <3>3. CASE Before(n, x)
        <4>1. \A m \in T : Before(m, x)
          BY <1>3, <1>4, <2>1, <3>1, <3>3
        <4> QED BY <2>1, <4>1
      <3> QED BY <1>2, <2>1, <3>1, <3>2, <3>3
    <2> QED BY <1>7, <2>1, <2>2, <2>3
  <1>8. S \in Good
    <2> HIDE DEF Good
    <2> QED BY <1>5, <1>6, <1>7, SubsetInduction
  <1>9. \E n \in S : \A m \in S : Before(m, n)
    BY <1>8
  <1> QED BY <1>9, Zenon DEF LeastLoaded, Before

LEMMA PutPodTyped ==
  ASSUME known \subseteq Nodes, NEW j \in Jobs, NEW s, RoomTyped(s.room), s.full \in BOOLEAN
  PROVE  /\ RoomTyped(PutPod(s, j).room) /\ PutPod(s, j).full \in BOOLEAN
         /\ NoMore(PutPod(s, j).room, s.room)
         /\ ~PutPod(s, j).full =>
                /\ ~s.full
                /\ \E n \in NodesFor(j) :
                      /\ \A r \in Resources : Workload[j].ask[r] <= s.room[n][r]
                      /\ PutPod(s, j).room = [s.room EXCEPT ![n] =
                                 [r \in Resources |-> s.room[n][r] - Workload[j].ask[r]]]
  <1> DEFINE S == {n \in NodesFor(j) : Fits(Workload[j].ask, s.room[n])}
             n == LeastLoaded(S, s.room)
             ask == Workload[j].ask
  <1>1. ask \in [Resources -> Nat] /\ \A r \in Resources : ask[r] \in Nat
    BY DispatchConstantsOK
  <1>2. NodesFor(j) \subseteq known /\ S \subseteq known
    BY DEF NodesFor
  <1>3. PutPod(s, j) = IF s.full \/ S = {} THEN [room |-> s.room, full |-> TRUE]
                       ELSE [room |-> [s.room EXCEPT ![n] = Less(s.room[n], ask)], full |-> FALSE]
    BY Zenon DEF PutPod
  <1>4. CASE s.full \/ S = {}
    <2>1. PutPod(s, j).room = s.room /\ PutPod(s, j).full = TRUE
      BY <1>3, <1>4
    <2>2. NoMore(s.room, s.room)
      BY DEF NoMore, RoomTyped
    <2> QED BY <2>1, <2>2
  <1>5. CASE ~(s.full \/ S = {})
    <2>1. /\ PutPod(s, j).room = [s.room EXCEPT ![n] = Less(s.room[n], ask)]
          /\ PutPod(s, j).full = FALSE /\ ~s.full
      BY <1>3, <1>5
    <2>2. n \in S
      BY <1>2, <1>5, SomeLeastLoaded
    <2>3. n \in NodesFor(j) /\ n \in known /\ Fits(ask, s.room[n])
      BY <1>2, <2>2
    <2> HIDE DEF n, S
    <2>4. s.room[n] \in [Resources -> Nat]
      BY <2>3 DEF RoomTyped
    <2>5. ASSUME NEW r \in Resources
          PROVE  /\ ask[r] <= s.room[n][r] /\ s.room[n][r] - ask[r] \in Nat
                 /\ Monus(s.room[n][r], ask[r]) = s.room[n][r] - ask[r]
      <3>1. ask[r] <= s.room[n][r]
        BY <1>1, <2>3 DEF Fits
      <3>2. ask[r] \in Nat /\ s.room[n][r] \in Nat
        BY <1>1, <2>4
      <3> QED BY <3>1, <3>2 DEF Monus
    <2>6. Less(s.room[n], ask) = [r \in Resources |-> s.room[n][r] - ask[r]]
      BY <2>4, <2>5 DEF Less
    <2> DEFINE rest == [r \in Resources |-> s.room[n][r] - ask[r]]
               new == [s.room EXCEPT ![n] = rest]
    <2>7. rest \in [Resources -> Nat] /\ \A r \in Resources : rest[r] <= s.room[n][r]
      <3>1. \A r \in Resources : ask[r] \in Nat /\ s.room[n][r] \in Nat
        BY <1>1, <2>4
      <3> QED BY <2>5, <3>1
    <2>8. PutPod(s, j).room = new
      BY <2>1, <2>6
    <2> HIDE DEF rest
    <2>9. RoomTyped(new)
      BY <2>7 DEF RoomTyped
    <2>10. NoMore(new, s.room)
      <3> SUFFICES ASSUME NEW m \in known, NEW r \in Resources PROVE new[m][r] <= s.room[m][r]
        BY DEF NoMore
      <3>1. s.room[m][r] \in Nat
        BY DEF RoomTyped
      <3>2. new[m] = IF m = n THEN rest ELSE s.room[m]
        BY DEF RoomTyped
      <3> QED BY <2>7, <3>1, <3>2
    <2> QED BY <2>1, <2>3, <2>5, <2>8, <2>9, <2>10 DEF rest
  <1> QED BY <1>4, <1>5

\* One more pod on a node with room for it.
LEMMA PodPlaced ==
  ASSUME NEW S, NEW at, NEW a, NEW b, RoomTyped(a), RoomTyped(b), Placed(S, at, a, b),
         NEW j \in Jobs, NEW i \in Nat, <<j, i>> \notin S,
         NEW n \in NodesFor(j), \A r \in Resources : Workload[j].ask[r] <= b[n][r],
         NEW c, c = [b EXCEPT ![n] = [r \in Resources |-> b[n][r] - Workload[j].ask[r]]]
  PROVE  \E more : Placed(S \cup {<<j, i>>}, more, a, c)
  <1> DEFINE p == <<j, i>>
             T == S \cup {p}
             more == [x \in T |-> IF x = p THEN n ELSE at[x]]
  <1>1. p \in Jobs \X Nat /\ p[1] = j /\ p \notin S /\ n \in known
    BY DEF NodesFor
  <1> HIDE DEF p
  <1>2. T \subseteq Jobs \X Nat /\ IsFiniteSet(T)
    BY <1>1, FS_AddElement DEF Placed
  <1>3. more \in [T -> known] /\ more[p] = n /\ \A x \in S : more[x] = at[x]
    BY <1>1 DEF Placed
  <1>4. \A x \in T : more[x] \in NodesFor(x[1])
    BY <1>1, <1>3 DEF Placed
  <1>5. ASSUME NEW m \in known, NEW r \in Resources
        PROVE  SumFunctionOnSet(Weigh(r), {x \in T : more[x] = m}) + c[m][r] <= a[m][r]
    <2> DEFINE On == {x \in S : at[x] = m}
    <2>1. SumFunctionOnSet(Weigh(r), On) + b[m][r] <= a[m][r]
      BY DEF Placed
    <2>2. IsFiniteSet(On) /\ On \subseteq Jobs \X Nat
      BY FS_Subset DEF Placed
    <2>3. \A x \in On : Weigh(r)[x] \in Nat
      BY <2>2, WeighTyped
    <2>4. SumFunctionOnSet(Weigh(r), On) \in Nat
      <3> HIDE DEF On
      <3> QED BY <2>2, <2>3, SumIsNatural, Zenon
    <2>5. a[m][r] \in Nat /\ b[m][r] \in Nat /\ Workload[j].ask[r] \in Nat
      BY DispatchConstantsOK DEF RoomTyped
    <2>6. CASE m = n
      <3> DEFINE Now == On \cup {p}
      <3>1. {x \in T : more[x] = m} = Now
        BY <1>1, <1>3, <2>6
      <3>2. Now \ {p} = On /\ p \in Now
        BY <1>1
      <3>3. IsFiniteSet(Now) /\ \A x \in Now : Weigh(r)[x] \in Nat
        BY <1>1, <2>2, <2>3, WeighTyped, FS_AddElement
      <3> HIDE DEF Now, On
      <3>4. /\ SumFunctionOnSet(Weigh(r), Now) = Weigh(r)[p] + SumFunctionOnSet(Weigh(r), Now \ {p})
            /\ SumFunctionOnSet(Weigh(r), Now \ {p}) \in Nat
        BY <3>2, <3>3, SumWithout, Zenon
      <3>5. Weigh(r)[p] = Workload[j].ask[r]
        BY <1>1, WeighTyped
      <3>6. c[m][r] = b[m][r] - Workload[j].ask[r]
        BY <1>1, <2>6 DEF RoomTyped
      <3> HIDE DEF more
      <3>7. SumFunctionOnSet(Weigh(r), {x \in T : more[x] = m})
                = Workload[j].ask[r] + SumFunctionOnSet(Weigh(r), On)
        BY <3>1, <3>2, <3>4, <3>5
      <3> QED BY <2>1, <2>4, <2>5, <3>6, <3>7
    <2>7. CASE m # n
      <3>1. {x \in T : more[x] = m} = On
        BY <1>1, <1>3, <2>7
      <3>2. c[m] = b[m]
        BY <2>7 DEF RoomTyped
      <3> QED BY <2>1, <3>1, <3>2
    <2> QED BY <2>6, <2>7
  <1> HIDE DEF more
  <1>6. Placed(T, more, a, c)
    BY <1>2, <1>3, <1>4, <1>5 DEF Placed
  <1> QED BY <1>6 DEF p

PodsTo(j, n) == {<<j, i>> : i \in 1..n}

\* All pods of a job, or as many as find room.
LEMMA JobPlaced ==
  ASSUME known \subseteq Nodes, NEW j \in Jobs, NEW room, RoomTyped(room)
  PROVE  /\ RoomTyped(PutPods(room, j).room) /\ NoMore(PutPods(room, j).room, room)
         /\ ~PutPods(room, j).full =>
               \A S, at, a : /\ RoomTyped(a) /\ Placed(S, at, a, room)
                             /\ \A i \in Nat : <<j, i>> \notin S
                   => \E more : Placed(S \cup PodsTo(j, Workload[j].pods), more, a, PutPods(room, j).room)
  <1> DEFINE N == Workload[j].pods
             run(n) == PodRun(room, j)[n]
             Reached(n) ==
                \A S, at, a : RoomTyped(a) /\ Placed(S, at, a, room) /\ (\A i \in Nat : <<j, i>> \notin S)
                   => \E more : Placed(S \cup PodsTo(j, n), more, a, run(n).room)
             Good == {n \in 0..N : /\ RoomTyped(run(n).room) /\ run(n).full \in BOOLEAN
                                   /\ NoMore(run(n).room, room)
                                   /\ ~run(n).full => Reached(n)}
  <1>1. N \in Nat
    BY LimitsPositive
  <1>2. run(0) = [room |-> room, full |-> FALSE] /\ \A n \in 1..N : run(n) = PutPod(run(n - 1), j)
    BY <1>1, PodRunStep
  <1> HIDE DEF run, N
  <1>3. 0 \in Good
    <2>1. run(0).room = room /\ run(0).full = FALSE
      BY <1>2
    <2>2. NoMore(room, room)
      BY DEF NoMore, RoomTyped
    <2>3. PodsTo(j, 0) = {}
      BY DEF PodsTo
    <2>4. Reached(0)
      <3> SUFFICES ASSUME NEW S, NEW at, NEW a, Placed(S, at, a, room)
                   PROVE  \E more : Placed(S \cup PodsTo(j, 0), more, a, run(0).room)
        OBVIOUS
      <3>1. S \cup PodsTo(j, 0) = S
        BY <2>3
      <3> QED BY <2>1, <3>1
    <2>5. 0 \in 0..N
      BY <1>1
    <2> HIDE DEF Reached
    <2>6. /\ RoomTyped(run(0).room) /\ run(0).full \in BOOLEAN /\ NoMore(run(0).room, room)
          /\ ~run(0).full => Reached(0)
      BY <2>1, <2>2, <2>4
    <2> QED BY <2>5, <2>6
  <1>4. ASSUME NEW n \in 0..N, n \in Good, n < N PROVE n + 1 \in Good
    <2>1. n + 1 \in 1..N /\ (n + 1) - 1 = n /\ n + 1 \in 0..N /\ n + 1 \in Nat
      BY <1>1, <1>4
    <2>2. run(n + 1) = PutPod(run(n), j)
      BY <1>2, <2>1
    <2>3. /\ RoomTyped(run(n).room) /\ run(n).full \in BOOLEAN /\ NoMore(run(n).room, room)
          /\ ~run(n).full => Reached(n)
      BY <1>4
    <2>4. /\ RoomTyped(run(n + 1).room) /\ run(n + 1).full \in BOOLEAN
          /\ NoMore(run(n + 1).room, run(n).room)
          /\ ~run(n + 1).full =>
                /\ ~run(n).full
                /\ \E m \in NodesFor(j) :
                      /\ \A r \in Resources : Workload[j].ask[r] <= run(n).room[m][r]
                      /\ run(n + 1).room = [run(n).room EXCEPT ![m] =
                                 [r \in Resources |-> run(n).room[m][r] - Workload[j].ask[r]]]
      <3> DEFINE s == run(n)
      <3>1. RoomTyped(s.room) /\ s.full \in BOOLEAN
        BY <2>3
      <3> HIDE DEF s, Reached
      <3>2. /\ RoomTyped(PutPod(s, j).room) /\ PutPod(s, j).full \in BOOLEAN
            /\ NoMore(PutPod(s, j).room, s.room)
            /\ ~PutPod(s, j).full =>
                  /\ ~s.full
                  /\ \E m \in NodesFor(j) :
                        /\ \A r \in Resources : Workload[j].ask[r] <= s.room[m][r]
                        /\ PutPod(s, j).room = [s.room EXCEPT ![m] =
                                   [r \in Resources |-> s.room[m][r] - Workload[j].ask[r]]]
        BY <3>1, PutPodTyped
      <3> QED BY <2>2, <3>2 DEF s
    <2>5. NoMore(run(n + 1).room, room)
      <3> SUFFICES ASSUME NEW m \in known, NEW r \in Resources
                   PROVE  run(n + 1).room[m][r] <= room[m][r]
        BY DEF NoMore
      <3>1. run(n + 1).room[m][r] <= run(n).room[m][r] /\ run(n).room[m][r] <= room[m][r]
        BY <2>3, <2>4 DEF NoMore
      <3>2. run(n + 1).room[m][r] \in Nat /\ run(n).room[m][r] \in Nat /\ room[m][r] \in Nat
        BY <2>3, <2>4 DEF RoomTyped
      <3> QED BY <3>1, <3>2
    <2>6. ASSUME ~run(n + 1).full, NEW S, NEW at, NEW a, RoomTyped(a), Placed(S, at, a, room),
                 \A i \in Nat : <<j, i>> \notin S
          PROVE  \E more : Placed(S \cup PodsTo(j, n + 1), more, a, run(n + 1).room)
      <3>1. PICK before : Placed(S \cup PodsTo(j, n), before, a, run(n).room)
        BY <2>3, <2>4, <2>6
      <3>2. PICK m \in NodesFor(j) :
                /\ \A r \in Resources : Workload[j].ask[r] <= run(n).room[m][r]
                /\ run(n + 1).room = [run(n).room EXCEPT ![m] =
                           [r \in Resources |-> run(n).room[m][r] - Workload[j].ask[r]]]
        BY <2>4, <2>6
      <3>3. /\ <<j, n + 1>> \notin S \cup PodsTo(j, n)
            /\ S \cup PodsTo(j, n + 1) = (S \cup PodsTo(j, n)) \cup {<<j, n + 1>>}
        <4>1. 1..(n + 1) = 1..n \cup {n + 1} /\ n + 1 \notin 1..n
          BY <2>1
        <4> QED BY <2>1, <2>6, <4>1 DEF PodsTo
      <3> DEFINE S1 == S \cup PodsTo(j, n)
                 r0 == run(n).room
                 r1 == run(n + 1).room
      <3>4. /\ RoomTyped(r0) /\ Placed(S1, before, a, r0) /\ <<j, n + 1>> \notin S1
            /\ \A r \in Resources : Workload[j].ask[r] <= r0[m][r]
            /\ r1 = [r0 EXCEPT ![m] = [r \in Resources |-> r0[m][r] - Workload[j].ask[r]]]
        BY <2>3, <3>1, <3>2, <3>3
      <3> HIDE DEF S1, r0, r1
      <3>5. \E more : Placed(S1 \cup {<<j, n + 1>>}, more, a, r1)
        BY <2>1, <2>6, <3>4, PodPlaced
      <3> QED BY <3>3, <3>5 DEF S1, r1
    <2>7. ~run(n + 1).full => Reached(n + 1)
      BY <2>6
    <2> HIDE DEF Reached
    <2> QED BY <2>1, <2>4, <2>5, <2>7
  <1>5. N \in Good
    <2> HIDE DEF Good
    <2> QED BY <1>1, <1>3, <1>4, SetInduction
  <1>6. PutPods(room, j) = run(N)
    BY DEF PutPods, run, N
  <1> QED BY <1>5, <1>6 DEF N

\* What the jobs on their way are guessed to leave.
LEMMA GuessLeavesLess ==
  ASSUME known \subseteq Nodes, NEW seq \in Seq(Jobs), RoomTyped(RoomBesideRunning)
  PROVE  RoomTyped(RoomBeside(seq)) /\ NoMore(RoomBeside(seq), RoomBesideRunning)
  <1> DEFINE room == RoomBesideRunning
             run(n) == GuessRun(seq)[n]
             Good == {n \in 0..Len(seq) : RoomTyped(run(n)) /\ NoMore(run(n), room)}
  <1>1. Len(seq) \in Nat
    OBVIOUS
  <1>2. run(0) = room /\ \A n \in 1..Len(seq) : run(n) = PutPods(run(n - 1), seq[n]).room
    BY <1>1, GuessRunStep
  <1> HIDE DEF run, room
  <1>3. RoomTyped(room)
    BY DEF room
  <1>4. 0 \in Good
    <2>1. NoMore(room, room)
      BY <1>3 DEF NoMore, RoomTyped
    <2> QED BY <1>1, <1>2, <1>3, <2>1
  <1>5. ASSUME NEW n \in 0..Len(seq), n \in Good, n < Len(seq) PROVE n + 1 \in Good
    <2>1. n + 1 \in 1..Len(seq) /\ (n + 1) - 1 = n /\ n + 1 \in 0..Len(seq) /\ seq[n + 1] \in Jobs
      BY <1>1, <1>5
    <2>2. run(n + 1) = PutPods(run(n), seq[n + 1]).room
      BY <1>2, <2>1
    <2>3. RoomTyped(run(n)) /\ NoMore(run(n), room)
      BY <1>5
    <2>4. RoomTyped(run(n + 1)) /\ NoMore(run(n + 1), run(n))
      BY <2>1, <2>2, <2>3, JobPlaced
    <2>5. NoMore(run(n + 1), room)
      <3> SUFFICES ASSUME NEW m \in known, NEW r \in Resources PROVE run(n + 1)[m][r] <= room[m][r]
        BY DEF NoMore
      <3>1. run(n + 1)[m][r] <= run(n)[m][r] /\ run(n)[m][r] <= room[m][r]
        BY <2>3, <2>4 DEF NoMore
      <3>2. run(n + 1)[m][r] \in Nat /\ run(n)[m][r] \in Nat /\ room[m][r] \in Nat
        BY <1>3, <2>3, <2>4 DEF RoomTyped
      <3> QED BY <3>1, <3>2
    <2> QED BY <2>1, <2>4, <2>5
  <1>6. Len(seq) \in Good
    <2> HIDE DEF Good
    <2> QED BY <1>1, <1>4, <1>5, SetInduction
  <1> QED BY <1>6 DEF RoomBeside, run, room

HaveNodes(S) == {j \in S : NodesFor(j) # {}}

\* After each candidate: the pods of those kept can be placed.
LEMMA KeptArePlaced ==
  ASSUME known \subseteq Nodes, NEW seq \in Seq(Jobs), IsInjective(seq),
         NEW a, RoomTyped(a), NEW room, RoomTyped(room), NoMore(room, a)
  PROVE  \E at, left_ : /\ RoomTyped(left_)
                        /\ Placed(PodsOf(HaveNodes(Range(Placeable(seq, room)))), at, a, left_)
  <1> DEFINE run(n) == NodeRun(seq, room)[n]
             Good == {n \in 0..Len(seq) :
                        /\ RoomTyped(run(n).room)
                        /\ run(n).kept \in Seq(Jobs) /\ IsInjective(run(n).kept)
                        /\ Range(run(n).kept) \subseteq {seq[i] : i \in 1..n}
                        /\ \E at : Placed(PodsOf(HaveNodes(Range(run(n).kept))), at, a, run(n).room)}
  <1>1. Len(seq) \in Nat
    OBVIOUS
  <1>2. run(0) = [room |-> room, kept |-> <<>>] /\ \A n \in 1..Len(seq) : run(n) = TryNodes(run(n - 1), seq[n])
    BY <1>1, NodeRunStep
  <1> HIDE DEF run
  <1>3. 0 \in Good
    <2>1. run(0).room = room /\ run(0).kept = <<>>
      BY <1>2
    <2>2. /\ run(0).kept \in Seq(Jobs) /\ IsInjective(run(0).kept) /\ Range(run(0).kept) = {}
      <3>1. <<>> \in Seq(Jobs) /\ DOMAIN <<>> = {}
        OBVIOUS
      <3> QED BY <2>1, <3>1 DEF IsInjective, Range
    <2>3. PodsOf(HaveNodes({})) = {}
      BY DEF PodsOf, HaveNodes
    <2>4. ASSUME NEW at, at = [p \in {} |-> 0] PROVE Placed({}, at, a, room)
      <3>1. IsFiniteSet({}) /\ at \in [{} -> known]
        BY <2>4, FS_EmptySet
      <3>2. ASSUME NEW n \in known, NEW r \in Resources
            PROVE  SumFunctionOnSet(Weigh(r), {p \in {} : at[p] = n}) + room[n][r] <= a[n][r]
        <4>1. {p \in {} : at[p] = n} = {}
          OBVIOUS
        <4>2. SumFunctionOnSet(Weigh(r), {}) = 0
          BY <3>1, SumPicked, Zenon
        <4>3. room[n][r] <= a[n][r] /\ room[n][r] \in Nat
          BY DEF NoMore, RoomTyped
        <4> QED BY <4>1, <4>2, <4>3
      <3> QED BY <3>1, <3>2 DEF Placed
    <2>5. \E at : Placed(PodsOf(HaveNodes(Range(run(0).kept))), at, a, run(0).room)
      BY <2>1, <2>2, <2>3, <2>4
    <2> QED BY <1>1, <2>1, <2>2, <2>5
  <1>4. ASSUME NEW n \in 0..Len(seq), n \in Good, n < Len(seq) PROVE n + 1 \in Good
    <2> DEFINE j == seq[n + 1]
               s == run(n)
               t == run(n + 1)
               trial == PutPods(s.room, j)
    <2>1. n + 1 \in 1..Len(seq) /\ (n + 1) - 1 = n /\ n + 1 \in 0..Len(seq) /\ n \in Nat
      BY <1>1, <1>4
    <2>2. t = TryNodes(s, j)
      BY <1>2, <2>1
    <2>3. /\ RoomTyped(s.room) /\ s.kept \in Seq(Jobs) /\ IsInjective(s.kept)
          /\ Range(s.kept) \subseteq {seq[i] : i \in 1..n}
      BY <1>4
    <2>4. PICK at : Placed(PodsOf(HaveNodes(Range(s.kept))), at, a, s.room)
      BY <1>4
    <2>5. /\ \/ NodesFor(j) = {} /\ t = [room |-> s.room, kept |-> Append(s.kept, j)]
             \/ NodesFor(j) # {} /\ t = s
             \/ NodesFor(j) # {} /\ ~trial.full /\ t = [room |-> trial.room, kept |-> Append(s.kept, j)]
      BY <2>2, Zenon DEF TryNodes
    <2>6. j \in Jobs /\ j \notin Range(s.kept)
      <3>1. j \in Jobs /\ \A i \in 1..n : seq[i] # j
        BY <2>1 DEF IsInjective
      <3> QED BY <2>3, <3>1
    <2> HIDE DEF j, s, t, trial
    <2>7. /\ Append(s.kept, j) \in Seq(Jobs) /\ IsInjective(Append(s.kept, j))
          /\ Range(Append(s.kept, j)) = Range(s.kept) \cup {j}
      BY <2>3, <2>6, AppendedOnce
    <2>8. Range(s.kept) \cup {j} \subseteq {seq[i] : i \in 1..(n + 1)}
      <3>1. \A i \in 1..n : i \in 1..(n + 1)
        BY <2>1
      <3>2. n + 1 \in 1..(n + 1)
        BY <2>1
      <3> QED BY <2>3, <3>1, <3>2 DEF j
    <2>9. CASE NodesFor(j) = {} /\ t = [room |-> s.room, kept |-> Append(s.kept, j)]
      <3>1. t.room = s.room /\ t.kept = Append(s.kept, j)
        BY <2>9
      <3>2. HaveNodes(Range(s.kept) \cup {j}) = HaveNodes(Range(s.kept))
        BY <2>9 DEF HaveNodes
      <3>3. Placed(PodsOf(HaveNodes(Range(t.kept))), at, a, t.room)
        BY <2>4, <2>7, <3>1, <3>2
      <3> QED BY <2>1, <2>3, <2>7, <2>8, <3>1, <3>3 DEF t
    <2>10. CASE NodesFor(j) # {} /\ t = s
      <3>1. Range(s.kept) \subseteq {seq[i] : i \in 1..(n + 1)}
        BY <2>8
      <3> QED BY <2>1, <2>3, <2>4, <2>10, <3>1 DEF t
    <2>11. CASE NodesFor(j) # {} /\ ~trial.full /\ t = [room |-> trial.room, kept |-> Append(s.kept, j)]
      <3>1. t.room = trial.room /\ t.kept = Append(s.kept, j)
        BY <2>11
      <3> DEFINE S == PodsOf(HaveNodes(Range(s.kept)))
      <3>2. \A i \in Nat : <<j, i>> \notin S
        BY <2>6 DEF PodsOf, HaveNodes
      <3>3. PodsOf(HaveNodes(Range(s.kept) \cup {j})) = S \cup PodsTo(j, Workload[j].pods)
        <4>1. HaveNodes(Range(s.kept) \cup {j}) = HaveNodes(Range(s.kept)) \cup {j}
          BY <2>11 DEF HaveNodes
        <4>2. \A A : PodsOf(A \cup {j}) = PodsOf(A) \cup PodsTo(j, Workload[j].pods)
          BY DEF PodsOf, PodsTo
        <4> QED BY <4>1, <4>2
      <3> HIDE DEF S
      <3>4. Placed(S, at, a, s.room)
        BY <2>4 DEF S
      <3>5. RoomTyped(trial.room)
        BY <2>3, <2>6, JobPlaced DEF trial
      <3>6. \E more : Placed(S \cup PodsTo(j, Workload[j].pods), more, a, trial.room)
        <4>1. \A S_, at_, a_ : /\ RoomTyped(a_) /\ Placed(S_, at_, a_, s.room)
                               /\ \A i \in Nat : <<j, i>> \notin S_
                 => \E more : Placed(S_ \cup PodsTo(j, Workload[j].pods), more, a_, trial.room)
          BY <2>3, <2>6, <2>11, JobPlaced, Zenon DEF trial
        <4> QED BY <3>2, <3>4, <4>1, Zenon
      <3>7. \E more : Placed(PodsOf(HaveNodes(Range(t.kept))), more, a, t.room)
        BY <2>7, <3>1, <3>3, <3>6
      <3> QED BY <2>1, <2>7, <2>8, <3>1, <3>5, <3>7 DEF t
    <2> QED BY <2>5, <2>9, <2>10, <2>11
  <1>5. Len(seq) \in Good
    <2> HIDE DEF Good
    <2> QED BY <1>1, <1>3, <1>4, SetInduction
  <1>6. Placeable(seq, room) = run(Len(seq)).kept
    BY DEF Placeable, run
  <1> QED BY <1>5, <1>6

LEMMA SumOfPart ==
  ASSUME NEW f, NEW U, IsFiniteSet(U), \A x \in U : f[x] \in Nat, NEW T, T \subseteq U
  PROVE  /\ SumFunctionOnSet(f, T) \in Nat /\ SumFunctionOnSet(f, U) \in Nat
         /\ SumFunctionOnSet(f, T) <= SumFunctionOnSet(f, U)
  <1> DEFINE Good == {V \in SUBSET U : SumFunctionOnSet(f, V \cap T) <= SumFunctionOnSet(f, V)}
  <1>1. ASSUME NEW V \in SUBSET U
        PROVE  IsFiniteSet(V) /\ SumFunctionOnSet(f, V) \in Nat
    <2>1. IsFiniteSet(V) /\ \A x \in V : f[x] \in Nat
      BY FS_Subset
    <2>2. SumFunctionOnSet(f, V) \in Nat
      BY <2>1, SumIsNatural, Zenon
    <2> QED BY <2>1, <2>2
  <1>2. {} \in Good
    <2>1. {} \cap T = {} /\ SumFunctionOnSet(f, {}) \in Nat
      BY <1>1
    <2> QED BY <2>1
  <1>3. ASSUME NEW V \in SUBSET U, V # {}, \A x \in V : V \ {x} \in Good PROVE V \in Good
    <2>1. PICK x \in V : TRUE
      BY <1>3
    <2>2. /\ SumFunctionOnSet(f, V) = f[x] + SumFunctionOnSet(f, V \ {x})
          /\ SumFunctionOnSet(f, V \ {x}) \in Nat
      <3>1. IsFiniteSet(V) /\ \A y \in V : f[y] \in Nat
        BY <1>1
      <3> QED BY <2>1, <3>1, SumWithout, Zenon
    <2>3. SumFunctionOnSet(f, (V \ {x}) \cap T) <= SumFunctionOnSet(f, V \ {x})
      BY <1>3, <2>1
    <2>4. f[x] \in Nat /\ SumFunctionOnSet(f, (V \ {x}) \cap T) \in Nat
      <3>1. (V \ {x}) \cap T \in SUBSET U
        OBVIOUS
      <3> QED BY <1>1, <2>1, <3>1
    <2>5. CASE x \in T
      <3> DEFINE W == V \cap T
      <3>1. IsFiniteSet(W) /\ (\A y \in W : f[y] \in Nat) /\ x \in W
        <4>1. W \in SUBSET U
          OBVIOUS
        <4> QED BY <1>1, <2>1, <2>5, <4>1
      <3>2. W \ {x} = (V \ {x}) \cap T
        OBVIOUS
      <3> HIDE DEF W
      <3>3. /\ SumFunctionOnSet(f, W) = f[x] + SumFunctionOnSet(f, W \ {x})
            /\ SumFunctionOnSet(f, W \ {x}) \in Nat
        BY <3>1, SumWithout, Zenon
      <3>4. SumFunctionOnSet(f, W \ {x}) <= SumFunctionOnSet(f, V \ {x})
        BY <2>3, <3>2
      <3>5. \A a, b, c \in Nat : a <= b => c + a <= c + b
        OBVIOUS
      <3>6. SumFunctionOnSet(f, W) <= SumFunctionOnSet(f, V)
        BY <2>2, <2>4, <3>3, <3>4, <3>5
      <3> QED BY <3>6 DEF W
    <2>6. CASE x \notin T
      <3> DEFINE W == V \cap T
      <3>1. W = (V \ {x}) \cap T
        BY <2>6
      <3> HIDE DEF W
      <3>2. SumFunctionOnSet(f, W) <= SumFunctionOnSet(f, V)
        BY <2>2, <2>3, <2>4, <3>1
      <3> QED BY <3>2 DEF W
    <2> QED BY <2>5, <2>6
  <1>4. U \in Good
    <2> HIDE DEF Good
    <2> QED BY <1>2, <1>3, SubsetInduction
  <1>5. U \cap T = T
    OBVIOUS
  <1> QED BY <1>1, <1>4, <1>5

LEMMA ShareTyped ==
  ASSUME SitesTyped, NEW j \in Jobs, NEW n
  PROVE  Share(j, n) \in Nat
  <1>1. hosts[j] \subseteq Nodes
    BY DEF SitesTyped
  <1>2. IsFiniteSet(hosts[j])
    BY <1>1, FS_Subset, DispatchConstantsOK
  <1>3. Cardinality(hosts[j]) \in Nat
    BY <1>2, FS_CardinalityType
  <1>4. CASE n \notin hosts[j]
    BY <1>4 DEF Share
  <1>5. CASE n \in hosts[j] /\ ~Workload[j].sweep
    BY <1>5 DEF Share
  <1>6. CASE n \in hosts[j] /\ Workload[j].sweep
    <2>1. Cardinality(hosts[j]) # 0
      BY <1>2, <1>6, FS_EmptySet
    <2>2. Workload[j].pods \in Nat
      BY LimitsPositive
    <2>3. \A x \in Nat : \A y \in Nat \ {0} : x \div y \in Nat
      OBVIOUS
    <2>4. Workload[j].pods \div Cardinality(hosts[j]) \in Nat
      BY <1>3, <2>1, <2>2, <2>3
    <2> HIDE DEF Share
    <2>5. Share(j, n) = Workload[j].pods \div Cardinality(hosts[j])
                        + IF Cardinality({m \in hosts[j] : m < n})
                                < Workload[j].pods % Cardinality(hosts[j]) THEN 1 ELSE 0
      BY <1>6, Zenon DEF Share
    <2> QED BY <2>4, <2>5
  <1> QED BY <1>4, <1>5, <1>6

LEMMA RoomBesideRunningTyped ==
  ASSUME SitesTyped
  PROVE  RoomTyped(RoomBesideRunning)
  <1> SUFFICES ASSUME NEW n \in known, NEW r \in Resources
               PROVE  Monus(Capacity[n][r],
                            SumFunction([j \in {i \in With("RUNNING") : n \in NodesFor(i)} |->
                                            Share(j, n) * Workload[j].ask[r]])) \in Nat
    BY DEF RoomBesideRunning, RoomTyped
  <1> DEFINE S == {i \in With("RUNNING") : n \in NodesFor(i)}
             h == [j \in S |-> Share(j, n) * Workload[j].ask[r]]
  <1>1. S \subseteq Jobs
    BY DEF With
  <1>2. IsFiniteSet(S)
    BY <1>1, FS_Subset, DispatchConstantsOK
  <1>3. ASSUME NEW j \in S PROVE Share(j, n) * Workload[j].ask[r] \in Nat
    <2>1. j \in Jobs
      BY <1>1
    <2>2. Share(j, n) \in Nat /\ Workload[j].ask[r] \in Nat
      BY <2>1, ShareTyped, DispatchConstantsOK
    <2> QED BY <2>2
  <1>4. h \in [S -> Nat]
    BY <1>3
  <1>5. SumFunction(h) \in Nat
    <2> HIDE DEF h, S
    <2> QED BY <1>2, <1>4, SumOfFunction
  <1>6. Capacity[n][r] \in Nat
    BY DispatchConstantsOK DEF SitesTyped
  <1> HIDE DEF h
  <1>7. Monus(Capacity[n][r], SumFunction(h)) \in Nat
    BY <1>5, <1>6 DEF Monus
  <1> QED BY <1>7 DEF h

\* Some of the jobs that are placed can be placed.
LEMMA PlacedCanPlace ==
  ASSUME known \subseteq Nodes, NEW K, K \subseteq Jobs, NEW S, S \subseteq K,
         NEW at, NEW b, RoomTyped(RoomBesideRunning), RoomTyped(b),
         Placed(PodsOf(K), at, RoomBesideRunning, b)
  PROVE  CanPlace(S, RoomBesideRunning)
  <1> DEFINE P == PodsOf(S)
             some == [p \in P |-> at[p]]
             room == RoomBesideRunning
  <1>1. P \subseteq PodsOf(K)
    BY DEF PodsOf
  <1>2. P \subseteq Jobs \X Nat /\ IsFiniteSet(PodsOf(K))
    BY <1>1 DEF Placed
  <1> HIDE DEF P, room
  <1>3. some \in [P -> Nodes] /\ \A p \in P : some[p] = at[p] /\ some[p] \in NodesFor(p[1])
    BY <1>1 DEF Placed
  <1>4. ASSUME NEW n \in DOMAIN room, NEW r \in Resources
        PROVE  SumFunctionOnSet([p \in P |-> Workload[p[1]].ask[r]], {p \in P : some[p] = n}) <= room[n][r]
    <2> DEFINE f == [p \in P |-> Workload[p[1]].ask[r]]
               On == {p \in P : some[p] = n}
               All == {p \in PodsOf(K) : at[p] = n}
    <2>1. n \in known
      BY DEF RoomBesideRunning, room
    <2>2. On \subseteq All /\ All \subseteq Jobs \X Nat /\ On \subseteq P
      BY <1>1, <1>3 DEF Placed
    <2>3. IsFiniteSet(All) /\ IsFiniteSet(On)
      <3>1. IsFiniteSet(All)
        BY <1>2, FS_Subset
      <3> QED BY <2>2, <3>1, FS_Subset
    <2>4. \A p \in All : Weigh(r)[p] \in Nat
      BY <2>2, WeighTyped
    <2>5. \A p \in On : f[p] = Weigh(r)[p]
      BY <1>2, <2>2, WeighTyped
    <2>6. SumFunctionOnSet(Weigh(r), All) + b[n][r] <= room[n][r] /\ b[n][r] \in Nat /\ room[n][r] \in Nat
      BY <2>1 DEF Placed, RoomTyped, room
    <2> HIDE DEF f, On, All
    <2>7. SumFunctionOnSet(f, On) = SumFunctionOnSet(Weigh(r), On)
      BY <2>3, <2>5, SumsOfEqual, Zenon
    <2>8. /\ SumFunctionOnSet(Weigh(r), On) \in Nat /\ SumFunctionOnSet(Weigh(r), All) \in Nat
          /\ SumFunctionOnSet(Weigh(r), On) <= SumFunctionOnSet(Weigh(r), All)
      BY <2>2, <2>3, <2>4, SumOfPart, Zenon
    <2>9. SumFunctionOnSet(f, On) <= room[n][r]
      BY <2>6, <2>7, <2>8
    <2> QED BY <2>9 DEF f, On
  <1> HIDE DEF some
  <1> QED BY <1>3, <1>4 DEF CanPlace, P, room

LEMMA NodesStep ==
  ASSUME TypeInv, FilterByNodeCapacity, BinPacking
  PROVE  CanPlace({j \in Range(cand') : NodesFor(j) # {}}, RoomBesideRunning)
  <1>1. /\ cand \in Seq(Jobs) /\ IsInjective(cand) /\ SitesTyped /\ known \subseteq Nodes
        /\ cand' \in Seq(Jobs)
    <2>1. RowsInv'
      BY FilterRows DEF TypeInv
    <2> QED BY <2>1 DEF TypeInv, RowsInv, CandidatesWait, SitesTyped
  <1>2. RoomTyped(RoomBesideRunning)
    BY <1>1, RoomBesideRunningTyped
  <1>3. CASE known # {}
    <2>1. PICK ahead \in InFlightOrders :
              Proceed("nodes", "dispatch", First(BatchSize, Placeable(cand, RoomBeside(ahead))))
      BY <1>3 DEF FilterByNodeCapacity
    <2>2. ahead \in Seq(Jobs)
      <3>1. Unplaced \subseteq Jobs
        BY DEF Unplaced, InFlight, With
      <3>2. IsFiniteSet(Unplaced)
        BY <3>1, FS_Subset, DispatchConstantsOK
      <3>3. ahead \in Seq(Unplaced)
        BY <3>2, SeqsOfSet DEF InFlightOrders
      <3> QED BY <3>1, <3>3
    <2> DEFINE room == RoomBeside(ahead)
               placed == Placeable(cand, room)
    <2>3. RoomTyped(room) /\ NoMore(room, RoomBesideRunning)
      BY <1>1, <1>2, <2>2, GuessLeavesLess
    <2> HIDE DEF room
    <2>4. PICK at, b : RoomTyped(b) /\ Placed(PodsOf(HaveNodes(Range(placed))), at, RoomBesideRunning, b)
      BY <1>1, <1>2, <2>3, KeptArePlaced
    <2>5. placed \in Seq(Jobs)
      BY <1>1, PlaceableIsPart
    <2> HIDE DEF placed
    <2>6. First(BatchSize, placed) \in Seq(Jobs) /\ Range(First(BatchSize, placed)) \subseteq Range(placed)
      BY <2>5, FirstIsPart, PartFacts, DispatchConstantsOK
    <2>7. cand' = First(BatchSize, placed)
      BY <2>1 DEF Proceed, placed, room
    <2> DEFINE S == {j \in Range(cand') : NodesFor(j) # {}}
               K == HaveNodes(Range(placed))
    <2>8. S \subseteq K /\ K \subseteq Jobs
      <3>1. Range(cand') \subseteq Range(placed)
        BY <2>6, <2>7
      <3>2. Range(placed) \subseteq Jobs
        BY <2>5 DEF Range
      <3> QED BY <3>1, <3>2 DEF HaveNodes
    <2>9. Placed(PodsOf(K), at, RoomBesideRunning, b)
      BY <2>4
    <2> HIDE DEF S, K
    <2>10. CanPlace(S, RoomBesideRunning)
      BY <1>1, <1>2, <2>4, <2>8, <2>9, PlacedCanPlace
    <2> QED BY <2>10 DEF S
  <1>4. CASE known = {}
    <2> DEFINE S == {j \in Range(cand') : NodesFor(j) # {}}
    <2>1. S = {}
      BY <1>4 DEF NodesFor
    <2>2. PodsOf({}) = {} /\ DOMAIN RoomBesideRunning = {}
      BY <1>4 DEF PodsOf, RoomBesideRunning
    <2>3. [p \in {} |-> 0] \in [{} -> Nodes]
      OBVIOUS
    <2>4. CanPlace({}, RoomBesideRunning)
      BY <2>2, <2>3 DEF CanPlace
    <2> HIDE DEF S
    <2>5. CanPlace(S, RoomBesideRunning)
      BY <2>1, <2>4
    <2> QED BY <2>5 DEF S
  <1> QED BY <1>3, <1>4

\* Whatever the node filter lets through in one cycle has a place for each of its
\* pods on the known nodes, beside what runs and all at once: the trial placement
\* of one candidate is there when the next one is tried.
THEOREM BatchHasRoom == Spec => BatchCanBePlaced
  <1>1. TypeInv /\ [Next]_vars =>
           [FilterByNodeCapacity /\ BinPacking
               => CanPlace({j \in Range(cand') : NodesFor(j) # {}}, RoomBesideRunning)]_vars
    BY NodesStep
  <1> QED BY TypeInvAlways, <1>1, PTL DEF Spec, BatchCanBePlaced
=============================================================================
