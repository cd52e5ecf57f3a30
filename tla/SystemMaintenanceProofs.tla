----------------------- MODULE SystemMaintenanceProofs -----------------------
(***************************************************************************)
(* Theorems about SystemMaintenance, for every number of rows, processes   *)
(* and commands, and however commands are abandoned and Pods come and go.  *)
(***************************************************************************)
EXTENDS SystemMaintenance, FiniteSetTheorems, SequenceTheorems, TLAPS

-----------------------------------------------------------------------------
(* The inductive invariant *)

From(whole, k) == SubSeq(whole, k, Len(whole))           \* from the k-th request on
Stopping(k) == script = From(ScriptOfStop, k)
Starting(k) == script = From(ScriptOfStart, k)
Deleting(S) == script = << [do |-> "delete", jobs |-> S] >>
Cancelling(S) == script = << [do |-> "cancel", jobs |-> S] >>

ScriptOK ==
    \/ script = <<>>
    \/ \E k \in 1..7 : Stopping(k)
    \/ \E k \in 1..3 : Starting(k)
    \/ \E S \in SUBSET Jobs : Deleting(S) \/ Cancelling(S)

\* A stop has rewritten the rows DISPATCHING and has not ended.
Clearing == (\E k \in 5..7 : Stopping(k)) \/ (\E S \in SUBSET Jobs : Deleting(S))

\* From when the Deployments are at zero to the next start.
ScaledDown ==
    /\ \A k \in 2..7 : Stopping(k) => replicas["submit-api"] = 0
    /\ \A k \in 3..7 : Stopping(k) => replicas["dispatcher"] = 0
    /\ \A k \in 4..7 : Stopping(k) => replicas["watcher"] = 0
    /\ Clearing \/ stopped => \A c \in Components : replicas[c] = 0

StoppedRests == stopped => script = <<>> \/ \E S \in SUBSET Jobs : Cancelling(S)

-----------------------------------------------------------------------------
(* Scripts *)

Requests ==
    [do : {"scale"}, of : Components, to : 0..1]
    \cup [do : {"rewrite"}, of : InFlight, to : {"QUEUED", "FAILED"}]
    \cup [do : {"list"}]

LEMMA StopRequests ==
  /\ ScriptOfStop \in Seq(Requests) /\ Len(ScriptOfStop) = 7
  /\ ScriptOfStop[1] = Scale("submit-api", 0)
  /\ ScriptOfStop[2] = Scale("dispatcher", 0)
  /\ ScriptOfStop[3] = Scale("watcher", 0)
  /\ ScriptOfStop[4] = Rewrite("DISPATCHING", "QUEUED")
  /\ ScriptOfStop[5] = Rewrite("DISPATCHED", "QUEUED")
  /\ ScriptOfStop[6] = Rewrite("RUNNING", "FAILED")
  /\ ScriptOfStop[7] = [do |-> "list"]
  <1>1. /\ Scale("submit-api", 0) \in Requests /\ Scale("dispatcher", 0) \in Requests
        /\ Scale("watcher", 0) \in Requests
        /\ Rewrite("DISPATCHING", "QUEUED") \in Requests /\ Rewrite("DISPATCHED", "QUEUED") \in Requests
        /\ Rewrite("RUNNING", "FAILED") \in Requests /\ [do |-> "list"] \in Requests
    BY DEF Requests, Scale, Rewrite, Components, InFlight
  <1> HIDE DEF Requests, Scale, Rewrite
  <1> QED BY <1>1 DEF ScriptOfStop

LEMMA StartRequests ==
  /\ ScriptOfStart \in Seq(Requests) /\ Len(ScriptOfStart) = 3
  /\ ScriptOfStart[1] = Scale("dispatcher", 1)
  /\ ScriptOfStart[2] = Scale("watcher", 1)
  /\ ScriptOfStart[3] = Scale("submit-api", 1)
  <1>1. /\ Scale("submit-api", 1) \in Requests /\ Scale("dispatcher", 1) \in Requests
        /\ Scale("watcher", 1) \in Requests
    BY DEF Requests, Scale, Components
  <1> HIDE DEF Requests, Scale
  <1> QED BY <1>1 DEF ScriptOfStart

LEMMA FromTyped ==
  ASSUME NEW whole \in Seq(Requests), NEW k \in 1..Len(whole)
  PROVE  /\ From(whole, k) # <<>> /\ Len(From(whole, k)) = Len(whole) - k + 1
         /\ Head(From(whole, k)) = whole[k]
         /\ Tail(From(whole, k)) = From(whole, k + 1)
         /\ From(whole, Len(whole) + 1) = <<>>
  <1> DEFINE n == Len(whole)
  <1>1. n \in Nat /\ k \in Int /\ n \in Int /\ k <= n /\ n \in k..n
    OBVIOUS
  <1>2. Head(From(whole, k)) = whole[k] /\ Tail(From(whole, k)) = From(whole, k + 1)
    BY <1>1, HeadTailOfSubSeq DEF From
  <1>3. Len(From(whole, k)) = n - k + 1
    BY <1>1, SubSeqProperties DEF From
  <1>4. From(whole, n + 1) = <<>>
    BY <1>1, SubSeqEmpty DEF From
  <1>5. From(whole, k) # <<>>
    <2>1. Len(<<>>) = 0
      BY EmptySeq
    <2> QED BY <1>1, <1>3, <2>1
  <1> QED BY <1>2, <1>3, <1>4, <1>5

\* A script that is a rest of a stop tells how much is left and what comes next.
LEMMA StopRest ==
  ASSUME NEW k \in 1..7, NEW s, s = From(ScriptOfStop, k)
  PROVE  /\ s # <<>> /\ Len(s) = 8 - k
         /\ Head(s) = ScriptOfStop[k]
         /\ k < 7 => Tail(s) = From(ScriptOfStop, k + 1)
         /\ k = 7 => Tail(s) = <<>>
         /\ Head(s).do = IF k <= 3 THEN "scale" ELSE IF k <= 6 THEN "rewrite" ELSE "list"
  <1>1. /\ s # <<>> /\ Len(s) = 8 - k /\ Head(s) = ScriptOfStop[k]
        /\ Tail(s) = From(ScriptOfStop, k + 1) /\ (k = 7 => Tail(s) = <<>>)
    <2>1. ScriptOfStop \in Seq(Requests) /\ k \in 1..Len(ScriptOfStop) /\ Len(ScriptOfStop) = 7
      BY StopRequests
    <2>2. /\ From(ScriptOfStop, k) # <<>> /\ Len(From(ScriptOfStop, k)) = Len(ScriptOfStop) - k + 1
          /\ Head(From(ScriptOfStop, k)) = ScriptOfStop[k]
          /\ Tail(From(ScriptOfStop, k)) = From(ScriptOfStop, k + 1)
          /\ From(ScriptOfStop, Len(ScriptOfStop) + 1) = <<>>
      BY <2>1, FromTyped, Zenon
    <2>3. From(ScriptOfStop, 8) = <<>> /\ Len(From(ScriptOfStop, k)) = 8 - k
      BY ONLY <2>1, <2>2, k \in 1..7
    <2> QED BY <2>2, <2>3
  <1>2. ScriptOfStop[k].do = IF k <= 3 THEN "scale" ELSE IF k <= 6 THEN "rewrite" ELSE "list"
    <2>1. k \in {1, 2, 3, 4, 5, 6, 7}
      OBVIOUS
    <2> QED BY <2>1, StopRequests DEF Scale, Rewrite
  <1> QED BY <1>1, <1>2

LEMMA StartRest ==
  ASSUME NEW k \in 1..3, NEW s, s = From(ScriptOfStart, k)
  PROVE  /\ s # <<>> /\ Len(s) = 4 - k
         /\ Head(s) = ScriptOfStart[k]
         /\ k < 3 => Tail(s) = From(ScriptOfStart, k + 1)
         /\ k = 3 => Tail(s) = <<>>
         /\ Head(s).do = "scale"
  <1>1. /\ s # <<>> /\ Len(s) = 4 - k /\ Head(s) = ScriptOfStart[k]
        /\ Tail(s) = From(ScriptOfStart, k + 1) /\ (k = 3 => Tail(s) = <<>>)
    <2>1. ScriptOfStart \in Seq(Requests) /\ k \in 1..Len(ScriptOfStart) /\ Len(ScriptOfStart) = 3
      BY StartRequests
    <2>2. /\ From(ScriptOfStart, k) # <<>> /\ Len(From(ScriptOfStart, k)) = Len(ScriptOfStart) - k + 1
          /\ Head(From(ScriptOfStart, k)) = ScriptOfStart[k]
          /\ Tail(From(ScriptOfStart, k)) = From(ScriptOfStart, k + 1)
          /\ From(ScriptOfStart, Len(ScriptOfStart) + 1) = <<>>
      BY <2>1, FromTyped, Zenon
    <2>3. From(ScriptOfStart, 4) = <<>> /\ Len(From(ScriptOfStart, k)) = 4 - k
      BY ONLY <2>1, <2>2, k \in 1..3
    <2> QED BY <2>2, <2>3
  <1>2. ScriptOfStart[k].do = "scale"
    <2>1. k \in {1, 2, 3}
      OBVIOUS
    <2> QED BY <2>1, StartRequests DEF Scale
  <1> QED BY <1>1, <1>2

LEMMA SingleRest ==
  ASSUME NEW S, NEW s, NEW what, s = << [do |-> what, jobs |-> S] >>
  PROVE  /\ s # <<>> /\ Len(s) = 1
         /\ Head(s).do = what /\ Head(s).jobs = S
         /\ Head(s) = [do |-> what, jobs |-> S]
  OBVIOUS

\* The kinds of scripts exclude one another.
LEMMA ScriptKinds ==
  ASSUME NEW s,
         \/ s = <<>>
         \/ \E k \in 1..7 : s = From(ScriptOfStop, k)
         \/ \E k \in 1..3 : s = From(ScriptOfStart, k)
         \/ \E S : s = << [do |-> "delete", jobs |-> S] >> \/ s = << [do |-> "cancel", jobs |-> S] >>
  PROVE  /\ s = <<>> =>
              /\ \A k \in 1..7 : s # From(ScriptOfStop, k)
              /\ \A k \in 1..3 : s # From(ScriptOfStart, k)
              /\ \A S, what : s # << [do |-> what, jobs |-> S] >>
         /\ \A k \in 1..7 : s = From(ScriptOfStop, k) =>
              /\ \A l \in 1..7 \ {k} : s # From(ScriptOfStop, l)
              /\ \A l \in 1..3 : s # From(ScriptOfStart, l)
              /\ \A S : s # << [do |-> "delete", jobs |-> S] >> /\ s # << [do |-> "cancel", jobs |-> S] >>
         /\ \A k \in 1..3 : s = From(ScriptOfStart, k) =>
              \A S : s # << [do |-> "delete", jobs |-> S] >> /\ s # << [do |-> "cancel", jobs |-> S] >>
         /\ \A S, T : s = << [do |-> "delete", jobs |-> S] >> => s # << [do |-> "cancel", jobs |-> T] >>
  <1>2. ASSUME NEW k \in 1..7, s = From(ScriptOfStop, k), NEW l \in 1..3
        PROVE  s # From(ScriptOfStart, l)
    <2> SUFFICES ASSUME s = From(ScriptOfStart, l) PROVE FALSE
      OBVIOUS
    <2>1. Len(s) = 8 - k /\ Head(s).do = IF k <= 3 THEN "scale" ELSE IF k <= 6 THEN "rewrite" ELSE "list"
      BY <1>2, StopRest, Zenon
    <2>2. Len(s) = 4 - l /\ Head(s).do = "scale"
      BY StartRest, Zenon
    <2> QED BY ONLY <2>1, <2>2, k \in 1..7, l \in 1..3
  <1>3. ASSUME NEW k \in 1..7, s = From(ScriptOfStop, k), NEW l \in 1..7 \ {k}
        PROVE  s # From(ScriptOfStop, l)
    <2> SUFFICES ASSUME s = From(ScriptOfStop, l) PROVE FALSE
      OBVIOUS
    <2>1. Len(s) = 8 - k
      BY <1>3, StopRest, Zenon
    <2>2. Len(s) = 8 - l
      <3>1. l \in 1..7
        OBVIOUS
      <3> QED BY <3>1, StopRest, Zenon
    <2> QED BY ONLY <2>1, <2>2, k \in 1..7, l \in 1..7 \ {k}
  <1>4. ASSUME NEW S, NEW what \in {"delete", "cancel"}, s = << [do |-> what, jobs |-> S] >>
        PROVE  Head(s).do = what /\ s # <<>>
    BY <1>4, SingleRest
  <1>5. ASSUME NEW k \in 1..7, s = From(ScriptOfStop, k)
        PROVE  Head(s).do \in {"scale", "rewrite", "list"} /\ s # <<>>
    BY <1>5, StopRest
  <1>6. ASSUME NEW k \in 1..3, s = From(ScriptOfStart, k)
        PROVE  Head(s).do = "scale" /\ s # <<>>
    BY <1>6, StartRest
  <1>7. \A S, what : <<>> # << [do |-> what, jobs |-> S] >>
    OBVIOUS
  <1> QED BY <1>2, <1>3, <1>4, <1>5, <1>6, <1>7
\* What a script is excludes that it is something else, and says what is next.
ScriptTells ==
    /\ \A k, l \in 1..7 : Stopping(k) /\ Stopping(l) => k = l
    /\ \A k \in 1..7 : Stopping(k) =>
          /\ script # <<>> /\ \A l \in 1..3 : ~Starting(l)
          /\ \A S : ~Deleting(S) /\ ~Cancelling(S)
    /\ \A k \in 1..3 : Starting(k) => script # <<>> /\ \A S : ~Deleting(S) /\ ~Cancelling(S)
    /\ \A S : Deleting(S) => script # <<>> /\ \A T : ~Cancelling(T) /\ (Deleting(T) => T = S)
    /\ \A S : Cancelling(S) => script # <<>>
    /\ Does("scale") => (\E k \in 1..3 : Stopping(k)) \/ (\E k \in 1..3 : Starting(k))
    /\ Does("rewrite") => \E k \in 4..6 : Stopping(k)
    /\ Does("list") => Stopping(7)
    /\ Does("delete") => \E S \in SUBSET Jobs : Deleting(S) /\ Head(script).jobs = S
    /\ Does("cancel") => \E S \in SUBSET Jobs : Cancelling(S)
    /\ \A k \in 4..6 : Stopping(k) => Does("rewrite")
    /\ Stopping(7) => Does("list")
    /\ \A S : Deleting(S) => Does("delete")

LEMMA ScriptHolds ==
  ASSUME ScriptOK
  PROVE  ScriptTells
  <1>1. \/ script = <<>>
        \/ \E k \in 1..7 : script = From(ScriptOfStop, k)
        \/ \E k \in 1..3 : script = From(ScriptOfStart, k)
        \/ \E S : script = << [do |-> "delete", jobs |-> S] >> \/ script = << [do |-> "cancel", jobs |-> S] >>
    BY DEF ScriptOK, Stopping, Starting, Deleting, Cancelling
  <1>2. \A k \in 1..7 : Stopping(k) =>
           /\ script # <<>> /\ \A l \in 1..3 : ~Starting(l)
           /\ \A S : ~Deleting(S) /\ ~Cancelling(S)
           /\ \A l \in 1..7 : Stopping(l) => k = l
    BY <1>1, ScriptKinds, Zenon DEF Stopping, Starting, Deleting, Cancelling
  <1>3. \A k \in 1..3 : Starting(k) => script # <<>> /\ \A S : ~Deleting(S) /\ ~Cancelling(S)
    BY <1>1, ScriptKinds, Zenon DEF Starting, Deleting, Cancelling
  <1>4. \A S : Deleting(S) => script # <<>> /\ \A T : ~Cancelling(T)
    BY <1>1, ScriptKinds, Zenon DEF Deleting, Cancelling
  <1>5. \A S : Cancelling(S) => script # <<>>
    BY <1>1, ScriptKinds, Zenon DEF Cancelling
  <1>6. \A S, T : Deleting(S) /\ Deleting(T) => T = S
    BY DEF Deleting
  <1>7. \A k \in 1..7 : Stopping(k)
           => Head(script).do = IF k <= 3 THEN "scale" ELSE IF k <= 6 THEN "rewrite" ELSE "list"
    BY StopRest, Zenon DEF Stopping
  <1>8. \A k \in 1..3 : Starting(k) => Head(script).do = "scale"
    BY StartRest, Zenon DEF Starting
  <1>9. \A S : Deleting(S) => Head(script).do = "delete" /\ Head(script).jobs = S
    BY DEF Deleting
  <1>10. \A S : Cancelling(S) => Head(script).do = "cancel"
    BY DEF Cancelling
  <1>11. ASSUME NEW what, Does(what)
         PROVE  /\ what = "scale" => (\E k \in 1..3 : Stopping(k)) \/ (\E k \in 1..3 : Starting(k))
                /\ what = "rewrite" => \E k \in 4..6 : Stopping(k)
                /\ what = "list" => Stopping(7)
                /\ what = "delete" => \E S \in SUBSET Jobs : Deleting(S) /\ Head(script).jobs = S
                /\ what = "cancel" => \E S \in SUBSET Jobs : Cancelling(S)
    <2>1. script # <<>> /\ Head(script).do = what
      BY <1>11 DEF Does
    <2>2. CASE \E k \in 1..7 : Stopping(k)
      <3>1. PICK k \in 1..7 : Stopping(k)
        BY <2>2
      <3>2. what = IF k <= 3 THEN "scale" ELSE IF k <= 6 THEN "rewrite" ELSE "list"
        BY <2>1, <3>1, <1>7
      <3>3. k \in 1..3 \/ k \in 4..6 \/ k = 7
        OBVIOUS
      <3> QED BY <3>1, <3>2, <3>3
    <2>3. CASE \E k \in 1..3 : Starting(k)
      BY <2>1, <2>3, <1>8
    <2>4. CASE \E S \in SUBSET Jobs : Deleting(S) \/ Cancelling(S)
      BY <2>1, <2>4, <1>9, <1>10
    <2> QED BY <2>1, <2>2, <2>3, <2>4 DEF ScriptOK
  <1>12. \A k \in 4..6 : Stopping(k) => Does("rewrite")
    BY <1>2, <1>7 DEF Does
  <1>13. Stopping(7) => Does("list")
    BY <1>2, <1>7 DEF Does
  <1>14. \A S : Deleting(S) => Does("delete")
    BY <1>4, <1>9 DEF Does
  <1> QED BY <1>2, <1>3, <1>4, <1>5, <1>6, <1>11, <1>12, <1>13, <1>14 DEF ScriptTells

\* The same of the script after a step.
LEMMA ScriptWillHold ==
  ASSUME ScriptOK'
  PROVE  /\ \A k, l \in 1..7 : Stopping(k)' /\ Stopping(l)' => k = l
         /\ \A k \in 1..7 : Stopping(k)' =>
               script' # <<>> /\ (\A l \in 1..3 : ~Starting(l)') /\ (\A S : ~Deleting(S)' /\ ~Cancelling(S)')
         /\ \A k \in 1..3 : Starting(k)' => script' # <<>> /\ \A S : ~Deleting(S)' /\ ~Cancelling(S)'
         /\ \A S : Deleting(S)' => script' # <<>> /\ \A T : ~Cancelling(T)' /\ (Deleting(T)' => T = S)
         /\ \A S : Cancelling(S)' => script' # <<>>
  <1>1. \/ script' = <<>>
        \/ \E k \in 1..7 : script' = From(ScriptOfStop, k)
        \/ \E k \in 1..3 : script' = From(ScriptOfStart, k)
        \/ \E S : script' = << [do |-> "delete", jobs |-> S] >> \/ script' = << [do |-> "cancel", jobs |-> S] >>
    BY DEF ScriptOK, Stopping, Starting, Deleting, Cancelling
  <1>2. \A k \in 1..7 : Stopping(k)' =>
           /\ script' # <<>> /\ \A l \in 1..3 : ~Starting(l)'
           /\ \A S : ~Deleting(S)' /\ ~Cancelling(S)'
           /\ \A l \in 1..7 : Stopping(l)' => k = l
    BY <1>1, ScriptKinds, Zenon DEF Stopping, Starting, Deleting, Cancelling
  <1>3. \A k \in 1..3 : Starting(k)' => script' # <<>> /\ \A S : ~Deleting(S)' /\ ~Cancelling(S)'
    BY <1>1, ScriptKinds, Zenon DEF Starting, Deleting, Cancelling
  <1>4. \A S : Deleting(S)' => script' # <<>> /\ \A T : ~Cancelling(T)'
    BY <1>1, ScriptKinds, Zenon DEF Deleting, Cancelling
  <1>5. \A S : Cancelling(S)' => script' # <<>>
    BY <1>1, ScriptKinds, Zenon DEF Cancelling
  <1>6. \A S, T : Deleting(S)' /\ Deleting(T)' => T = S
    BY DEF Deleting
  <1> QED BY <1>2, <1>3, <1>4, <1>5, <1>6

\* A patch is one of the first three requests of a stop or one of a start.
LEMMA ScaleSteps ==
  ASSUME TypeOK, ScriptOK, ScaleDeployment
  PROVE  \/ \E k \in 1..3 :
               /\ Stopping(k) /\ Stopping(k + 1)'
               /\ replicas' = [replicas EXCEPT ![IF k = 1 THEN "submit-api" ELSE IF k = 2 THEN "dispatcher"
                                                 ELSE "watcher"] = 0]
         \/ /\ \E k \in 1..3 : Starting(k)
            /\ script' = <<>> \/ \E k \in 1..3 : Starting(k)'
            /\ replicas' \in [Components -> 0..1]
  <1>1. Does("scale") /\ script' = Tail(script)
        /\ replicas' = [replicas EXCEPT ![Head(script).of] = Head(script).to]
    BY DEF ScaleDeployment
  <1>2. ASSUME NEW k \in 1..3, Stopping(k)
        PROVE  /\ Stopping(k + 1)'
               /\ replicas' = [replicas EXCEPT ![IF k = 1 THEN "submit-api" ELSE IF k = 2 THEN "dispatcher"
                                                 ELSE "watcher"] = 0]
    <2>1. k \in 1..7 /\ k < 7
      OBVIOUS
    <2>2. Tail(script) = From(ScriptOfStop, k + 1) /\ Head(script) = ScriptOfStop[k]
      BY <1>2, <2>1, StopRest, Zenon DEF Stopping
    <2>3. ScriptOfStop[k] = Scale(IF k = 1 THEN "submit-api" ELSE IF k = 2 THEN "dispatcher"
                                  ELSE "watcher", 0)
      BY StopRequests
    <2>4. /\ Head(script).of = IF k = 1 THEN "submit-api" ELSE IF k = 2 THEN "dispatcher" ELSE "watcher"
          /\ Head(script).to = 0
      BY <2>2, <2>3 DEF Scale
    <2> QED BY <1>1, <2>2, <2>4 DEF Stopping
  <1>3. ASSUME NEW k \in 1..3, Starting(k)
        PROVE  /\ script' = <<>> \/ \E l \in 1..3 : Starting(l)'
               /\ replicas' \in [Components -> 0..1]
    <2>1. /\ Head(script) = ScriptOfStart[k]
          /\ k < 3 => Tail(script) = From(ScriptOfStart, k + 1)
          /\ k = 3 => Tail(script) = <<>>
      BY <1>3, StartRest, Zenon DEF Starting
    <2>2. Head(script).of \in Components /\ Head(script).to \in 0..1
      BY <2>1, StartRequests DEF Scale, Components
    <2>3. replicas' \in [Components -> 0..1]
      BY <1>1, <2>2 DEF TypeOK
    <2>4. k + 1 \in 1..3 \/ k = 3
      OBVIOUS
    <2> QED BY <1>1, <2>1, <2>3, <2>4 DEF Starting
  <1> QED BY <1>1, <1>2, <1>3, ScriptHolds DEF ScriptTells

\* The UPDATEs of a stop, one after the other.
LEMMA RewriteSteps ==
  ASSUME ScriptOK, RewriteRows
  PROVE  \E k \in 4..6 :
            /\ Stopping(k) /\ Stopping(k + 1)'
            /\ Head(script) = Rewrite(IF k = 4 THEN "DISPATCHING" ELSE IF k = 5 THEN "DISPATCHED"
                                      ELSE "RUNNING", IF k = 6 THEN "FAILED" ELSE "QUEUED")
  <1>1. PICK k \in 4..6 : Stopping(k)
    BY ScriptHolds DEF RewriteRows, ScriptTells
  <1>2. k \in 1..7 /\ k < 7
    OBVIOUS
  <1>3. Tail(script) = From(ScriptOfStop, k + 1) /\ Head(script) = ScriptOfStop[k]
    BY <1>1, <1>2, StopRest, Zenon DEF Stopping
  <1>4. ScriptOfStop[k] = Rewrite(IF k = 4 THEN "DISPATCHING" ELSE IF k = 5 THEN "DISPATCHED"
                                  ELSE "RUNNING", IF k = 6 THEN "FAILED" ELSE "QUEUED")
    BY StopRequests
  <1>5. Stopping(k + 1)'
    BY <1>3 DEF RewriteRows, Stopping
  <1> QED BY <1>1, <1>3, <1>4, <1>5

LEMMA ListSteps ==
  ASSUME ScriptOK, ListK8sJobs
  PROVE  Stopping(7) /\ Deleting({j \in Jobs : k8s[j] # "none"})'
  BY ScriptHolds DEF ListK8sJobs, ScriptTells, Deleting, rows

LEMMA DeleteSteps ==
  ASSUME ScriptOK, NEW j \in Jobs, DeleteK8sJob(j)
  PROVE  \E S \in SUBSET Jobs : Deleting(S) /\ Deleting(S \ {j})' /\ j \in S
  <1>1. PICK S \in SUBSET Jobs : Deleting(S) /\ Head(script).jobs = S
    BY ScriptHolds DEF DeleteK8sJob, ScriptTells
  <1>2. Head(script) = [do |-> "delete", jobs |-> S]
    BY <1>1 DEF Deleting
  <1>3. [Head(script) EXCEPT !.jobs = @ \ {j}] = [do |-> "delete", jobs |-> S \ {j}]
    BY <1>2
  <1> QED BY <1>1, <1>3 DEF DeleteK8sJob, Deleting
LEMMA WholeScripts ==
  ScriptOfStop = From(ScriptOfStop, 1) /\ ScriptOfStart = From(ScriptOfStart, 1)
  BY StopRequests, StartRequests, SubSeqFull DEF From

-----------------------------------------------------------------------------
(* Types are kept *)

LEMMA InitTyped ==
  ASSUME Init
  PROVE  TypeOK
  <1>1. \A pool : OneOf(pool) \in [pool -> {Off, Resting}]
    BY DEF OneOf
  <1>2. dispatcher \in [Dispatchers -> {Off, Resting}] /\ watcher \in [Watchers -> {Off, Resting}]
    BY <1>1 DEF Init
  <1>3. status \in [Jobs -> Statuses] /\ k8s \in [Jobs -> Phases]
    BY DEF Init, Statuses, Phases
  <1>4. replicas \in [Components -> 0..1] /\ given \in 0..MaxCommands
    BY SystemMaintenanceAssumption DEF Init
  <1> QED BY <1>2, <1>3, <1>4 DEF Init, TypeOK

LEMMA ProcessShapes ==
  ASSUME TypeOK
  PROVE  /\ \A d \in Dispatchers :
               /\ dispatcher[d].at \in {"off", "idle", "create", "mark", "fail"}
               /\ dispatcher[d].at \in {"create", "mark", "fail"} => dispatcher[d].job \in Jobs
               /\ dispatcher[d].at \in {"create", "mark", "fail"}
                     => \A stage \in {"create", "mark", "fail"} :
                           [dispatcher[d] EXCEPT !.at = stage] = [at |-> stage, job |-> dispatcher[d].job]
               /\ dispatcher[d].at = "off" <=> dispatcher[d] = Off
               /\ dispatcher[d].at = "idle" <=> dispatcher[d] = Resting
         /\ \A w \in Watchers :
               /\ watcher[w].at \in {"off", "idle", "commit"}
               /\ watcher[w].at = "commit" => /\ watcher[w].listed \in [Jobs -> Phases]
                                              /\ watcher[w].seen \in [Jobs -> Statuses]
  <1>1. ASSUME NEW d \in Dispatchers
        PROVE  /\ dispatcher[d].at \in {"off", "idle", "create", "mark", "fail"}
               /\ dispatcher[d].at \in {"create", "mark", "fail"} => dispatcher[d].job \in Jobs
               /\ dispatcher[d].at \in {"create", "mark", "fail"}
                     => \A stage \in {"create", "mark", "fail"} :
                           [dispatcher[d] EXCEPT !.at = stage] = [at |-> stage, job |-> dispatcher[d].job]
               /\ dispatcher[d].at = "off" <=> dispatcher[d] = Off
               /\ dispatcher[d].at = "idle" <=> dispatcher[d] = Resting
    <2>1. dispatcher[d] \in {Off, Resting} \cup [at : {"create", "mark", "fail"}, job : Jobs]
      BY DEF TypeOK
    <2> QED BY <2>1 DEF Off, Resting
  <1>2. ASSUME NEW w \in Watchers
        PROVE  /\ watcher[w].at \in {"off", "idle", "commit"}
               /\ watcher[w].at = "commit" => /\ watcher[w].listed \in [Jobs -> Phases]
                                              /\ watcher[w].seen \in [Jobs -> Statuses]
    <2>1. watcher[w] \in {Off, Resting} \cup [at : {"commit"}, listed : [Jobs -> Phases],
                                              seen : [Jobs -> Statuses]]
      BY DEF TypeOK
    <2> QED BY <2>1 DEF Off, Resting
  <1> QED BY <1>1, <1>2

LEMMA DispatcherTyped ==
  ASSUME TypeOK, NEW d \in Dispatchers, DispatcherStep(d)
  PROVE  TypeOK'
  <1> USE DEF operator, rows, pods
  <1>1. CASE DispatcherBegins(d)
    <2>1. status' \in [Jobs -> Statuses]
      BY <1>1 DEF DispatcherBegins, TypeOK, Statuses
    <2>2. calm' \in BOOLEAN
      BY <1>1 DEF DispatcherBegins, TypeOK
    <2>3. dispatcher' \in [Dispatchers ->
             {Off, Resting} \cup [at : {"create", "mark", "fail"}, job : Jobs]]
      BY <1>1 DEF DispatcherBegins, TypeOK
    <2> QED BY <1>1, <2>1, <2>2, <2>3 DEF DispatcherBegins, TypeOK
  <1>2. ASSUME NEW j \in Jobs, Dispatch(d, j)
        PROVE  TypeOK'
    <2>1. status' \in [Jobs -> Statuses]
      BY <1>2 DEF Dispatch, TypeOK, Statuses, InFlight
    <2>2. dispatcher' \in [Dispatchers ->
             {Off, Resting} \cup [at : {"create", "mark", "fail"}, job : Jobs]]
      BY <1>2 DEF Dispatch, TypeOK
    <2> QED BY <1>2, <2>1, <2>2 DEF Dispatch, TypeOK
  <1>3. CASE CreateK8sJob(d)
    <2> DEFINE j == dispatcher[d].job
    <2>1. /\ j \in Jobs
          /\ \E stage \in {"mark", "fail"} : dispatcher' = [dispatcher EXCEPT ![d].at = stage]
          /\ k8s' \in {k8s, [k8s EXCEPT ![j] = "pending"]}
      BY <1>3, ProcessShapes DEF CreateK8sJob
    <2>2. \A stage \in {"mark", "fail"} :
             [dispatcher[d] EXCEPT !.at = stage] \in [at : {"create", "mark", "fail"}, job : Jobs]
      <3>1. dispatcher[d] \in [at : {"create", "mark", "fail"}, job : Jobs]
        BY <1>3 DEF CreateK8sJob, TypeOK, Off, Resting
      <3> QED BY <3>1
    <2>3. dispatcher' \in [Dispatchers ->
             {Off, Resting} \cup [at : {"create", "mark", "fail"}, job : Jobs]]
      BY <2>1, <2>2 DEF TypeOK
    <2>4. k8s' \in [Jobs -> Phases]
      BY <2>1 DEF TypeOK, Phases
    <2> QED BY <1>3, <2>3, <2>4 DEF CreateK8sJob, TypeOK
  <1>4. CASE Close(d)
    <2>1. status' \in [Jobs -> Statuses]
      BY <1>4 DEF Close, TypeOK, Statuses, InFlight, Ended
    <2>2. dispatcher' \in [Dispatchers ->
             {Off, Resting} \cup [at : {"create", "mark", "fail"}, job : Jobs]]
      BY <1>4 DEF Close, TypeOK
    <2> QED BY <1>4, <2>1, <2>2 DEF Close, TypeOK
  <1> QED BY <1>1, <1>2, <1>3, <1>4 DEF DispatcherStep

LEMMA VerdictTyped ==
  ASSUME NEW listed, NEW seen, NEW now \in Statuses
  PROVE  /\ Verdict(listed, seen, now) \in {now, "RUNNING", "SUCCEEDED", "FAILED"}
         /\ Verdict(listed, seen, now) \in Statuses
         /\ Verdict(listed, seen, now) = "DISPATCHED" => now = "DISPATCHED"
  <1>1. Observed(listed) \in {"RUNNING", "SUCCEEDED", "none"}
    BY DEF Observed
  <1> QED BY <1>1 DEF Verdict, Statuses, InFlight, Ended

LEMMA WatcherTyped ==
  ASSUME TypeOK, NEW w \in Watchers, WatcherStep(w)
  PROVE  TypeOK'
  <1> USE DEF operator, rows, pods
  <1>1. CASE WatcherBegins(w)
    <2>1. calm' \in BOOLEAN
      BY <1>1 DEF WatcherBegins, TypeOK
    <2> QED BY <1>1, <2>1 DEF WatcherBegins, TypeOK
  <1>2. CASE Look(w)
    <2>1. [at |-> "commit", listed |-> k8s, seen |-> status]
             \in [at : {"commit"}, listed : [Jobs -> Phases], seen : [Jobs -> Statuses]]
      BY DEF TypeOK
    <2> QED BY <1>2, <2>1 DEF Look, TypeOK
  <1>3. CASE Commit(w)
    <2>1. status' \in [Jobs -> Statuses]
      BY <1>3, VerdictTyped DEF Commit, TypeOK
    <2>2. k8s' \in [Jobs -> Phases]
      BY <1>3 DEF Commit, TypeOK, Phases
    <2> QED BY <1>3, <2>1, <2>2 DEF Commit, TypeOK
  <1> QED BY <1>1, <1>2, <1>3 DEF WatcherStep

LEMMA OthersTyped ==
  ASSUME TypeOK
  PROVE  /\ \A p \in Dispatchers \cup Watchers : Terminate(p) \/ Leave(p) => TypeOK'
         /\ \A j \in Jobs : JobMoves(j) \/ UserMoves(j) => TypeOK'
  <1>1. ASSUME NEW p \in Dispatchers \cup Watchers, Terminate(p) \/ Leave(p)
        PROVE  TypeOK'
    BY <1>1 DEF Terminate, Leave, TypeOK, operator, rows
  <1>2. ASSUME NEW j \in Jobs, JobMoves(j) \/ UserMoves(j)
        PROVE  TypeOK'
    BY <1>2 DEF JobMoves, UserMoves, TypeOK, Statuses, Phases, operator, pods
  <1> QED BY <1>1, <1>2

LEMMA OperatorTyped ==
  ASSUME TypeOK, ScriptOK, OperatorStep
  PROVE  TypeOK'
  <1> USE DEF operator, rows, pods
  <1>a. ASSUME NEW text, Gives(text)
        PROVE  given' \in 0..MaxCommands
    BY <1>a, SystemMaintenanceAssumption DEF Gives, TypeOK
  <1>1. CASE ScaleDeployment
    <2>1. replicas' \in [Components -> 0..1]
      BY <1>1, ScaleSteps DEF TypeOK
    <2> QED BY <1>1, <2>1 DEF ScaleDeployment, TypeOK
  <1>2. CASE RewriteRows
    <2>1. Head(script).to \in {"QUEUED", "FAILED"}
      BY <1>2, RewriteSteps DEF Rewrite
    <2>2. status' \in [Jobs -> Statuses]
      BY <1>2, <2>1 DEF RewriteRows, TypeOK, Statuses, Ended
    <2>3. calm' \in BOOLEAN
      BY <1>2 DEF RewriteRows, TypeOK
    <2> QED BY <1>2, <2>2, <2>3 DEF RewriteRows, TypeOK
  <1>3. CASE ListK8sJobs
    BY <1>3 DEF ListK8sJobs, TypeOK
  <1>4. ASSUME NEW j \in Jobs, DeleteK8sJob(j)
        PROVE  TypeOK'
    BY <1>4 DEF DeleteK8sJob, TypeOK, Phases
  <1>5. CASE StopEnds
    BY <1>5 DEF StopEnds, TypeOK
  <1>6. CASE CancelTargets
    <2>1. status' \in [Jobs -> Statuses]
      BY <1>6 DEF CancelTargets, TypeOK, Statuses, Ended
    <2> QED BY <1>6, <2>1 DEF CancelTargets, TypeOK
  <1>7. CASE StopSystem \/ StartSystem
    BY <1>7, <1>a DEF StopSystem, StartSystem, TypeOK
  <1>8. CASE RestartComponent(Dispatchers) \/ RestartComponent(Watchers)
    BY <1>8, <1>a DEF RestartComponent, TypeOK
  <1>9. CASE SelectTargets
    BY <1>9, <1>a DEF SelectTargets, TypeOK
  <1>10. CASE Abandon
    BY <1>10 DEF Abandon, TypeOK
  <1> QED BY <1>1, <1>2, <1>3, <1>4, <1>5, <1>6, <1>7, <1>8, <1>9, <1>10 DEF OperatorStep, CommandStep

LEMMA TypesKept ==
  ASSUME TypeOK, ScriptOK, [Next]_vars
  PROVE  TypeOK'
  <1>1. CASE UNCHANGED vars
    BY <1>1 DEF vars, TypeOK
  <1> QED BY <1>1, DispatcherTyped, WatcherTyped, OthersTyped, OperatorTyped DEF Next
-----------------------------------------------------------------------------
(* The script and the Deployments *)

ScriptInv == ScriptOK /\ ScaledDown /\ StoppedRests

LEMMA SameScript ==
  ASSUME ScriptInv, UNCHANGED <<script, replicas, stopped>>
  PROVE  ScriptInv' /\ (Clearing' <=> Clearing)
  BY DEF ScriptInv, ScriptOK, ScaledDown, StoppedRests, Clearing, Stopping, Starting, Deleting, Cancelling

\* A script that has been done, or one that does not concern the Deployments.
LEMMA NoStopScript ==
  ASSUME ScriptInv, UNCHANGED replicas, stopped' => stopped,
         \/ script' = <<>>
         \/ \E S \in SUBSET Jobs : Cancelling(S)'
         \/ ~stopped' /\ \E k \in 1..3 : Starting(k)'
  PROVE  ScriptInv' /\ ~Clearing' /\ \A k \in 1..7 : ~Stopping(k)'
  <1>1. ScriptOK'
    BY DEF ScriptOK
  <1>2. ~Clearing' /\ \A k \in 1..7 : ~Stopping(k)'
    BY <1>1, ScriptWillHold DEF Clearing
  <1>3. ScaledDown'
    BY <1>2 DEF ScriptInv, ScaledDown
  <1>4. StoppedRests'
    BY DEF StoppedRests
  <1> QED BY <1>1, <1>2, <1>3, <1>4 DEF ScriptInv

\* A stop that has scaled all down goes on.
LEMMA StopGoesOn ==
  ASSUME ScriptInv, UNCHANGED <<replicas, stopped>>, Clearing \/ (\E k \in 4..7 : Stopping(k)),
         (\E k \in 5..7 : Stopping(k)') \/ \E S \in SUBSET Jobs : Deleting(S)'
  PROVE  ScriptInv' /\ Clearing'
  <1>1. ScriptOK'
    BY DEF ScriptOK
  <1>2. \A c \in Components : replicas[c] = 0
    BY DEF ScriptInv, ScaledDown, Components
  <1>3. ScaledDown'
    BY <1>2 DEF ScaledDown, Components
  <1>4. ~stopped
    BY ScriptHolds DEF ScriptInv, StoppedRests, ScriptTells, Clearing
  <1>5. StoppedRests'
    BY <1>4 DEF StoppedRests
  <1> QED BY <1>1, <1>3, <1>5 DEF ScriptInv, Clearing

LEMMA OperatorScript ==
  ASSUME TypeOK, ScriptInv, OperatorStep
  PROVE  ScriptInv'
  <1> USE DEF operator, rows, pods
  <1>a. ScriptOK /\ ScriptTells
    BY ScriptHolds DEF ScriptInv
  <1>1. CASE ScaleDeployment
    <2>1. ~stopped /\ stopped' = stopped
      BY <1>1, <1>a DEF ScriptInv, StoppedRests, ScriptTells, ScaleDeployment, Does
    <2>2. ASSUME NEW k \in 1..3, Stopping(k), Stopping(k + 1)',
                 replicas' = [replicas EXCEPT ![IF k = 1 THEN "submit-api" ELSE IF k = 2 THEN "dispatcher"
                                                ELSE "watcher"] = 0]
          PROVE  ScriptInv'
      <3>1. k + 1 \in 1..7 /\ k + 1 \notin 5..7 /\ k \in 1..7
        OBVIOUS
      <3>2. ScriptOK'
        BY <2>2, <3>1 DEF ScriptOK
      <3>3. (\A l \in 1..7 : Stopping(l)' => l = k + 1) /\ ~Clearing'
        BY <2>2, <3>1, <3>2, ScriptWillHold DEF Clearing
      <3>4. /\ k \in 2..3 => replicas["submit-api"] = 0
            /\ k = 3 => replicas["dispatcher"] = 0
        BY <2>2 DEF ScriptInv, ScaledDown
      <3>5. /\ replicas'["submit-api"] = 0
            /\ k \in 2..3 => replicas'["dispatcher"] = 0
            /\ k = 3 => replicas'["watcher"] = 0
        BY <2>2, <3>4 DEF TypeOK, Components
      <3>6. ScaledDown'
        BY <2>1, <3>3, <3>5 DEF ScaledDown
      <3> QED BY <2>1, <3>2, <3>6 DEF ScriptInv, StoppedRests
    <2>3. ASSUME script' = <<>> \/ \E k \in 1..3 : Starting(k)'
          PROVE  ScriptInv'
      <3>1. ScriptOK'
        BY <2>3 DEF ScriptOK
      <3>2. ~Clearing' /\ \A k \in 1..7 : ~Stopping(k)'
        BY <2>3, <3>1, ScriptWillHold DEF Clearing
      <3> QED BY <2>1, <3>1, <3>2 DEF ScriptInv, ScaledDown, StoppedRests
    <2> QED BY <1>1, <1>a, <2>2, <2>3, ScaleSteps
  <1>2. CASE RewriteRows
    <2>1. PICK k \in 4..6 : Stopping(k) /\ Stopping(k + 1)'
      BY <1>2, <1>a, RewriteSteps
    <2>2. k + 1 \in 5..7
      OBVIOUS
    <2> QED BY <1>2, <2>1, <2>2, StopGoesOn DEF RewriteRows
  <1>3. CASE ListK8sJobs
    <2>1. Stopping(7) /\ \E S \in SUBSET Jobs : Deleting(S)'
      BY <1>3, <1>a, ListSteps
    <2> QED BY <1>3, <2>1, StopGoesOn DEF ListK8sJobs
  <1>4. ASSUME NEW j \in Jobs, DeleteK8sJob(j)
        PROVE  ScriptInv'
    <2>1. PICK S \in SUBSET Jobs : Deleting(S) /\ Deleting(S \ {j})'
      BY <1>4, <1>a, DeleteSteps
    <2>2. Clearing /\ \E T \in SUBSET Jobs : Deleting(T)'
      BY <2>1 DEF Clearing
    <2> QED BY <1>4, <2>2, StopGoesOn DEF DeleteK8sJob
  <1>5. CASE StopEnds
    <2>1. Clearing
      BY <1>5, <1>a DEF StopEnds, ScriptTells, Clearing
    <2>2. \A c \in Components : replicas[c] = 0
      BY <2>1 DEF ScriptInv, ScaledDown
    <2>3. ScriptOK' /\ script' = <<>> /\ replicas' = replicas
      BY <1>5 DEF StopEnds, ScriptOK
    <2>4. \A k \in 1..7 : ~Stopping(k)'
      BY <2>3, ScriptWillHold
    <2> QED BY <2>2, <2>3, <2>4 DEF ScriptInv, ScaledDown, StoppedRests
  <1>6. CASE CancelTargets
    BY <1>6, NoStopScript DEF CancelTargets
  <1>7. CASE StopSystem
    <2>1. Stopping(1)' /\ replicas' = replicas /\ ~stopped'
      BY <1>7, WholeScripts DEF StopSystem, Gives, Stopping
    <2>2. ScriptOK'
      BY <2>1 DEF ScriptOK
    <2>3. ~Clearing' /\ \A k \in 2..7 : ~Stopping(k)'
      BY <2>1, <2>2, ScriptWillHold DEF Clearing
    <2> QED BY <2>1, <2>2, <2>3 DEF ScriptInv, ScaledDown, StoppedRests
  <1>8. CASE StartSystem
    <2>1. Starting(1)' /\ replicas' = replicas /\ ~stopped'
      BY <1>8, WholeScripts DEF StartSystem, Gives, Starting
    <2> QED BY <2>1, NoStopScript
  <1>9. CASE RestartComponent(Dispatchers) \/ RestartComponent(Watchers)
    BY <1>9, NoStopScript DEF RestartComponent, Gives
  <1>10. CASE SelectTargets
    <2>1. \E S \in SUBSET Jobs : Cancelling(S)'
      <3>1. PICK S : LET targets == {j \in S : status[j] \in Cancellable}
                     IN  /\ S \in {{j} : j \in Jobs} \cup {{j \in Jobs : status[j] = s} : s \in Cancellable}
                                                   \cup {Jobs}
                         /\ Gives(<< [do |-> "cancel", jobs |-> targets] >>)
        BY <1>10 DEF SelectTargets
      <3>2. S \in SUBSET Jobs
        BY <3>1
      <3> QED BY <3>1, <3>2 DEF Gives, Cancelling
    <2> QED BY <1>10, <2>1, NoStopScript DEF SelectTargets
  <1>11. CASE Abandon
    BY <1>11, NoStopScript DEF Abandon
  <1> QED BY <1>1, <1>2, <1>3, <1>4, <1>5, <1>6, <1>7, <1>8, <1>9, <1>10, <1>11
       DEF OperatorStep, CommandStep

LEMMA DaemonsLeaveScript ==
  ASSUME \/ \E d \in Dispatchers : DispatcherStep(d)
         \/ \E w \in Watchers : WatcherStep(w)
         \/ \E p \in Dispatchers \cup Watchers : Terminate(p) \/ Leave(p)
         \/ \E j \in Jobs : JobMoves(j) \/ UserMoves(j)
         \/ UNCHANGED vars
  PROVE  UNCHANGED <<script, replicas, stopped>>
  BY DEF DispatcherStep, DispatcherBegins, Dispatch, CreateK8sJob, Close, WatcherStep, WatcherBegins,
     Look, Commit, Terminate, Leave, JobMoves, UserMoves, vars, operator

LEMMA ScriptKept ==
  ASSUME TypeOK, ScriptInv, [Next]_vars
  PROVE  ScriptInv'
  BY DaemonsLeaveScript, SameScript, OperatorScript DEF Next
-----------------------------------------------------------------------------
(* A row DISPATCHING is in the hands of a process *)

\* A step that moves no Dispatcher at work and makes no row DISPATCHING.
LEMMA HandsStay ==
  ASSUME DispatchingIsHeld,
         \A d \in Dispatchers : dispatcher'[d] = dispatcher[d] \/ dispatcher[d].at \in {"off", "idle"},
         \A j \in Jobs : status'[j] = "DISPATCHING" => status[j] = "DISPATCHING"
  PROVE  DispatchingIsHeld'
  <1> SUFFICES ASSUME NEW j \in Jobs, status'[j] = "DISPATCHING"
               PROVE  \E d \in Dispatchers : /\ dispatcher'[d].at \in {"create", "mark", "fail"}
                                             /\ dispatcher'[d].job = j
    BY DEF DispatchingIsHeld
  <1>1. PICK d \in Dispatchers : /\ dispatcher[d].at \in {"create", "mark", "fail"}
                                 /\ dispatcher[d].job = j
    BY DEF DispatchingIsHeld
  <1>2. dispatcher'[d] = dispatcher[d]
    BY <1>1
  <1> QED BY <1>1, <1>2

LEMMA DispatcherHands ==
  ASSUME TypeOK, DispatchingIsHeld, NEW d \in Dispatchers, DispatcherStep(d)
  PROVE  DispatchingIsHeld'
  <1>1. CASE DispatcherBegins(d)
    BY <1>1 DEF DispatcherBegins, DispatchingIsHeld
  <1>2. ASSUME NEW j \in Jobs, Dispatch(d, j)
        PROVE  DispatchingIsHeld'
    <2>1. \A e \in Dispatchers \ {d} : dispatcher'[e] = dispatcher[e]
      BY <1>2 DEF Dispatch, TypeOK
    <2>2. /\ dispatcher'[d].at = "create" /\ dispatcher'[d].job = j
          /\ dispatcher[d].at = "idle"
      BY <1>2 DEF Dispatch, TypeOK, Resting
    <2>3. \A i \in Jobs \ {j} : status'[i] = status[i]
      BY <1>2 DEF Dispatch, TypeOK
    <2>4. ASSUME NEW i \in Jobs \ {j}, status'[i] = "DISPATCHING"
          PROVE  \E e \in Dispatchers : /\ dispatcher'[e].at \in {"create", "mark", "fail"}
                                        /\ dispatcher'[e].job = i
      <3>1. PICK e \in Dispatchers : /\ dispatcher[e].at \in {"create", "mark", "fail"}
                                    /\ dispatcher[e].job = i
        BY <2>3, <2>4 DEF DispatchingIsHeld
      <3>2. e # d
        BY <2>2, <3>1
      <3> QED BY <2>1, <3>1, <3>2
    <2> QED BY <2>2, <2>4 DEF DispatchingIsHeld
  <1>3. CASE CreateK8sJob(d)
    <2> DEFINE j == dispatcher[d].job
    <2>1. \A e \in Dispatchers \ {d} : dispatcher'[e] = dispatcher[e]
      BY <1>3 DEF CreateK8sJob, TypeOK
    <2>2. /\ dispatcher[d].at = "create"
          /\ \A stage \in {"mark", "fail"} :
                [dispatcher[d] EXCEPT !.at = stage] = [at |-> stage, job |-> j]
      BY <1>3, ProcessShapes DEF CreateK8sJob
    <2>3. \E stage \in {"mark", "fail"} : dispatcher'[d] = [dispatcher[d] EXCEPT !.at = stage]
      BY <1>3 DEF CreateK8sJob, TypeOK
    <2>4. dispatcher'[d].job = j /\ dispatcher'[d].at \in {"mark", "fail"}
      BY <2>2, <2>3
    <2>5. status' = status
      BY <1>3 DEF CreateK8sJob
    <2> QED BY <2>1, <2>2, <2>4, <2>5 DEF DispatchingIsHeld
  <1>4. CASE Close(d)
    <2> DEFINE j == dispatcher[d].job
    <2>1. \A e \in Dispatchers \ {d} : dispatcher'[e] = dispatcher[e]
      BY <1>4 DEF Close, TypeOK
    <2>2. /\ j \in Jobs
          /\ status'[j] # "DISPATCHING"
          /\ \A i \in Jobs \ {j} : status'[i] = status[i]
      BY <1>4, ProcessShapes DEF Close, TypeOK
    <2>3. ASSUME NEW i \in Jobs, status'[i] = "DISPATCHING"
          PROVE  \E e \in Dispatchers : /\ dispatcher'[e].at \in {"create", "mark", "fail"}
                                        /\ dispatcher'[e].job = i
      <3>1. i # j /\ status[i] = "DISPATCHING"
        BY <2>2, <2>3
      <3>2. PICK e \in Dispatchers : /\ dispatcher[e].at \in {"create", "mark", "fail"}
                                    /\ dispatcher[e].job = i
        BY <3>1 DEF DispatchingIsHeld
      <3>3. e # d
        BY <3>1, <3>2
      <3> QED BY <2>1, <3>2, <3>3
    <2> QED BY <2>3 DEF DispatchingIsHeld
  <1> QED BY <1>1, <1>2, <1>3, <1>4 DEF DispatcherStep

\* A process that leaves holds no row, and the Watcher makes none DISPATCHING.
LEMMA OthersHand ==
  ASSUME TypeOK, DispatchingIsHeld,
         \/ \E w \in Watchers : WatcherStep(w)
         \/ \E p \in Dispatchers \cup Watchers : Terminate(p) \/ Leave(p)
         \/ \E j \in Jobs : JobMoves(j) \/ UserMoves(j)
  PROVE  DispatchingIsHeld'
  <1>1. ASSUME NEW w \in Watchers, WatcherStep(w)
        PROVE  DispatchingIsHeld'
    <2>1. UNCHANGED dispatcher
      BY <1>1 DEF WatcherStep, WatcherBegins, Look, Commit
    <2>2. \A j \in Jobs : status'[j] = "DISPATCHING" => status[j] = "DISPATCHING"
      <3>1. CASE WatcherBegins(w) \/ Look(w)
        BY <3>1 DEF WatcherBegins, Look, rows
      <3>2. CASE Commit(w)
        <4>1. \A j \in Jobs :
                 status'[j] = Verdict(watcher[w].listed[j], watcher[w].seen[j], status[j])
          BY <3>2 DEF Commit
        <4>2. \A j \in Jobs : status[j] \in Statuses
          BY DEF TypeOK
        <4> QED BY <4>1, <4>2, VerdictTyped
      <3> QED BY <1>1, <3>1, <3>2 DEF WatcherStep
    <2> QED BY <2>1, <2>2, HandsStay
  <1>2. ASSUME NEW p \in Dispatchers \cup Watchers, Terminate(p)
        PROVE  DispatchingIsHeld'
    BY <1>2, HandsStay DEF Terminate, rows
  <1>3. ASSUME NEW p \in Dispatchers \cup Watchers, Leave(p)
        PROVE  DispatchingIsHeld'
    <2>1. status' = status
      BY <1>3 DEF Leave, rows
    <2>2. \A d \in Dispatchers : dispatcher'[d] = dispatcher[d] \/ dispatcher[d].at = "idle"
      BY <1>3 DEF Leave, TypeOK, Resting
    <2> QED BY <2>1, <2>2, HandsStay
  <1>4. ASSUME NEW j \in Jobs, JobMoves(j) \/ UserMoves(j)
        PROVE  DispatchingIsHeld'
    <2>1. \A i \in Jobs : status'[i] = "DISPATCHING" => status[i] = "DISPATCHING"
      BY <1>4 DEF JobMoves, UserMoves, TypeOK
    <2> QED BY <1>4, <2>1, HandsStay DEF JobMoves, UserMoves, pods
  <1> QED BY <1>1, <1>2, <1>3, <1>4

LEMMA OperatorHands ==
  ASSUME TypeOK, ScriptInv, DispatchingIsHeld, OperatorStep
  PROVE  DispatchingIsHeld'
  <1>1. dispatcher' = dispatcher
    BY DEF OperatorStep, CommandStep, ScaleDeployment, RewriteRows, ListK8sJobs, DeleteK8sJob,
       StopEnds, CancelTargets, StopSystem, StartSystem, RestartComponent, SelectTargets, Abandon, pods
  <1>2. CASE RewriteRows
    <2>1. Head(script).to \in {"QUEUED", "FAILED"}
      BY <1>2, ScriptHolds, RewriteSteps DEF Rewrite, ScriptInv
    <2>2. \A j \in Jobs : status'[j] = "DISPATCHING" => status[j] = "DISPATCHING"
      BY <1>2, <2>1 DEF RewriteRows
    <2> QED BY <1>1, <2>2, HandsStay
  <1>3. CASE CancelTargets
    <2>1. \A j \in Jobs : status'[j] \in {"CANCELLED", status[j]}
      BY <1>3 DEF CancelTargets
    <2> QED BY <1>1, <2>1, HandsStay
  <1>4. CASE ~RewriteRows /\ ~CancelTargets
    <2>1. status' = status
      BY <1>4 DEF OperatorStep, CommandStep, ScaleDeployment, ListK8sJobs, DeleteK8sJob,
         StopEnds, StopSystem, StartSystem, RestartComponent, SelectTargets, Abandon, rows
    <2> QED BY <1>1, <2>1, HandsStay
  <1> QED BY <1>2, <1>3, <1>4

LEMMA HandsKept ==
  ASSUME TypeOK, ScriptInv, DispatchingIsHeld, [Next]_vars
  PROVE  DispatchingIsHeld'
  <1>1. CASE UNCHANGED vars
    BY <1>1, HandsStay DEF vars
  <1> QED BY <1>1, DispatcherHands, OthersHand, OperatorHands DEF Next
-----------------------------------------------------------------------------
(* Theorems *)

LEMMA MaintenanceInitially ==
  ASSUME Init PROVE TypeOK /\ ScriptInv /\ DispatchingIsHeld
  <1>1. ScriptOK
    BY DEF Init, ScriptOK
  <1>2. ~Clearing /\ \A k \in 1..7 : ~Stopping(k)
    BY <1>1, ScriptHolds DEF Init, ScriptTells, Clearing
  <1>3. ScriptInv
    BY <1>1, <1>2 DEF Init, ScriptInv, ScaledDown, StoppedRests
  <1>4. DispatchingIsHeld
    BY DEF Init, DispatchingIsHeld
  <1> QED BY InitTyped, <1>3, <1>4

LEMMA MaintenanceKept ==
  ASSUME TypeOK, ScriptInv, DispatchingIsHeld, [Next]_vars
  PROVE  TypeOK' /\ ScriptInv' /\ DispatchingIsHeld'
  <1>1. TypeOK'
    BY TypesKept DEF ScriptInv
  <1> QED BY <1>1, ScriptKept, HandsKept

\* What cjobctl, the daemons and the cluster write keeps its type, above all the
\* script of a command: it only ever holds requests a command makes.
THEOREM MaintenanceTypes ==
  Spec => []TypeOK
  BY MaintenanceInitially, MaintenanceKept, PTL DEF Spec

\* A row DISPATCHING is in the hands of a process that will close it, whichever
\* processes overlap, leave or begin, and whatever cjobctl rewrites meanwhile.
THEOREM DispatchesAreHeld ==
  Spec => []DispatchingIsHeld
  BY MaintenanceInitially, MaintenanceKept, PTL DEF Spec

\* After a stop that ran to its end every Deployment is at zero until the next
\* start or stop is given, whatever was abandoned before and is cancelled since.
THEOREM StoppedIsScaledDown ==
  Spec => [](stopped => \A c \in Components : replicas[c] = 0)
  <1>1. ScriptInv => (stopped => \A c \in Components : replicas[c] = 0)
    BY DEF ScriptInv, ScaledDown
  <1> QED BY MaintenanceInitially, MaintenanceKept, <1>1, PTL DEF Spec
=============================================================================
