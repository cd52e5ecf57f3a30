------------------------- MODULE JobParametersProofs -------------------------
(* What is true of JobParameters for every configuration, any number of jobs *)
(* and clients and any tables: types, that a row's parameters were checked   *)
(* together, and that a Job on the cluster asks for what its row says.       *)
EXTENDS JobParameters, TLAPS

---------------------------------------------------------------------------
(* Merging what a request names with what is there.                          *)

LEMMA OverTyped ==
    ASSUME NEW r, Names(r, Fields),
           NEW old, Names(old, Fields), DOMAIN r \cup DOMAIN old = Fields
    PROVE  Over(r, old) \in Parameters
<1>1. DOMAIN Over(r, old) = Fields
  BY DEF Over
<1>2. \A x \in Fields : Over(r, old)[x] \in Values(x)
  BY DEF Over, Names
<1>3. /\ Over(r, old)["flavor"] \in Flavors
      /\ Over(r, old)["image"] \in Images
      /\ Over(r, old)["size"] \in Nat
      /\ Over(r, old)["gpu"] \in Nat
  BY <1>2 DEF Fields, Values
<1>4. Over(r, old) = [x \in Fields |-> Over(r, old)[x]]
  BY <1>1 DEF Over
<1> QED
  BY <1>3, <1>4 DEF Parameters, Fields

LEMMA ParametersNamed ==
    ASSUME NEW p \in Parameters
    PROVE  Names(p, Fields) /\ DOMAIN p = Fields
BY DEF Parameters, Names, Fields, Values

LEMMA MergedTyped ==
    ASSUME NEW old \in Parameters, NEW change \in Changes
    PROVE  Merged(old, change) \in Parameters
<1>1. Names(change, Fields)
  BY JobParametersAssumption
<1>2. Names(old, Fields) /\ DOMAIN old = Fields
  BY ParametersNamed
<1>3. CASE ~Renewed(change)
  <2>1. DOMAIN change \cup DOMAIN old = Fields
    BY <1>1, <1>2 DEF Names
  <2> QED
    BY <1>1, <1>2, <1>3, <2>1, OverTyped DEF Merged
<1>4. CASE Renewed(change)
  <2> DEFINE image == [image |-> ImageOf[change.flavor]]
  <2>1. change.flavor \in Flavors
    BY <1>1, <1>4 DEF Names, Renewed, Values, Fields
  <2>2. ImageOf[change.flavor] \in Images
    BY <2>1, <1>4, JobParametersAssumption DEF Renewed
  <2>3. Names(image, Fields) /\ DOMAIN image \cup DOMAIN old = Fields
    BY <2>2, <1>2 DEF Names, Fields, Values
  <2>4. Over(image, old) \in Parameters
    BY <2>3, <1>2, OverTyped
  <2>5. Names(Over(image, old), Fields) /\ DOMAIN Over(image, old) = Fields
    BY <2>4, ParametersNamed
  <2>6. DOMAIN change \cup DOMAIN Over(image, old) = Fields
    BY <1>1, <2>5 DEF Names
  <2> HIDE DEF image
  <2>7. Over(change, Over(image, old)) \in Parameters
    BY <1>1, <2>5, <2>6, OverTyped
  <2> QED
    BY <1>4, <2>7 DEF Merged, image
<1> QED
  BY <1>3, <1>4

\* What a submission asks for, with the flavor and the image that it leaves open.
LEMMA WishTyped ==
    ASSUME NEW w \in Wishes, NEW image \in Images
    PROVE  Over([image |-> image], Over(w, [flavor |-> DefaultFlavor])) \in Parameters
<1> DEFINE p == Over(w, [flavor |-> DefaultFlavor])
           i == [image |-> image]
<1>1. Names(w, Fields) /\ {"size", "gpu"} \subseteq DOMAIN w /\ DefaultFlavor \in Flavors
  BY JobParametersAssumption
<1>2. DOMAIN p = DOMAIN w \cup {"flavor"}
  BY DEF Over
<1>3. \A x \in DOMAIN p : p[x] \in Values(x)
  BY <1>1, <1>2 DEF Over, Names, Values
<1>4. Names(p, Fields) /\ DOMAIN i \cup DOMAIN p = Fields
  BY <1>1, <1>2, <1>3 DEF Names, Fields
<1>5. Names(i, Fields)
  BY DEF Names, Fields, Values
<1> HIDE DEF p, i
<1>6. Over(i, p) \in Parameters
  BY <1>4, <1>5, OverTyped
<1> QED
  BY <1>6 DEF p, i
---------------------------------------------------------------------------
(* Types.                                                                    *)

LEMMA TypeInit == Init => TypeOK
<1> SUFFICES ASSUME Init PROVE TypeOK
  OBVIOUS
<1>1. /\ nextId \in 1..(MaxJobs + 1) /\ syncs \in 0..MaxSyncs /\ sets \in 0..MaxSets
      /\ limits \in Tables /\ batch \subseteq Ids /\ dispatch \in Dispatch
      /\ rows \in [Ids -> Row \cup {NoRow}] /\ jobs \in [Ids -> Parameters \cup {NoJob}]
      /\ stray \subseteq {j \in Ids : jobs[j] # NoJob}
  BY JobParametersAssumption DEF Init, Dispatch
<1>2. /\ request \in [Clients -> {Idle} \cup Read \cup Checked]
      /\ \A c \in Clients : request[c].at = "update" => request[c].job # 0
  BY DEF Init, Idle
<1>3. DOMAIN loaded \subseteq batch /\ \A j \in DOMAIN loaded : loaded[j] \in Parameters
  BY DEF Init
<1> QED
  BY <1>1, <1>2, <1>3 DEF TypeOK

LEMMA TypeRequests ==
    ASSUME TypeOK, NEW c \in Clients, RequestStep(c)
    PROVE  TypeOK'
<1> USE DEF daemon, cluster
<1>1. CASE Submit(c)
  <2>1. PICK w \in Wishes, width \in Widths, image \in Images :
          request' = [request EXCEPT ![c] =
              [at |-> "check", job |-> 0,
               new |-> Over([image |-> image], Over(w, [flavor |-> DefaultFlavor])),
               change |-> w, width |-> width, named |-> Named(w)]]
    <3>1. PICK w \in Wishes, width \in Widths, cjob \in PodImages, jupyter \in PodImages :
            LET p == Over(w, [flavor |-> DefaultFlavor])
                image == ResolveImage(p.flavor, Asked(w), PickFallbackImage(cjob, jupyter))
            IN  /\ image # NoImage
                /\ request' = [request EXCEPT ![c] =
                      [at |-> "check", job |-> 0, new |-> Over([image |-> image], p),
                       change |-> w, width |-> width, named |-> Named(w)]]
      BY <1>1 DEF Submit
    <3> DEFINE p == Over(w, [flavor |-> DefaultFlavor])
               image == ResolveImage(p.flavor, Asked(w), PickFallbackImage(cjob, jupyter))
    <3>2. p.flavor \in Flavors
      <4>1. Names(w, Fields) /\ DefaultFlavor \in Flavors
        BY JobParametersAssumption
      <4> QED
        BY <4>1 DEF Over, Names, Values, Fields
    <3>3. Asked(w) \in Images \cup {NoImage}
      <4>1. Names(w, Fields)
        BY JobParametersAssumption
      <4> QED
        BY <4>1 DEF Asked, Named, Names, Values, Fields
    <3>4. image \in Images \cup {NoImage}
      BY <3>2, <3>3, JobParametersAssumption DEF ResolveImage, PickFallbackImage
    <3> QED
      BY <3>1, <3>4
  <2>2. Over([image |-> image], Over(w, [flavor |-> DefaultFlavor])) \in Parameters
    BY WishTyped
  <2>3. Named(w) \in BOOLEAN
    BY DEF Named
  <2> QED
    BY <1>1, <2>1, <2>2, <2>3 DEF Submit, TypeOK, Read
<1>2. CASE CheckResources(c)
  <2> DEFINE r == request[c]
             limit == limits[r.new.flavor]
  <2>1. r \in Read /\ limit \in Limits
    BY <1>2, JobParametersAssumption DEF CheckResources, TypeOK, At, Idle, Read, Checked, Parameters
  <2>2. CASE Fits(r.new, limit)
    <3>1. PICK next \in {"total", "insert", "update"} :
            /\ next = "update" => r.job # 0
            /\ request' = [request EXCEPT ![c] =
                  [at |-> next, job |-> r.job, new |-> r.new, change |-> r.change,
                   width |-> r.width, named |-> r.named, under |-> limit]]
      BY <1>2, <2>2 DEF CheckResources
    <3>2. [at |-> next, job |-> r.job, new |-> r.new, change |-> r.change,
           width |-> r.width, named |-> r.named, under |-> limit] \in Checked
      BY <2>1 DEF Read, Checked
    <3> HIDE DEF r, limit
    <3> QED
      BY <1>2, <3>1, <3>2 DEF CheckResources, TypeOK
  <2>3. CASE ~Fits(r.new, limit)
    BY <1>2, <2>3 DEF CheckResources, Ends, TypeOK, Idle
  <2> QED
    BY <2>2, <2>3
<1>3. CASE CheckTotal(c)
  <2>1. request[c] \in Checked
    BY <1>3 DEF CheckTotal, TypeOK, At, Idle, Read, Checked
  <2>2. Goes(c, "insert") \/ Ends(c)
    BY <1>3 DEF CheckTotal
  <2> QED
    BY <1>3, <2>1, <2>2 DEF CheckTotal, Goes, Ends, TypeOK, Checked, Idle
<1>4. CASE InsertRow(c)
  <2>1. request[c] \in Checked
    BY <1>4 DEF InsertRow, TypeOK, At, Idle, Read, Checked
  <2>2. [status |-> "QUEUED", params |-> request[c].new, width |-> request[c].width,
         named |-> request[c].named, under |-> request[c].under] \in Row
    BY <2>1 DEF Row, Checked, Statuses, Settable
  <2>3. rows' \in [Ids -> Row \cup {NoRow}]
    BY <1>4, <2>2 DEF InsertRow, TypeOK
  <2>4. nextId' \in 1..(MaxJobs + 1)
    BY <1>4, JobParametersAssumption DEF InsertRow, TypeOK
  <2> QED
    BY <1>4, <2>3, <2>4 DEF InsertRow, Ends, TypeOK, Idle
<1>5. CASE UpdateRow(c)
  <2>1. request[c] \in Checked /\ request[c].job \in Ids
    BY <1>5 DEF UpdateRow, TypeOK, At, Idle, Read, Checked
  <2>2. ASSUME rows[request[c].job].status \in Settable
        PROVE  Written(rows[request[c].job], request[c]) \in Row
    <3>1. rows[request[c].job] \in Row
      BY <2>1, <2>2 DEF TypeOK, NoRow, Settable
    <3>2. /\ request[c].new \in Parameters /\ request[c].named \in BOOLEAN
          /\ request[c].under \in Limits
      BY <2>1 DEF Checked
    <3> QED
      BY <3>1, <3>2 DEF Written, Row
  <2>3. rows' \in [Ids -> Row \cup {NoRow}]
    BY <1>5, <2>1, <2>2 DEF UpdateRow, TypeOK
  <2> QED
    BY <1>5, <2>3 DEF UpdateRow, Ends, TypeOK, Idle
<1>6. ASSUME NEW j \in Ids, ReadRow(c, j)
      PROVE  TypeOK'
  <2>1. PICK ch \in Changes :
          request' = [request EXCEPT ![c] =
              [at |-> "check", job |-> j, new |-> Merged(rows[j].params, ch),
               change |-> ch, width |-> rows[j].width,
               named |-> Named(ch) \/ (rows[j].named /\ ~Renewed(ch))]]
    BY <1>6 DEF ReadRow
  <2>2. rows[j] \in Row
    BY <1>6 DEF ReadRow, TypeOK, NoRow, Settable
  <2>3. Merged(rows[j].params, ch) \in Parameters
    BY <2>2, MergedTyped DEF Row
  <2>4. (Named(ch) \/ (rows[j].named /\ ~Renewed(ch))) \in BOOLEAN
    BY DEF Named
  <2>5. sets' \in 0..MaxSets
    BY <1>6, JobParametersAssumption DEF ReadRow, TypeOK
  <2> QED
    BY <1>6, <2>1, <2>2, <2>3, <2>4, <2>5 DEF ReadRow, TypeOK, Read, Row, Ids
<1> QED
  BY <1>1, <1>2, <1>3, <1>4, <1>5, <1>6 DEF RequestStep

LEMMA TypeDispatcher ==
    ASSUME TypeOK, DispatcherStep
    PROVE  TypeOK'
<1> USE DEF api, cluster
<1>1. CASE Fetch
  <2>1. PICK S \in SUBSET {j \in Ids : rows[j].status = "QUEUED"} :
          batch' = S /\ loaded' = [j \in S |-> rows[j].params]
    BY <1>1 DEF Fetch
  <2>2. \A j \in S : rows[j].params \in Parameters
    BY DEF TypeOK, Row, NoRow
  <2> QED
    BY <1>1, <2>1, <2>2 DEF Fetch, TypeOK
<1>2. CASE BuildK8sJob
  <2>1. dispatch.job \in Ids
    BY <1>2 DEF BuildK8sJob, TypeOK, Dispatch, Idle
  <2>2. dispatch' \in Dispatch
    BY <1>2, <2>1 DEF BuildK8sJob, TypeOK, Dispatch, Present, Row
  <2> QED
    BY <1>2, <2>2 DEF BuildK8sJob, TypeOK
<1>3. CASE CreateK8sJob
  <2>1. dispatch.job \in Ids /\ dispatch.manifest \in Parameters
    BY <1>3 DEF CreateK8sJob, TypeOK, Dispatch, Idle
  <2>2. dispatch.manifest # NoJob
    BY <2>1 DEF Parameters, NoJob
  <2>3. dispatch' \in Dispatch
    BY <1>3, <2>1 DEF CreateK8sJob, Dispatch
  <2>4. jobs' \in [Ids -> Parameters \cup {NoJob}] /\ stray' \subseteq {j \in Ids : jobs'[j] # NoJob}
    BY <1>3, <2>1, <2>2 DEF CreateK8sJob, TypeOK
  <2> QED
    BY <1>3, <2>3, <2>4 DEF CreateK8sJob, TypeOK
<1>4. CASE CloseDispatch
  <2>1. dispatch.job \in Ids /\ (dispatch.at = "refused" => dispatch.to \in {"QUEUED", "ENDED"})
    BY <1>4 DEF CloseDispatch, TypeOK, Dispatch, Idle
  <2>2. rows' \in [Ids -> Row \cup {NoRow}]
    BY <1>4, <2>1 DEF CloseDispatch, SetStatus, TypeOK, Row, NoRow, Statuses, Settable, Ended
  <2> QED
    BY <1>4, <2>2 DEF CloseDispatch, TypeOK, Dispatch
<1>5. CASE DispatcherRestart
  <2>1. rows' \in [Ids -> Row \cup {NoRow}]
    BY <1>5 DEF DispatcherRestart, TypeOK, Row, NoRow, Statuses, Settable
  <2>2. stray' \subseteq {j \in Ids : jobs'[j] # NoJob}
    BY <1>5 DEF DispatcherRestart, TypeOK, Dispatch, Idle
  <2> QED
    BY <1>5, <2>1, <2>2 DEF DispatcherRestart, TypeOK, Dispatch
<1>6. ASSUME NEW j \in Ids, Claim(j)
      PROVE  TypeOK'
  <2>1. rows' \in [Ids -> Row \cup {NoRow}]
    BY <1>6 DEF Claim, SetStatus, TypeOK, Row, NoRow, Statuses
  <2>2. dispatch' \in Dispatch
    BY <1>6 DEF Claim, TypeOK, Dispatch
  <2>3. batch' \subseteq Ids /\ loaded' = <<>>
    BY <1>6 DEF Claim, TypeOK, Kept
  <2> QED
    BY <1>6, <2>1, <2>2, <2>3 DEF Claim, TypeOK
<1> QED
  BY <1>1, <1>2, <1>3, <1>4, <1>5, <1>6 DEF DispatcherStep

LEMMA TypeStep == TypeOK /\ [Next]_vars => TypeOK'
<1> SUFFICES ASSUME TypeOK, [Next]_vars PROVE TypeOK'
  OBVIOUS
<1> USE DEF api, daemon, cluster
<1>1. ASSUME NEW c \in Clients, RequestStep(c) PROVE TypeOK'
  BY <1>1, TypeRequests
<1>2. ASSUME NEW j \in Ids, Move(j) PROVE TypeOK'
  <2>1. rows' \in [Ids -> Row \cup {NoRow}]
    BY <1>2 DEF Move, SetStatus, TypeOK, Row, NoRow, Statuses, Settable, Ended
  <2> QED
    BY <1>2, <2>1 DEF Move, TypeOK
<1>3. ASSUME NEW j \in Ids, Sync(j) PROVE TypeOK'
  <2>1. rows' \in [Ids -> Row \cup {NoRow}]
    BY <1>3 DEF Sync, Present, SetStatus, TypeOK, Row, NoRow, Statuses, Settable, Ended
  <2> QED
    BY <1>3, <2>1 DEF Sync, TypeOK
<1>4. ASSUME NEW j \in Ids, Requeue(j) PROVE TypeOK'
  <2>1. rows' \in [Ids -> Row \cup {NoRow}]
    BY <1>4 DEF Requeue, SetStatus, TypeOK, Row, NoRow, Statuses, Settable
  <2>2. jobs' \in [Ids -> Parameters \cup {NoJob}] /\ stray' \subseteq {i \in Ids : jobs'[i] # NoJob}
    BY <1>4 DEF Requeue, JobGone, TypeOK
  <2> QED
    BY <1>4, <2>1, <2>2 DEF Requeue, TypeOK
<1>5. ASSUME NEW j \in Ids, Remove(j) PROVE TypeOK'
  <2>1. jobs' \in [Ids -> Parameters \cup {NoJob}] /\ stray' \subseteq {i \in Ids : jobs'[i] # NoJob}
    BY <1>5 DEF Remove, JobGone, TypeOK
  <2> QED
    BY <1>5, <2>1 DEF Remove, TypeOK
<1>6. CASE DispatcherStep
  BY <1>6, TypeDispatcher
<1>7. CASE SyncLimits
  BY <1>7, JobParametersAssumption DEF SyncLimits, TypeOK
<1>8. CASE UNCHANGED vars
  BY <1>8 DEF vars, TypeOK
<1> QED
  BY <1>1, <1>2, <1>3, <1>4, <1>5, <1>6, <1>7, <1>8 DEF Next

\* Every variable keeps its type, whatever the requests name and the tables hold.
THEOREM TypeCorrect == Spec => []TypeOK
<1>1. Init => TypeOK
  BY TypeInit
<1>2. TypeOK /\ [Next]_vars => TypeOK'
  BY TypeStep
<1> QED
  BY <1>1, <1>2, PTL DEF Spec

---------------------------------------------------------------------------
(* A row's parameters were checked together.  The invariant follows them     *)
(* through the requests: what a request will write was coherent when it was  *)
(* merged, and fits from the moment it was checked; nothing the tables or    *)
(* other requests do meanwhile is part of it.                                *)

Coherent(p, named) == named \/ ImageOf[p.flavor] \in {NoImage, p.image}

RequestsWhole ==
    \A c \in Clients : request[c] # Idle =>
        /\ Coherent(request[c].new, request[c].named)
        /\ request[c].at # "check" => Fits(request[c].new, request[c].under)

WholeInv == TypeOK /\ RowIsWhole /\ RequestsWhole

\* Whatever a set names, image and flavor still belong together.
LEMMA MergeCoherent ==
    ASSUME NEW old \in Parameters, NEW named \in BOOLEAN, NEW change, Coherent(old, named)
    PROVE  Coherent(Merged(old, change), Named(change) \/ (named /\ ~Renewed(change)))
<1>1. "flavor" \in DOMAIN old /\ "image" \in DOMAIN old
  BY DEF Parameters
<1>2. CASE Named(change)
  BY <1>2 DEF Coherent
<1>3. CASE Renewed(change)
  BY <1>1, <1>3 DEF Coherent, Merged, Named, Renewed, Over
<1>4. CASE ~Named(change) /\ ~Renewed(change)
  BY <1>1, <1>4 DEF Coherent, Merged, Named, Renewed, Over
<1> QED
  BY <1>2, <1>3, <1>4

\* A submission that names no image takes its flavor's, if there is one.
LEMMA SubmitCoherent ==
    ASSUME NEW w, NEW fallback,
           NEW p, p = Over(w, [flavor |-> DefaultFlavor]),
           NEW image, image = ResolveImage(p.flavor, Asked(w), fallback)
    PROVE  Coherent(Over([image |-> image], p), Named(w))
<1>1. CASE Named(w)
  BY <1>1 DEF Coherent
<1>2. CASE ~Named(w)
  <2>1. image = ResolveImage(p.flavor, NoImage, fallback)
    BY <1>2 DEF Asked
  <2>2. ImageOf[p.flavor] \in {NoImage, image}
    BY <2>1 DEF ResolveImage
  <2>3. "flavor" \in DOMAIN p
    BY DEF Over
  <2>4. Over([image |-> image], p).flavor = p.flavor /\ Over([image |-> image], p).image = image
    BY <2>3 DEF Over
  <2> QED
    BY <2>2, <2>4 DEF Coherent
<1> QED
  BY <1>1, <1>2

LEMMA WholeRequests ==
    ASSUME WholeInv, NEW c \in Clients, RequestStep(c)
    PROVE  RowIsWhole' /\ RequestsWhole'
<1>1. CASE Submit(c)
  <2>1. PICK w \in Wishes, width \in Widths, cjob \in PodImages, jupyter \in PodImages :
          LET p == Over(w, [flavor |-> DefaultFlavor])
              image == ResolveImage(p.flavor, Asked(w), PickFallbackImage(cjob, jupyter))
          IN  /\ image # NoImage
              /\ request' = [request EXCEPT ![c] =
                    [at |-> "check", job |-> 0, new |-> Over([image |-> image], p),
                     change |-> w, width |-> width, named |-> Named(w)]]
    BY <1>1 DEF Submit
  <2>2. request'[c].at = "check" /\ Coherent(request'[c].new, request'[c].named)
    BY <2>1, SubmitCoherent DEF WholeInv, TypeOK
  <2>3. RequestsWhole'
    BY <2>1, <2>2 DEF WholeInv, TypeOK, RequestsWhole, Coherent, Fits, Least
  <2> QED
    BY <1>1, <2>3 DEF Submit, WholeInv, RowIsWhole, Present, Fits, Least
<1>2. CASE CheckResources(c)
  <2>1. RequestsWhole'
    <3> DEFINE r == request[c]
               limit == limits[r.new.flavor]
    <3>1. r # Idle /\ Coherent(r.new, r.named)
      BY <1>2 DEF CheckResources, At, Idle, WholeInv, RequestsWhole
    <3>2. CASE Fits(r.new, limit)
      <4>1. PICK next :
              request' = [request EXCEPT ![c] =
                    [at |-> next, job |-> r.job, new |-> r.new, change |-> r.change,
                     width |-> r.width, named |-> r.named, under |-> limit]]
        BY <1>2, <3>2 DEF CheckResources
      <4>2. Coherent(request'[c].new, request'[c].named) /\ Fits(request'[c].new, request'[c].under)
        BY <3>1, <3>2, <4>1 DEF WholeInv, TypeOK
      <4> HIDE DEF r, limit
      <4> QED
        BY <4>1, <4>2 DEF WholeInv, TypeOK, RequestsWhole, Coherent, Fits, Least
    <3>3. CASE ~Fits(r.new, limit)
      BY <1>2, <3>3 DEF CheckResources, Ends, WholeInv, TypeOK, RequestsWhole, Coherent, Fits, Least
    <3> QED
      BY <3>2, <3>3
  <2> QED
    BY <1>2, <2>1 DEF CheckResources, WholeInv, RowIsWhole, Present, Fits, Least
<1>3. CASE CheckTotal(c)
  <2>1. /\ Goes(c, "insert") \/ Ends(c)
        /\ request[c] # Idle /\ request[c].at = "total"
    BY <1>3 DEF CheckTotal, At, Idle
  <2>2. request[c] \in Checked
    BY <2>1 DEF WholeInv, TypeOK, Read, Checked
  <2>3. /\ \A d \in Clients \ {c} : request'[d] = request[d]
        /\ \/ request'[c] = Idle
           \/ request'[c] = [request[c] EXCEPT !.at = "insert"]
    BY <2>1 DEF Goes, Ends, WholeInv, TypeOK
  <2>4. request'[c] = Idle
        \/ /\ request'[c].new = request[c].new /\ request'[c].named = request[c].named
           /\ request'[c].under = request[c].under
    BY <2>2, <2>3 DEF Checked
  <2>5. Coherent(request[c].new, request[c].named) /\ Fits(request[c].new, request[c].under)
    BY <2>1 DEF WholeInv, RequestsWhole
  <2>6. RequestsWhole'
    BY <2>3, <2>4, <2>5 DEF WholeInv, RequestsWhole, Coherent, Fits, Least
  <2> QED
    BY <1>3, <2>6 DEF CheckTotal, WholeInv, RowIsWhole, Present, Fits, Least
<1>4. CASE InsertRow(c)
  <2>1. /\ request[c] # Idle /\ request[c].at = "insert" /\ Ends(c)
        /\ rows' = [rows EXCEPT ![nextId] =
              [status |-> "QUEUED", params |-> request[c].new, width |-> request[c].width,
               named |-> request[c].named, under |-> request[c].under]]
    BY <1>4 DEF InsertRow, At, Idle
  <2>2. RequestsWhole'
    BY <2>1 DEF Ends, WholeInv, TypeOK, RequestsWhole
  <2>3. Coherent(request[c].new, request[c].named) /\ Fits(request[c].new, request[c].under)
    BY <2>1 DEF WholeInv, RequestsWhole
  <2>4. RowIsWhole'
    BY <2>1, <2>3 DEF WholeInv, TypeOK, RowIsWhole, Present, Coherent
  <2> QED
    BY <2>2, <2>4
<1>5. CASE UpdateRow(c)
  <2>1. /\ request[c] # Idle /\ request[c].at = "update" /\ Ends(c)
        /\ \/ rows' = rows
           \/ /\ rows[request[c].job].status \in Settable
              /\ rows' = [rows EXCEPT ![request[c].job] = Written(@, request[c])]
    BY <1>5 DEF UpdateRow, At, Idle
  <2>2. RequestsWhole'
    BY <2>1 DEF Ends, WholeInv, TypeOK, RequestsWhole
  <2>3. Coherent(request[c].new, request[c].named) /\ Fits(request[c].new, request[c].under)
    BY <2>1 DEF WholeInv, RequestsWhole
  <2>4. CASE rows' = rows
    BY <2>2, <2>4 DEF WholeInv, RowIsWhole, Present, Fits, Least
  <2>5. CASE /\ rows[request[c].job].status \in Settable
             /\ rows' = [rows EXCEPT ![request[c].job] = Written(@, request[c])]
    <3>1. request[c].job \in Ids
      BY <2>1 DEF WholeInv, TypeOK, Read, Checked
    <3>2. rows[request[c].job] \in Row
      BY <2>5, <3>1 DEF WholeInv, TypeOK, NoRow, Settable
    <3> DEFINE new == Written(rows[request[c].job], request[c])
    <3>3. /\ new.params = request[c].new /\ new.named = request[c].named
          /\ new.under = request[c].under
      BY <3>2 DEF Written, Row
    <3>4. rows'[request[c].job] = new
          /\ \A j \in Ids : j # request[c].job => rows'[j] = rows[j]
      BY <2>5, <3>1 DEF WholeInv, TypeOK
    <3> HIDE DEF new
    <3> QED
      BY <2>2, <2>3, <3>3, <3>4 DEF WholeInv, RowIsWhole, Present, Coherent, Fits, Least
  <2> QED
    BY <2>1, <2>2, <2>4, <2>5
<1>6. ASSUME NEW j \in Ids, ReadRow(c, j)
      PROVE  RowIsWhole' /\ RequestsWhole'
  <2>1. PICK ch \in Changes :
          request' = [request EXCEPT ![c] =
              [at |-> "check", job |-> j, new |-> Merged(rows[j].params, ch),
               change |-> ch, width |-> rows[j].width,
               named |-> Named(ch) \/ (rows[j].named /\ ~Renewed(ch))]]
    BY <1>6 DEF ReadRow
  <2>2. rows[j] \in Row
    BY <1>6 DEF ReadRow, WholeInv, TypeOK, NoRow, Settable
  <2>3. Present(j) /\ rows[j].params \in Parameters /\ rows[j].named \in BOOLEAN
    BY <1>6, <2>2 DEF ReadRow, Present, Row, NoRow, Settable
  <2>4. Coherent(rows[j].params, rows[j].named)
    BY <2>3 DEF WholeInv, RowIsWhole, Coherent
  <2>5. request'[c].at = "check" /\ Coherent(request'[c].new, request'[c].named)
    BY <2>1, <2>3, <2>4, MergeCoherent DEF WholeInv, TypeOK
  <2>6. RequestsWhole'
    BY <2>1, <2>5 DEF WholeInv, RequestsWhole, Coherent
  <2> QED
    BY <1>6, <2>6 DEF ReadRow, WholeInv, RowIsWhole, Present
<1> QED
  BY <1>1, <1>2, <1>3, <1>4, <1>5, <1>6 DEF RequestStep

\* No other step writes parameters: a row keeps them, or goes.
Stays(j) ==
    \/ rows'[j] = NoRow
    \/ rows[j] # NoRow /\ \E s \in Statuses : rows'[j] = [rows[j] EXCEPT !.status = s]

LEMMA Staying ==
    ASSUME TypeOK, NEW j \in Ids
    PROVE  /\ rows'[j] = rows[j] => Stays(j)
           /\ \A s \in Statuses : rows[j] # NoRow /\ rows' = [rows EXCEPT ![j].status = s] => Stays(j)
<1>1. CASE rows[j] = NoRow
  BY <1>1 DEF Stays
<1>2. CASE rows[j] # NoRow
  <2>1. rows[j] \in Row
    BY <1>2 DEF TypeOK
  <2>2. rows[j] = [rows[j] EXCEPT !.status = rows[j].status] /\ rows[j].status \in Statuses
    BY <2>1 DEF Row
  <2> QED
    BY <1>2, <2>2 DEF Stays, TypeOK
<1> QED
  BY <1>1, <1>2

LEMMA KeepsParameters ==
    ASSUME TypeOK, [Next]_vars, ~(\E c \in Clients : RequestStep(c))
    PROVE  request' = request /\ nextId' = nextId /\ \A j \in Ids : Stays(j)
<1> USE DEF api
<1>1. ASSUME NEW i \in Ids, Move(i) \/ Sync(i) \/ Requeue(i) \/ Remove(i)
      PROVE  request' = request /\ nextId' = nextId /\ \A j \in Ids : Stays(j)
  <2>1. request' = request /\ nextId' = nextId
    BY <1>1 DEF Move, Sync, Requeue, Remove
  <2>2. \/ \E s \in Statuses : rows[i] # NoRow /\ rows' = [rows EXCEPT ![i].status = s]
        \/ rows' = [rows EXCEPT ![i] = NoRow]
        \/ rows' = rows
    BY <1>1 DEF Move, Sync, Requeue, Remove, SetStatus, Present, NoRow, Statuses, Settable, Ended
  <2>3. ASSUME NEW j \in Ids PROVE Stays(j)
    <3>1. CASE j = i
      BY <2>2, <3>1, Staying DEF Stays, TypeOK
    <3>2. CASE j # i
      BY <2>2, <3>2, Staying DEF TypeOK
    <3> QED
      BY <3>1, <3>2
  <2> QED
    BY <2>1, <2>3
<1>2. CASE DispatcherStep
  <2>1. request' = request /\ nextId' = nextId
    BY <1>2 DEF DispatcherStep, Fetch, BuildK8sJob, CreateK8sJob, CloseDispatch,
         DispatcherRestart, Claim
  <2>2. CASE DispatcherRestart
    <3>1. \A j \in Ids : rows'[j] = rows[j]
            \/ (rows[j] # NoRow /\ rows'[j] = [rows[j] EXCEPT !.status = "QUEUED"])
      BY <2>2 DEF DispatcherRestart, NoRow
    <3> QED
      BY <2>1, <3>1, Staying DEF Stays, Statuses, Settable
  <2>3. CASE ~DispatcherRestart
    <3>1. dispatch = Idle \/ dispatch.job \in Ids
      BY DEF TypeOK, Dispatch
    <3>2. \/ rows' = rows
          \/ \E i \in Ids, s \in Statuses :
                rows[i] # NoRow /\ rows' = [rows EXCEPT ![i].status = s]
      BY <1>2, <2>3, <3>1 DEF DispatcherStep, Fetch, BuildK8sJob, CreateK8sJob, CloseDispatch,
           Claim, SetStatus, TypeOK, Dispatch, Idle, NoRow, Statuses, Settable, Ended
    <3>3. ASSUME NEW j \in Ids PROVE Stays(j)
      BY <3>2, Staying DEF TypeOK
    <3> QED
      BY <2>1, <3>3
  <2> QED
    BY <2>2, <2>3
<1>3. CASE SyncLimits \/ UNCHANGED vars
  BY <1>3, Staying DEF SyncLimits, vars
<1> QED
  BY <1>1, <1>2, <1>3 DEF Next

LEMMA WholeStep == WholeInv /\ [Next]_vars => WholeInv'
<1> SUFFICES ASSUME WholeInv, [Next]_vars PROVE WholeInv'
  OBVIOUS
<1>1. TypeOK'
  BY TypeStep DEF WholeInv
<1>2. ASSUME NEW c \in Clients, RequestStep(c) PROVE WholeInv'
  BY <1>1, <1>2, WholeRequests DEF WholeInv
<1>3. CASE ~(\E c \in Clients : RequestStep(c))
  <2>1. request' = request /\ \A j \in Ids : Stays(j)
    BY <1>3, KeepsParameters DEF WholeInv
  <2>2. RequestsWhole'
    BY <2>1 DEF WholeInv, RequestsWhole, Coherent, Fits, Least
  <2>3. ASSUME NEW j \in Ids, rows'[j] # NoRow
        PROVE  /\ rows[j] # NoRow /\ rows'[j].params = rows[j].params
               /\ rows'[j].named = rows[j].named /\ rows'[j].under = rows[j].under
    BY <2>1, <2>3 DEF Stays, WholeInv, TypeOK, Row
  <2>4. RowIsWhole'
    BY <2>3 DEF WholeInv, RowIsWhole, Present, Fits, Least
  <2> QED
    BY <1>1, <2>2, <2>4 DEF WholeInv
<1> QED
  BY <1>2, <1>3

\* The parameters of every row were checked together under one reading of the
\* tables, and its image is its flavor's or was asked for by name.
THEOREM RowsAreWhole == Spec => []RowIsWhole
<1>1. Init => WholeInv
  BY TypeInit DEF WholeInv, Init, RowIsWhole, RequestsWhole, Present
<1>2. WholeInv /\ [Next]_vars => WholeInv'
  BY WholeStep
<1>3. WholeInv => RowIsWhole
  BY DEF WholeInv
<1> QED
  BY <1>1, <1>2, <1>3, PTL DEF Spec

---------------------------------------------------------------------------
(* A Job asks for what its row says.  That a row and its Job agree is not    *)
(* inductive: a set may change a row that waits, and the manifest is older   *)
(* than the Job.  What carries it is that a row that waits has no recorded   *)
(* Job, that the row being dispatched does not wait, and that between its    *)
(* manifest and its Job nothing was read from before the claim.              *)


\* Ids that were not given out bear nothing.
Unissued ==
    \A j \in Ids : j >= nextId =>
        /\ rows[j] = NoRow /\ jobs[j] = NoJob
        /\ dispatch # Idle => dispatch.job # j

\* What is known of the row in dispatch_one.
InDispatch ==
    dispatch # Idle =>
        /\ DOMAIN loaded = {}
        /\ Present(dispatch.job) => rows[dispatch.job].status \notin Settable \cup {"DISPATCHED"}
        /\ dispatch.at = "built" /\ Present(dispatch.job)
             => dispatch.manifest = rows[dispatch.job].params

\* What is known of the row of a Job whose creation was, or will be, recorded.
Recorded ==
    \A j \in Ids \ stray : jobs[j] # NoJob /\ Present(j) =>
        /\ jobs[j] = rows[j].params
        /\ rows[j].status \notin Settable
        /\ rows[j].status = "DISPATCHING" => dispatch.at = "created" /\ dispatch.job = j

ManifestInv == TypeOK /\ Unissued /\ InDispatch /\ Recorded

LEMMA ManifestRequests ==
    ASSUME ManifestInv, NEW c \in Clients, RequestStep(c)
    PROVE  Unissued' /\ InDispatch' /\ Recorded'
<1> USE DEF daemon, cluster
<1>1. CASE rows' = rows /\ nextId' = nextId
  <2>1. dispatch' = dispatch /\ loaded' = loaded /\ jobs' = jobs /\ stray' = stray
    BY DEF RequestStep, Submit, CheckResources, CheckTotal, InsertRow, UpdateRow, ReadRow
  <2> QED
    BY <1>1, <2>1 DEF ManifestInv, Unissued, InDispatch, Recorded, Present
<1>2. CASE InsertRow(c)
  <2>1. /\ nextId \in Ids /\ nextId' = nextId + 1
        /\ rows'[nextId].status = "QUEUED" /\ \A j \in Ids \ {nextId} : rows'[j] = rows[j]
        /\ dispatch' = dispatch /\ loaded' = loaded /\ jobs' = jobs /\ stray' = stray
    BY <1>2, JobParametersAssumption DEF InsertRow, ManifestInv, TypeOK, Ids
  <2>2. jobs[nextId] = NoJob /\ (dispatch # Idle => dispatch.job # nextId)
    BY <2>1 DEF ManifestInv, Unissued, Ids
  <2>3. dispatch # Idle => dispatch.job \in Ids
    BY DEF ManifestInv, TypeOK, Dispatch
  <2>4. Unissued'
    BY <2>1 DEF ManifestInv, Unissued, Ids, TypeOK
  <2>5. InDispatch'
    BY <2>1, <2>2, <2>3 DEF ManifestInv, InDispatch, Present
  <2>6. Recorded'
    BY <2>1, <2>2 DEF ManifestInv, Recorded, Present
  <2> QED
    BY <2>4, <2>5, <2>6
<1>3. CASE UpdateRow(c) /\ rows' # rows
  <2> DEFINE i == request[c].job
  <2>1. /\ rows[i].status \in Settable /\ rows' = [rows EXCEPT ![i] = Written(rows[i], request[c])]
        /\ nextId' = nextId
        /\ dispatch' = dispatch /\ loaded' = loaded /\ jobs' = jobs /\ stray' = stray
    BY <1>3 DEF UpdateRow
  <2>2. i \in Ids
    BY <1>3 DEF UpdateRow, At, ManifestInv, TypeOK, Idle, Read, Checked
  <2>3. rows[i] \in Row
    BY <2>1, <2>2 DEF ManifestInv, TypeOK, NoRow, Settable
  <2>4. /\ rows'[i].status = rows[i].status /\ rows[i] # NoRow
        /\ \A j \in Ids \ {i} : rows'[j] = rows[j]
    BY <2>1, <2>2, <2>3 DEF Written, Row, NoRow, Settable, ManifestInv, TypeOK
  <2>5. dispatch # Idle => dispatch.job # i /\ dispatch.job \in Ids
    BY <2>1, <2>4 DEF ManifestInv, InDispatch, Present, TypeOK, Dispatch
  <2>6. jobs[i] = NoJob \/ i \in stray
    BY <2>1, <2>2, <2>4 DEF ManifestInv, Recorded, Present
  <2> HIDE DEF i
  <2>7. Unissued'
    BY <2>1, <2>2, <2>4 DEF ManifestInv, Unissued
  <2>8. InDispatch'
    BY <2>1, <2>4, <2>5 DEF ManifestInv, InDispatch, Present
  <2>9. Recorded'
    BY <2>1, <2>4, <2>6 DEF ManifestInv, Recorded, Present
  <2> QED
    BY <2>7, <2>8, <2>9
<1> QED
  BY <1>1, <1>2, <1>3 DEF RequestStep, Submit, CheckResources, CheckTotal, UpdateRow, ReadRow

LEMMA ManifestDispatcher ==
    ASSUME ManifestInv, DispatcherStep
    PROVE  Unissued' /\ InDispatch' /\ Recorded'
<1> USE DEF api, cluster
<1>1. CASE Fetch
  BY <1>1 DEF Fetch, ManifestInv, Unissued, InDispatch, Recorded, Present
<1>2. ASSUME NEW j \in Ids, Claim(j) PROVE Unissued' /\ InDispatch' /\ Recorded'
  <2>1. CASE UNCHANGED <<rows, dispatch>>
    BY <1>2, <2>1 DEF Claim, Kept, ManifestInv, Unissued, InDispatch, Recorded, Present
  <2>2. CASE rows[j].status = "QUEUED" /\ SetStatus(j, "DISPATCHING") /\ dispatch' = [at |-> "claimed", job |-> j]
    <3>1. rows[j] \in Row
      BY <2>2 DEF ManifestInv, TypeOK, NoRow
    <3>2. /\ rows'[j].status = "DISPATCHING" /\ rows[j] # NoRow
          /\ \A i \in Ids \ {j} : rows'[i] = rows[i]
      BY <2>2, <3>1 DEF SetStatus, ManifestInv, TypeOK, Row, NoRow
    <3>3. dispatch = Idle /\ nextId' = nextId /\ loaded' = <<>> /\ jobs' = jobs /\ stray' = stray
      BY <1>2, <2>2 DEF Claim, Kept
    <3>4. jobs[j] = NoJob \/ j \in stray
      BY <2>2, <3>2 DEF ManifestInv, Recorded, Present, Settable
    <3>5. Unissued'
      BY <2>2, <3>2, <3>3 DEF ManifestInv, Unissued
    <3>6. InDispatch'
      BY <2>2, <3>2, <3>3 DEF InDispatch, Settable
    <3>7. Recorded'
      BY <3>2, <3>3, <3>4 DEF ManifestInv, Recorded, Present, Idle
    <3> QED
      BY <3>5, <3>6, <3>7
  <2> QED
    BY <1>2, <2>1, <2>2 DEF Claim
<1>3. CASE BuildK8sJob
  <2>1. /\ dispatch # Idle /\ dispatch.at = "claimed" /\ DOMAIN loaded = {}
        /\ rows' = rows /\ jobs' = jobs /\ stray' = stray /\ loaded' = loaded /\ nextId' = nextId
    BY <1>3 DEF BuildK8sJob, Idle, ManifestInv, InDispatch
  <2>2. \/ /\ Present(dispatch.job)
           /\ dispatch' = [at |-> "built", job |-> dispatch.job,
                           manifest |-> rows[dispatch.job].params]
        \/ dispatch' = Idle
    BY <1>3, <2>1 DEF BuildK8sJob
  <2>3. dispatch' = Idle \/ (dispatch'.job = dispatch.job /\ dispatch' # Idle)
    BY <2>2 DEF Idle
  <2>4. Unissued'
    BY <2>1, <2>3 DEF ManifestInv, Unissued
  <2>5. InDispatch'
    BY <2>1, <2>2, <2>3 DEF ManifestInv, InDispatch, Present
  <2>6. Recorded'
    BY <2>1 DEF ManifestInv, Recorded, Present
  <2> QED
    BY <2>4, <2>5, <2>6
<1>4. CASE CreateK8sJob
  <2> DEFINE i == dispatch.job
  <2>1. /\ dispatch # Idle /\ dispatch.at = "built" /\ i \in Ids /\ DOMAIN loaded = {}
        /\ Present(i) => rows[i].status \notin Settable \cup {"DISPATCHED"} /\ dispatch.manifest = rows[i].params
        /\ rows' = rows /\ loaded' = loaded /\ nextId' = nextId
    BY <1>4 DEF CreateK8sJob, Idle, ManifestInv, InDispatch, TypeOK, Dispatch
  <2>2. i < nextId
    BY <2>1 DEF ManifestInv, Unissued, TypeOK, Ids
  <2>3. dispatch' # Idle /\ dispatch'.job = i /\ dispatch'.at \in {"created", "refused"}
    BY <1>4 DEF CreateK8sJob, Idle
  <2>4. /\ \A j \in Ids \ {i} : jobs'[j] = jobs[j] /\ (j \in stray' <=> j \in stray)
        /\ \/ jobs'[i] = jobs[i] /\ (i \in stray' <=> i \in stray)
           \/ i \in stray'
           \/ jobs'[i] = dispatch.manifest /\ dispatch'.at = "created"
    BY <1>4, <2>1 DEF CreateK8sJob, ManifestInv, TypeOK
  <2> HIDE DEF i
  <2>5. Unissued'
    BY <2>1, <2>2, <2>3, <2>4 DEF ManifestInv, Unissued, TypeOK, Ids
  <2>6. InDispatch'
    BY <2>1, <2>3 DEF InDispatch, Present
  <2>7. Recorded'
    <3> SUFFICES ASSUME NEW j \in Ids \ stray', jobs'[j] # NoJob, Present(j)
                 PROVE  /\ jobs'[j] = rows[j].params
                        /\ rows[j].status \notin Settable
                        /\ rows[j].status = "DISPATCHING" => dispatch'.at = "created" /\ dispatch'.job = j
      BY <2>1 DEF Recorded, Present
    <3>1. CASE j # i
      BY <2>1, <2>4, <3>1 DEF ManifestInv, Recorded, i
    <3>2. CASE j = i
      BY <2>1, <2>3, <2>4, <3>2 DEF ManifestInv, Recorded
    <3> QED
      BY <3>1, <3>2
  <2> QED
    BY <2>5, <2>6, <2>7
<1>5. CASE CloseDispatch
  <2> DEFINE i == dispatch.job
  <2>1. /\ dispatch # Idle /\ i \in Ids /\ dispatch.at \in {"created", "refused"} /\ dispatch' = Idle
        /\ dispatch.at = "refused" => dispatch.to \in {"QUEUED", "ENDED"}
        /\ jobs' = jobs /\ stray' = stray /\ nextId' = nextId
    BY <1>5 DEF CloseDispatch, Idle, ManifestInv, TypeOK, Dispatch
  <2>2. CASE rows[i].status # "DISPATCHING"
    <3>1. rows' = rows
      BY <1>5, <2>2 DEF CloseDispatch
    <3>2. \A j \in Ids : Present(j) => ~(rows[j].status = "DISPATCHING" /\ dispatch.job = j)
      BY <2>2
    <3> QED
      BY <2>1, <3>1, <3>2 DEF ManifestInv, Unissued, InDispatch, Recorded, Present
  <2>3. CASE rows[i].status = "DISPATCHING"
    <3>1. rows[i] \in Row
      BY <2>1, <2>3 DEF ManifestInv, TypeOK, NoRow
    <3>2. /\ rows[i] # NoRow /\ rows'[i].params = rows[i].params
          /\ rows'[i].status = IF dispatch.at = "created" THEN "DISPATCHED" ELSE dispatch.to
          /\ \A j \in Ids \ {i} : rows'[j] = rows[j]
      BY <1>5, <2>1, <2>3, <3>1 DEF CloseDispatch, SetStatus, ManifestInv, TypeOK, Row, NoRow
    <3>3. dispatch.at = "refused" => jobs[i] = NoJob \/ i \in stray
      BY <2>1, <2>3, <3>2 DEF ManifestInv, Recorded, Present
    <3> HIDE DEF i
    <3>4. Unissued'
      BY <2>1, <3>2 DEF ManifestInv, Unissued
    <3>5. InDispatch'
      BY <2>1 DEF InDispatch
    <3>6. Recorded'
      <4> SUFFICES ASSUME NEW j \in Ids \ stray, jobs[j] # NoJob, rows'[j] # NoRow
                   PROVE  /\ jobs[j] = rows'[j].params
                          /\ rows'[j].status \notin Settable \cup {"DISPATCHING"}
        BY <2>1 DEF Recorded, Present
      <4>1. CASE j # i
        BY <2>1, <3>2, <4>1 DEF ManifestInv, Recorded, Present, i
      <4>2. CASE j = i
        BY <2>1, <3>2, <3>3, <4>2 DEF ManifestInv, Recorded, Present, Settable
      <4> QED
        BY <4>1, <4>2
    <3> QED
      BY <3>4, <3>5, <3>6
  <2> QED
    BY <2>2, <2>3
<1>6. CASE DispatcherRestart
  <2>1. dispatch' = Idle /\ jobs' = jobs /\ nextId' = nextId
    BY <1>6 DEF DispatcherRestart
  <2>2. \A j \in Ids :
          \/ rows[j].status # "DISPATCHING" /\ rows'[j] = rows[j]
          \/ /\ rows[j].status = "DISPATCHING" /\ rows[j] # NoRow
             /\ rows'[j] = [rows[j] EXCEPT !.status = "QUEUED"]
    BY <1>6 DEF DispatcherRestart, NoRow
  <2>3. /\ stray \subseteq stray'
        /\ \A j \in Ids : jobs[j] # NoJob /\ dispatch.at = "created" /\ dispatch.job = j => j \in stray'
    BY <1>6 DEF DispatcherRestart
  <2>4. Unissued'
    BY <2>1, <2>2 DEF ManifestInv, Unissued
  <2>5. InDispatch'
    BY <2>1 DEF InDispatch
  <2>6. Recorded'
    <3> SUFFICES ASSUME NEW j \in Ids \ stray', jobs[j] # NoJob, rows'[j] # NoRow
                 PROVE  /\ jobs[j] = rows'[j].params
                        /\ rows'[j].status \notin Settable \cup {"DISPATCHING"}
      BY <2>1 DEF Recorded, Present
    <3>1. rows[j].status # "DISPATCHING"
      BY <2>2, <2>3 DEF ManifestInv, Recorded, Present
    <3> QED
      BY <2>2, <2>3, <3>1 DEF ManifestInv, Recorded, Present
  <2> QED
    BY <2>4, <2>5, <2>6
<1> QED
  BY <1>1, <1>2, <1>3, <1>4, <1>5, <1>6 DEF DispatcherStep

LEMMA ManifestStep == ManifestInv /\ [Next]_vars => ManifestInv'
<1> SUFFICES ASSUME ManifestInv, [Next]_vars PROVE Unissued' /\ InDispatch' /\ Recorded'
  BY TypeStep DEF ManifestInv
<1> USE DEF api, daemon, cluster
<1>1. ASSUME NEW c \in Clients, RequestStep(c) PROVE Unissued' /\ InDispatch' /\ Recorded'
  BY <1>1, ManifestRequests
<1>2. CASE DispatcherStep
  BY <1>2, ManifestDispatcher
<1>3. CASE SyncLimits \/ UNCHANGED vars
  BY <1>3 DEF SyncLimits, vars, ManifestInv, Unissued, InDispatch, Recorded, Present
<1>4. ASSUME NEW i \in Ids, Move(i) \/ Sync(i) \/ Requeue(i) \/ Remove(i)
      PROVE  Unissued' /\ InDispatch' /\ Recorded'
  <2>1. dispatch' = dispatch /\ loaded' = loaded /\ nextId' = nextId
    BY <1>4 DEF Move, Sync, Requeue, Remove
  <2>2. \A j \in Ids \ {i} : rows'[j] = rows[j] /\ jobs'[j] = jobs[j] /\ (j \in stray' <=> j \in stray)
    BY <1>4 DEF Move, Sync, Requeue, Remove, SetStatus, JobGone, ManifestInv, TypeOK
  <2>3. dispatch # Idle => dispatch.job \in Ids
    BY DEF ManifestInv, TypeOK, Dispatch
  <2>4. rows[i] = NoRow => rows'[i] = NoRow /\ (jobs'[i] = jobs[i] \/ jobs'[i] = NoJob)
    BY <1>4 DEF Move, Sync, Requeue, Remove, SetStatus, JobGone, Present, NoRow, Statuses,
         Settable, Ended, ManifestInv, TypeOK
  <2>5. rows[i] # NoRow =>
          /\ rows'[i] = NoRow \/ rows'[i].params = rows[i].params
          /\ \/ rows'[i] = NoRow \/ rows'[i].status = rows[i].status
             \/ rows'[i].status \in {"CANCELLED", "RUNNING", "ENDED"}
             \/ rows[i].status \in Settable
             \/ rows[i].status = "DISPATCHED" /\ jobs'[i] = NoJob
          /\ jobs'[i] = NoJob \/ (jobs'[i] = jobs[i] /\ (i \in stray' <=> i \in stray))
    <3> SUFFICES ASSUME rows[i] \in Row
                 PROVE  /\ rows'[i] = NoRow \/ rows'[i].params = rows[i].params
                        /\ \/ rows'[i] = NoRow \/ rows'[i].status = rows[i].status
                           \/ rows'[i].status \in {"CANCELLED", "RUNNING", "ENDED"}
                           \/ rows[i].status \in Settable
                           \/ rows[i].status = "DISPATCHED" /\ jobs'[i] = NoJob
                        /\ jobs'[i] = NoJob \/ (jobs'[i] = jobs[i] /\ (i \in stray' <=> i \in stray))
      BY DEF ManifestInv, TypeOK
    <3>1. CASE Move(i)
      BY <3>1 DEF Move, SetStatus, ManifestInv, TypeOK, Row, Settable
    <3>2. CASE Sync(i)
      BY <3>2 DEF Sync, SetStatus, ManifestInv, TypeOK, Row
    <3>3. CASE Requeue(i)
      BY <3>3 DEF Requeue, SetStatus, JobGone, ManifestInv, TypeOK, Row
    <3>4. CASE Remove(i)
      BY <3>4 DEF Remove, JobGone, ManifestInv, TypeOK
    <3> QED
      BY <1>4, <3>1, <3>2, <3>3, <3>4
  <2>6. Unissued'
    BY <2>1, <2>2, <2>4 DEF ManifestInv, Unissued
  <2>7. InDispatch'
    BY <2>1, <2>2, <2>3, <2>4, <2>5 DEF ManifestInv, InDispatch, Present, Settable
  <2>8. Recorded'
    BY <2>1, <2>2, <2>4, <2>5 DEF ManifestInv, Recorded, Present, Settable
  <2> QED
    BY <2>6, <2>7, <2>8
<1> QED
  BY <1>1, <1>2, <1>3, <1>4 DEF Next

\* A Job on the cluster asks for what its row says, however sets, holds and
\* releases raced the Dispatcher, unless its creation was never recorded.
THEOREM ManifestsAreRows == Spec => []ManifestIsRow
<1>1. Init => ManifestInv
  BY TypeInit DEF ManifestInv, Init, Unissued, InDispatch, Recorded, Present
<1>2. ManifestInv /\ [Next]_vars => ManifestInv'
  BY ManifestStep
<1>3. ManifestInv => ManifestIsRow
  BY DEF ManifestInv, Recorded, ManifestIsRow
<1> QED
  BY <1>1, <1>2, <1>3, PTL DEF Spec
=============================================================================
