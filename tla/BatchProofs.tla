----------------------------- MODULE BatchProofs -----------------------------
(***************************************************************************)
(* Lemmas about the rows of comment batches that both kinds of adapter     *)
(* rely on: when a batch is ready, and what the queue may do to its row.   *)
(***************************************************************************)
EXTENDS InteractionBatches, FiniteSetTheorems, WellFoundedInduction, TLAPS

----------------------------------------------------------------------------
(* The jobs of a comment *)

LEMMA JobNames ==
  /\ None \notin Jobs
  /\ \A r \in Requests : Batch(r) \in BatchJobs /\ Batch(r) \in Jobs
  /\ \A r \in Locals : Single(r) \in Jobs /\ Single(r) \notin BatchJobs
  /\ \A q, r \in Requests : Batch(q) = Batch(r) => q = r
  /\ BatchJobs \subseteq Jobs
  /\ \A b \in BatchJobs : \E r \in Requests : b = Batch(r)
BY BatchAssumption DEF Jobs, BatchJobs, Batch, Single

----------------------------------------------------------------------------
(* When a batch is ready *)

\* A non-empty set of instants has a first one.
LEMMA FirstExists ==
  ASSUME NEW S \in SUBSET Nat, S # {}
  PROVE  Min(S) \in S /\ \A n \in S : Min(S) <= n
<1> DEFINE Less == {ss \in Nat \X Nat : ss[1] < ss[2]}
<1>1. IsWellFoundedOn(Less, Nat)
  BY NatLessThanWellFounded DEF OpToRel
<1>2. \A m, n \in Nat : <<n, m>> \in Less <=> n < m
  OBVIOUS
<1> HIDE DEF Less
<1>3. PICK m \in S : \A n \in S : ~(<<n, m>> \in Less)
  BY <1>1, WFMin
<1>4. m \in Nat /\ \A n \in S : n \in Nat /\ ~(n < m)
  BY Zenon, <1>2, <1>3
<1>5. \A n \in S : m <= n
  BY <1>4
<1>6. QED
  BY <1>5 DEF Min

LEMMA FirstReceivedType ==
  ASSUME NEW rows \in [Requests -> Request], NEW S \in SUBSET Requests, S # {}
  PROVE  FirstReceived(rows, S) \in Nat
<1>1. Received(rows, S) \in SUBSET Nat /\ Received(rows, S) # {}
  BY DEF Received, Request
<1>2. QED
  BY <1>1, FirstExists DEF FirstReceived

\* A batch is ready no later than the maximum wait after its first request, and
\* than the quiet period of some request.
LEMMA ReadyBound ==
  ASSUME NEW rows \in [Requests -> Request], NEW S \in SUBSET Requests, S # {},
         NEW at \in ReadyTimes(rows, S)
  PROVE  /\ at \in Nat
         /\ at <= FirstReceived(rows, S) + MaxBatchWait
         /\ \E r \in S : at <= rows[r].receivedAt + rows[r].debounce
<1>1. PICK r \in S :
        at = Earlier(FirstReceived(rows, S) + MaxBatchWait,
                     rows[r].receivedAt
                       + (IF Full(rows, S) THEN 0 ELSE rows[r].debounce))
  BY DEF ReadyTimes
<1>2. /\ FirstReceived(rows, S) + MaxBatchWait \in Nat
      /\ rows[r].receivedAt \in Nat /\ rows[r].debounce \in Nat
  BY FirstReceivedType, BatchAssumption DEF Request
<1>3. QED
  BY <1>1, <1>2 DEF Earlier

\* The first request of a batch is told by the instants of its requests alone.
LEMMA SameFirst ==
  ASSUME NEW old, NEW new, NEW S,
         \A r \in S : new[r].receivedAt = old[r].receivedAt
  PROVE  FirstReceived(new, S) = FirstReceived(old, S)
BY DEF FirstReceived, Received

----------------------------------------------------------------------------
(* The bytes of a batch *)

\* The bytes of requests one by one: a sum is how many they are.
Counted(rows, S) == UNION {{r} \X (1 .. rows[r].bytes) : r \in S}

LEMMA CountedGrows ==
  ASSUME NEW rows, NEW S, NEW r, r \notin S, rows[r].bytes \in Nat,
         IsFiniteSet(Counted(rows, S))
  PROVE  /\ IsFiniteSet(Counted(rows, S \cup {r}))
         /\ Cardinality(Counted(rows, S \cup {r}))
              = rows[r].bytes + Cardinality(Counted(rows, S))
<1> DEFINE new == {r} \X (1 .. rows[r].bytes)
<1>1. Counted(rows, S \cup {r}) = Counted(rows, S) \cup new
  BY DEF Counted
<1>2. Counted(rows, S) \cap new = {}
  BY DEF Counted
<1>3. IsFiniteSet(new) /\ Cardinality(new) = rows[r].bytes
  <2>1. /\ rows[r].bytes \in Int /\ 1 \in Int /\ rows[r].bytes - 1 + 1 = rows[r].bytes
        /\ 1 > rows[r].bytes => rows[r].bytes = 0
    OBVIOUS
  <2>2. IsFiniteSet(1 .. rows[r].bytes) /\ Cardinality(1 .. rows[r].bytes) = rows[r].bytes
    BY <2>1, FS_Interval
  <2>3. IsFiniteSet({r}) /\ Cardinality({r}) = 1
    BY FS_Singleton
  <2>4. Cardinality(new) = Cardinality({r}) * Cardinality(1 .. rows[r].bytes)
    BY <2>2, <2>3, FS_Product
  <2>5. IsFiniteSet(new)
    BY <2>2, <2>3, FS_Product
  <2>6. QED
    BY <2>2, <2>3, <2>4, <2>5
<1> HIDE DEF new
<1>4. Cardinality(Counted(rows, S)) \in Nat /\ Cardinality({}) = 0
  BY FS_EmptySet, FS_CardinalityType
<1>5. /\ IsFiniteSet(Counted(rows, S) \cup new)
      /\ Cardinality(Counted(rows, S) \cup new)
           = Cardinality(Counted(rows, S)) + Cardinality(new)
               - Cardinality(Counted(rows, S) \cap new)
  BY <1>3, FS_Union
<1>6. QED
  BY <1>1, <1>2, <1>3, <1>4, <1>5

\* Among the subsets of a finite set, those that break a rule have a smallest.
LEMMA SmallestSubset ==
  ASSUME NEW S, IsFiniteSet(S), NEW Bad \in SUBSET (SUBSET S), Bad # {}
  PROVE  \E T \in Bad : \A r \in T : T \ {r} \notin Bad
<1>1. \A T \in SUBSET S : IsFiniteSet(T) /\ Cardinality(T) \in Nat
  BY FS_Subset, FS_CardinalityType
<1>2. PICK Counts : Counts = {Cardinality(T) : T \in Bad}
  OBVIOUS
<1>3. Counts \in SUBSET Nat /\ Counts # {}
  BY <1>1, <1>2
<1>4. PICK n \in Counts : \A m \in Counts : n <= m
  BY <1>3, FirstExists
<1>5. PICK T \in Bad : n = Cardinality(T)
  BY <1>2, <1>4
<1>6. ASSUME NEW r \in T, T \ {r} \in Bad
      PROVE  FALSE
  <2>1. Cardinality(T \ {r}) \in Counts
    BY <1>2, <1>6
  <2>2. n \in Nat /\ Cardinality(T \ {r}) = n - 1
    BY <1>1, <1>5, FS_RemoveElement
  <2>3. QED
    BY <1>4, <2>1, <2>2
<1>7. QED
  BY <1>6

LEMMA CountedFinite ==
  ASSUME NEW rows, NEW S, IsFiniteSet(S), \A r \in S : rows[r].bytes \in Nat
  PROVE  \A T \in SUBSET S :
           /\ IsFiniteSet(Counted(rows, T))
           /\ T = {} => Cardinality(Counted(rows, T)) = 0
           /\ \A r \in T : Cardinality(Counted(rows, T))
                             = rows[r].bytes + Cardinality(Counted(rows, T \ {r}))
<1>1. Counted(rows, {}) = {}
  BY DEF Counted
<1>2. ASSUME NEW T \in SUBSET S, NEW r \in T, IsFiniteSet(Counted(rows, T \ {r}))
      PROVE  /\ IsFiniteSet(Counted(rows, T))
             /\ Cardinality(Counted(rows, T))
                  = rows[r].bytes + Cardinality(Counted(rows, T \ {r}))
  <2>1. T = (T \ {r}) \cup {r} /\ r \notin (T \ {r}) /\ rows[r].bytes \in Nat
    OBVIOUS
  <2>2. QED
    BY Zenon, <1>2, <2>1, CountedGrows
<1>3. PICK Bad : Bad = {T \in SUBSET S : ~IsFiniteSet(Counted(rows, T))}
  OBVIOUS
<1>4. Bad = {}
  <2>1. SUFFICES ASSUME Bad # {} PROVE FALSE
    OBVIOUS
  <2>2. PICK T \in Bad : \A r \in T : T \ {r} \notin Bad
    BY <1>3, <2>1, SmallestSubset
  <2>3. T # {} /\ \A r \in T : IsFiniteSet(Counted(rows, T \ {r}))
    BY <1>1, <1>3, <2>2, FS_EmptySet
  <2>4. QED
    BY <1>2, <1>3, <2>2, <2>3
<1>5. QED
  BY <1>1, <1>2, <1>3, <1>4, FS_EmptySet

\* What the sum of the library's recursion is.
Sums(f, rows, S) ==
  f = [T \in SUBSET S |->
         IF T = {} THEN 0
         ELSE LET r == CHOOSE q \in T : TRUE IN rows[r].bytes + f[T \ {r}]]

LEMMA SumsAgree ==
  ASSUME NEW rows, NEW S, IsFiniteSet(S), NEW f, NEW g, Sums(f, rows, S), Sums(g, rows, S)
  PROVE  f = g
<1>1. PICK Bad : Bad = {T \in SUBSET S : f[T] # g[T]}
  OBVIOUS
<1>2. Bad = {}
  <2>1. SUFFICES ASSUME Bad # {} PROVE FALSE
    OBVIOUS
  <2>2. PICK T \in Bad : \A r \in T : T \ {r} \notin Bad
    BY <1>1, <2>1, SmallestSubset
  <2>3. PICK r : r = CHOOSE q \in T : TRUE
    OBVIOUS
  <2>4. T # {} => f[T \ {r}] = g[T \ {r}]
    BY <1>1, <2>2, <2>3
  <2>5. /\ f[T] = IF T = {} THEN 0 ELSE rows[r].bytes + f[T \ {r}]
        /\ g[T] = IF T = {} THEN 0 ELSE rows[r].bytes + g[T \ {r}]
    BY <1>1, <2>2, <2>3 DEF Sums
  <2>6. QED
    BY <1>1, <2>2, <2>4, <2>5
<1>3. QED
  BY <1>1, <1>2 DEF Sums

LEMMA BytesCounted ==
  ASSUME NEW rows, NEW S, IsFiniteSet(S), \A r \in S : rows[r].bytes \in Nat
  PROVE  Bytes(rows, S) = Cardinality(Counted(rows, S))
<1>1. PICK g : g = [T \in SUBSET S |-> Cardinality(Counted(rows, T))]
  OBVIOUS
<1>2. Sums(g, rows, S)
  <2>1. ASSUME NEW T \in SUBSET S
        PROVE  g[T] = IF T = {} THEN 0
                      ELSE LET r == CHOOSE q \in T : TRUE IN rows[r].bytes + g[T \ {r}]
    <3>1. PICK r : r = CHOOSE q \in T : TRUE
      OBVIOUS
    <3>2. /\ T = {} => g[T] = 0
          /\ \A q \in T : g[T] = rows[q].bytes + Cardinality(Counted(rows, T \ {q}))
      BY <1>1, CountedFinite
    <3>3. \A q \in T : g[T \ {q}] = Cardinality(Counted(rows, T \ {q}))
      BY <1>1
    <3>4. T # {} => r \in T
      BY <3>1
    <3>5. QED
      BY <3>1, <3>2, <3>3, <3>4
  <2>2. QED
    BY <1>1, <2>1 DEF Sums
<1>3. Bytes(rows, S) = (CHOOSE f : Sums(f, rows, S))[S]
  BY DEF Bytes, MapThenSumSet, MapThenFoldSet, Sums
<1>4. QED
  BY <1>1, <1>2, <1>3, SumsAgree

\* The bytes of requests are told by the sizes of the requests.
LEMMA SameBytes ==
  ASSUME NEW old, NEW new, NEW S, IsFiniteSet(S),
         \A q \in S : old[q].bytes \in Nat /\ new[q].bytes = old[q].bytes
  PROVE  Bytes(new, S) = Bytes(old, S)
<1>1. Counted(new, S) = Counted(old, S)
  BY DEF Counted
<1>2. QED
  BY <1>1, BytesCounted

\* One request more brings its bytes, and the others keep theirs.
LEMMA BytesOfOneMore ==
  ASSUME NEW old, NEW new, NEW S, IsFiniteSet(S), NEW r, r \notin S, new[r].bytes \in Nat,
         \A q \in S : old[q].bytes \in Nat /\ new[q].bytes = old[q].bytes
  PROVE  Bytes(new, S \cup {r}) = new[r].bytes + Bytes(old, S)
<1>1. Counted(new, S) = Counted(old, S)
  BY DEF Counted
<1>2. /\ IsFiniteSet(S \cup {r})
      /\ \A q \in S \cup {r} : new[q].bytes \in Nat
  BY FS_AddElement
<1>3. /\ Bytes(old, S) = Cardinality(Counted(old, S))
      /\ Bytes(new, S \cup {r}) = Cardinality(Counted(new, S \cup {r}))
  BY <1>2, BytesCounted
<1>4. IsFiniteSet(Counted(new, S))
  BY CountedFinite
<1>5. Cardinality(Counted(new, S \cup {r})) = new[r].bytes + Cardinality(Counted(new, S))
  BY <1>4, CountedGrows
<1>6. QED
  BY <1>1, <1>3, <1>5

----------------------------------------------------------------------------
(* What the queue does to the row of a batch *)

CallTimesNat ==
  \A now \in CallTimes : now \in Nat /\ now <= clock

LEMMA CallTimesBound ==
  ASSUME RowsTypeOK
  PROVE  CallTimesNat
BY DEF CallTimesNat, CallTimes, RowsTypeOK

\* An attempt leaves a trace in the row: started_at, or a retry.
RunningStarted ==
  \A b \in BatchJobs : jobs[b].status = "in_progress" => jobs[b].started

AbsentUnstarted == \A b \in BatchJobs : ~Exists(b) => ~jobs[b].started

\* The queue moves a batch only forward: it keeps its review, does not come out
\* of nothing, and a batch that collects after the step collected before it.
Forward(b) ==
  /\ jobs'[b].review = jobs[b].review
  /\ Exists(b)' <=> Exists(b)
  /\ ~Exists(b) => jobs'[b] = jobs[b]
  /\ jobs[b].started => jobs'[b].started
  /\ jobs'[b].status = "in_progress" => jobs'[b].started
  /\ Collecting(b)' => jobs'[b] = jobs[b]

LEMMA LeaseLostType ==
  ASSUME NEW row \in Job, NEW now \in Nat, row.status = "in_progress"
  PROVE  /\ LeaseLost(row, now) \in Job
         /\ LeaseLost(row, now).status \in {"queued", "settled"}
         /\ LeaseLost(row, now).retryCount # 0
         /\ LeaseLost(row, now).review = row.review
         /\ LeaseLost(row, now).started = row.started
<1>1. row.retryCount + 1 \in Nat /\ row.retryCount + 1 # 0
  BY DEF Job
<1>2. QED
  BY <1>1 DEF LeaseLost, Job, JobStatus

LEMMA SubmitLocalForward ==
  ASSUME RowsTypeOK, RunningStarted, NEW r \in Locals, SubmitLocal(r)
  PROVE  jobs' \in [Jobs -> Job] /\ \A b \in BatchJobs : jobs'[b] = jobs[b]
BY JobNames DEF SubmitLocal, RowsTypeOK, NoJob, Job, JobStatus

LEMMA ExpireForward ==
  ASSUME RowsTypeOK, RunningStarted, NEW j \in Jobs, Expire(j)
  PROVE  jobs' \in [Jobs -> Job] /\ \A b \in BatchJobs : Forward(b)
BY JobNames DEF Expire, RowsTypeOK, RunningStarted, Forward, Exists, Collecting, Job,
   JobStatus

LEMMA AttemptEndsForward ==
  ASSUME RowsTypeOK, RunningStarted, NEW j \in Jobs, AttemptEnds(j)
  PROVE  jobs' \in [Jobs -> Job] /\ \A b \in BatchJobs : Forward(b)
<1>1. /\ jobs \in [Jobs -> Job] /\ jobs[j].status = "in_progress"
      /\ jobs[j].retryCount \in Nat /\ clock \in Nat
      /\ BatchJobs \subseteq Jobs
  BY JobNames DEF RowsTypeOK, AttemptEnds, Settle, Retry, Release, Job
<1>2. CASE Settle(j)
  BY <1>1, <1>2 DEF Settle, RunningStarted, Forward, Exists, Collecting, Job, JobStatus
<1>3. CASE Retry(j)
  <2>1. PICK delay \in 0..Backoff :
          jobs' = [jobs EXCEPT ![j].status = "queued", ![j].retryCount = @ + 1,
                               ![j].availableAt = clock + delay]
    BY <1>3 DEF Retry
  <2>2. /\ clock + delay \in Nat /\ jobs[j].retryCount + 1 \in Nat
        /\ jobs[j].retryCount + 1 # 0
    BY <1>1, BatchAssumption
  <2>3. QED
    BY <1>1, <2>1, <2>2
       DEF RunningStarted, Forward, Exists, Collecting, Job, JobStatus
<1>4. CASE Release(j)
  BY <1>1, <1>4 DEF Release, RunningStarted, Forward, Exists, Collecting, Job,
     JobStatus
<1>5. QED
  BY <1>2, <1>3, <1>4 DEF AttemptEnds

----------------------------------------------------------------------------
(* Parts of the invariants of both admissions *)

UnsavedClean ==
  \A r \in Requests :
    ~Saved(r) => requests[r].job = None /\ ~requests[r].admitted

CountLimit ==
  \A b \in BatchJobs :
    /\ IsFiniteSet(Members(requests, b))
    /\ Cardinality(Members(requests, b)) <= MaxBatchRequests

BytesLimit ==
  \A b \in BatchJobs :
    Cardinality(Members(requests, b)) > 1
      => Bytes(requests, Members(requests, b)) <= MaxBatchBytes

LEMMA BothLimits == CountLimit /\ BytesLimit => BatchLimits
BY DEF CountLimit, BytesLimit, BatchLimits

\* A request that joins a batch without breaking its limits leaves them kept.
LEMMA JoinKeepsBytes ==
  ASSUME NEW old, NEW new, NEW r, NEW S, r \notin S, IsFiniteSet(S),
         \A q \in S : old[q].bytes \in Nat /\ new[q].bytes = old[q].bytes,
         new[r].bytes \in Nat,
         S # {} => new[r].bytes + Bytes(old, S) <= MaxBatchBytes,
         Cardinality(S \cup {r}) > 1
  PROVE  Bytes(new, S \cup {r}) <= MaxBatchBytes
<1>1. S = {} => S \cup {r} = {r}
  OBVIOUS
<1>2. Cardinality({r}) = 1
  BY FS_Singleton
<1>3. Bytes(new, S \cup {r}) = new[r].bytes + Bytes(old, S)
  BY  BytesOfOneMore
<1>4. QED
  BY <1>1, <1>2, <1>3

----------------------------------------------------------------------------
(* The promise about batches *)

\* The batch of a request, and whether a batch has been claimed, as the abstract
\* specification sees them.
OwnerOf(r) == IF requests[r].job \in BatchJobs THEN requests[r].job ELSE None

StartedOf(b) == jobs[b].started

\* The abstract steps in terms of the rows.
LEMMA AbstractSteps ==
  ASSUME \/ /\ \A r \in Requests : OwnerOf(r)' = OwnerOf(r)
            /\ \A b \in BatchJobs : StartedOf(b)' = StartedOf(b)
         \/ \E b \in BatchJobs :
              /\ ~StartedOf(b) /\ StartedOf(b)' = TRUE
              /\ \E r \in Requests : OwnerOf(r) = b
              /\ \A c \in BatchJobs : c # b => StartedOf(c)' = StartedOf(c)
              /\ \A r \in Requests : OwnerOf(r)' = OwnerOf(r)
         \/ \E b \in BatchJobs, r \in Requests :
              /\ ~StartedOf(b) /\ OwnerOf(r) = None /\ OwnerOf(r)' = b
              /\ \A q \in Requests : q # r => OwnerOf(q)' = OwnerOf(q)
              /\ \A c \in BatchJobs : StartedOf(c)' = StartedOf(c)
  PROVE  [Batches!Next]_(Batches!batchVars)
<1> DEFINE owner == [r \in Requests |-> OwnerOf(r)]
           started == [b \in BatchJobs |-> StartedOf(b)]
           owner2 == [r \in Requests |-> OwnerOf(r)']
           started2 == [b \in BatchJobs |-> StartedOf(b)']
<1>1. /\ \A r \in Requests : owner[r] = OwnerOf(r) /\ owner2[r] = OwnerOf(r)'
      /\ \A b \in BatchJobs : started[b] = StartedOf(b) /\ started2[b] = StartedOf(b)'
  OBVIOUS
<1>2. SUFFICES \/ owner2 = owner /\ started2 = started
               \/ \E b \in BatchJobs :
                    \/ /\ ~started[b] /\ \E r \in Requests : owner[r] = b
                       /\ started2 = [started EXCEPT ![b] = TRUE] /\ owner2 = owner
                    \/ \E r \in Requests :
                         /\ owner[r] = None /\ ~started[b]
                         /\ owner2 = [owner EXCEPT ![r] = b] /\ started2 = started
  BY DEF Batches!Next, Batches!Start, Batches!Join, Batches!batchVars, OwnerOf, StartedOf
<1>3. CASE /\ \A r \in Requests : OwnerOf(r)' = OwnerOf(r)
           /\ \A b \in BatchJobs : StartedOf(b)' = StartedOf(b)
  BY <1>3
<1>4. ASSUME NEW b \in BatchJobs,
             ~StartedOf(b) /\ StartedOf(b)' = TRUE,
             \E r \in Requests : OwnerOf(r) = b,
             \A c \in BatchJobs : c # b => StartedOf(c)' = StartedOf(c),
             \A r \in Requests : OwnerOf(r)' = OwnerOf(r)
      PROVE  /\ ~started[b] /\ \E r \in Requests : owner[r] = b
             /\ started2 = [started EXCEPT ![b] = TRUE] /\ owner2 = owner
  BY <1>4
<1>5. ASSUME NEW b \in BatchJobs, NEW r \in Requests,
             ~StartedOf(b) /\ OwnerOf(r) = None /\ OwnerOf(r)' = b,
             \A q \in Requests : q # r => OwnerOf(q)' = OwnerOf(q),
             \A c \in BatchJobs : StartedOf(c)' = StartedOf(c)
      PROVE  /\ owner[r] = None /\ ~started[b]
             /\ owner2 = [owner EXCEPT ![r] = b] /\ started2 = started
  BY <1>5
<1> HIDE DEF owner, owner2, started, started2
<1>6. QED
  BY <1>3, <1>4, <1>5

=============================================================================
