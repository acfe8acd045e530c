---------------------------- MODULE RecordProofs ----------------------------
(***************************************************************************)
(* Proofs about records that outlive the process that wrote them.  The     *)
(* adapter for storages without transactions keeps a job and its runs in   *)
(* step by reconciliation, a page of jobs in every poll; a watch reads the *)
(* job, its runs and their logs while others write them; a database of an  *)
(* older version is brought up to date by processes that may die meanwhile.*)
(***************************************************************************)
EXTENDS SingleWorkerRuns, ReviewWatch, SchemaMigrations, FiniteSetTheorems, SequenceTheorems,
        WellFoundedInduction, TLAPS

-----------------------------------------------------------------------------
(* The reconciliation of the adapter without transactions *)

\* A non-empty set of naturals has a first one.
LEMMA FirstNumber ==
  ASSUME NEW S \in SUBSET Nat, S # {}
  PROVE  \E m \in S : \A n \in S : m <= n
<1> DEFINE Less == {ss \in Nat \X Nat : ss[1] < ss[2]}
<1>1. IsWellFoundedOn(Less, Nat)
  BY NatLessThanWellFounded DEF OpToRel
<1>2. \A m, n \in Nat : <<n, m>> \in Less <=> n < m
  OBVIOUS
<1> HIDE DEF Less
<1>3. PICK m \in S : \A n \in S : ~(<<n, m>> \in Less)
  BY <1>1, WFMin
<1>4. m \in Nat /\ \A n \in S : n \in Nat /\ ~(n < m)
  BY Zenon, <1>2, <1>3
<1>5. \A n \in S : m <= n
  BY <1>4
<1>6. QED
  BY <1>5

Leading(U, Y, n) ==
  /\ Y \subseteq U /\ Cardinality(Y) = n
  /\ \A y \in Y, x \in U \ Y : y < x

\* A finite set of naturals has a first part of every size: a size without one
\* would have a least.
LEMMA LeadingPart ==
  ASSUME NEW U \in SUBSET Nat, IsFiniteSet(U), NEW n \in 0 .. Cardinality(U)
  PROVE  \E Y : Leading(U, Y, n)
<1> DEFINE Bad == {m \in 0 .. Cardinality(U) : ~\E Y : Leading(U, Y, m)}
<1>1. Cardinality(U) \in Nat
  BY FS_CardinalityType
<1>2. Bad = {}
  <2>1. SUFFICES ASSUME Bad # {} PROVE FALSE
    OBVIOUS
  <2>2. PICK m \in Bad : \A l \in Bad : m <= l
    <3>1. Bad \in SUBSET Nat
      BY <1>1
    <3>2. QED
      BY <2>1, <3>1, FirstNumber
  <2>3. m \in 0 .. Cardinality(U) /\ ~\E Y : Leading(U, Y, m)
    OBVIOUS
  <2>4. m # 0
    <3>1. Leading(U, {}, 0)
      BY FS_EmptySet DEF Leading
    <3>2. QED
      BY <2>3, <3>1
  <2>5. m - 1 \in 0 .. Cardinality(U) /\ ~(m <= m - 1)
    BY <1>1, <2>3, <2>4
  <2>6. m - 1 \notin Bad
    BY <2>2, <2>5
  <2>7. PICK Y : Leading(U, Y, m - 1)
    BY <2>5, <2>6
  <2> HIDE DEF Bad
  <2>8. Y \subseteq U /\ IsFiniteSet(Y) /\ Cardinality(Y) = m - 1
    BY <2>7, FS_Subset DEF Leading
  <2>9. U \ Y # {}
    <3>1. ASSUME U \ Y = {} PROVE FALSE
      <4>1. U = Y
        BY <2>8, <3>1
      <4>2. QED
        BY <1>1, <2>3, <2>8, <4>1
    <3>2. QED
      BY <3>1
  <2>10. PICK x \in U \ Y : \A z \in U \ Y : x <= z
    BY <2>9, FirstNumber
  <2>11. PICK W : W = Y \cup {x}
    OBVIOUS
  <2>12. Cardinality(W) = m
    <3>1. x \notin Y /\ Cardinality(W) = Cardinality(Y) + 1
      BY <2>8, <2>10, <2>11, FS_AddElement
    <3>2. QED
      BY <1>1, <2>3, <2>8, <3>1
  <2>13. \A y \in W, z \in U \ W : y < z
    BY <2>7, <2>10, <2>11 DEF Leading
  <2>14. Leading(U, W, m)
    BY <2>8, <2>10, <2>11, <2>12, <2>13 DEF Leading
  <2>15. QED
    BY <2>3, <2>14
<1>3. QED
  BY <1>2

Rank(U, j) == Cardinality({k \in U : k < j})

LEMMA RankIsNumber ==
  ASSUME NEW U \in SUBSET Nat, IsFiniteSet(U), NEW j \in U
  PROVE  Rank(U, j) \in Nat /\ Rank(U, j) < Cardinality(U)
<1>1. {k \in U : k < j} \in SUBSET U /\ {k \in U : k < j} # U
  OBVIOUS
<1>2. QED
  BY <1>1, FS_Subset, FS_CardinalityType DEF Rank

\* So that many elements have a rank below a number.
LEMMA RanksBelow ==
  ASSUME NEW U \in SUBSET Nat, IsFiniteSet(U), NEW n \in 0 .. Cardinality(U)
  PROVE  Cardinality({j \in U : Rank(U, j) < n}) = n
<1>1. PICK Y : Leading(U, Y, n)
  BY LeadingPart
<1>2. Y \subseteq U /\ IsFiniteSet(Y) /\ Cardinality(Y) = n
  BY <1>1, FS_Subset DEF Leading
<1>3. n \in Nat
  BY FS_CardinalityType
<1>4. ASSUME NEW j \in Y
      PROVE  Rank(U, j) < n
  <2>1. PICK Z : Z = {k \in U : k < j}
    OBVIOUS
  <2>2. Z \in SUBSET (Y \ {j})
    <3>1. ASSUME NEW k \in Z PROVE k \in Y /\ k # j
      <4>1. k \in U /\ k < j /\ k \in Nat /\ j \in Nat
        BY <1>2, <2>1
      <4>2. \A x \in U \ Y : j < x
        BY <1>1 DEF Leading
      <4>3. QED
        BY <4>1, <4>2
    <3>2. QED
      BY <3>1
  <2>3. IsFiniteSet(Y \ {j}) /\ Cardinality(Y \ {j}) = n - 1
    BY <1>2, <1>4, FS_RemoveElement
  <2>4. Cardinality(Z) \in Nat /\ Cardinality(Z) <= n - 1
    BY <2>2, <2>3, FS_Subset, FS_CardinalityType
  <2>5. QED
    BY <1>3, <2>1, <2>4 DEF Rank
<1>5. ASSUME NEW j \in U \ Y
      PROVE  ~(Rank(U, j) < n)
  <2>1. PICK Z : Z = {k \in U : k < j}
    OBVIOUS
  <2>2. Y \in SUBSET Z /\ Z \in SUBSET U
    BY <1>1, <1>2, <1>5, <2>1 DEF Leading
  <2>3. IsFiniteSet(Z)
    BY <2>2, FS_Subset
  <2>4. Cardinality(Z) \in Nat /\ n <= Cardinality(Z)
    BY <1>2, <2>2, <2>3, FS_Subset, FS_CardinalityType
  <2>5. QED
    BY <1>3, <2>1, <2>4 DEF Rank
<1>6. {j \in U : Rank(U, j) < n} = Y
  BY <1>2, <1>4, <1>5
<1>7. QED
  BY <1>2, <1>6

\* Pages: the quotient of a rank tells its page.
LEMMA Quotient ==
  ASSUME NEW a \in Nat, NEW b \in Nat \ {0}
  PROVE  /\ a \div b \in Nat
         /\ b * (a \div b) <= a /\ a < b * ((a \div b) + 1)
OBVIOUS

LEMMA TimesOrdered ==
  ASSUME NEW a \in Nat, NEW b \in Nat, NEW c \in Nat, a <= b
  PROVE  c * a \in Nat /\ c * b \in Nat /\ c * a <= c * b
OBVIOUS

LEMMA QuotientIsPage ==
  ASSUME NEW a \in Nat, NEW b \in Nat \ {0}, NEW q \in Nat
  PROVE  /\ b * q <= a => q <= a \div b
         /\ a < b * (q + 1) => a \div b <= q
<1>1. /\ a \div b \in Nat
      /\ b * (a \div b) <= a /\ a < b * ((a \div b) + 1)
  BY Quotient
<1>2. PICK d \in Nat : d = a \div b
  BY <1>1
<1>3. b * d <= a /\ a < b * (d + 1)
  BY <1>1, <1>2
<1>4. ASSUME b * q <= a PROVE q <= d
  <2>1. SUFFICES ASSUME d + 1 <= q PROVE FALSE
    BY <1>2
  <2>2. b * (d + 1) <= b * q /\ b * (d + 1) \in Nat /\ b * q \in Nat
    BY <2>1, TimesOrdered
  <2>3. QED
    BY <1>3, <1>4, <2>2
<1>5. ASSUME a < b * (q + 1) PROVE d <= q
  <2>1. SUFFICES ASSUME q + 1 <= d PROVE FALSE
    BY <1>2
  <2>2. b * (q + 1) <= b * d /\ b * d \in Nat /\ b * (q + 1) \in Nat
    BY <2>1, TimesOrdered
  <2>3. QED
    BY <1>3, <1>5, <2>2
<1>6. QED
  BY <1>2, <1>4, <1>5

PageAt(U, s) == {j \in U : ScanSize * (s - 1) <= Rank(U, j) /\ Rank(U, j) < ScanSize * s}
PagesOf(U) == (Cardinality(U) \div ScanSize) + 1
PageNo(U, j) == (Rank(U, j) \div ScanSize) + 1

LEMMA PageNumbers ==
  ASSUME NEW U \in SUBSET Nat, IsFiniteSet(U), NEW j \in U
  PROVE  /\ PagesOf(U) \in Nat /\ PageNo(U, j) \in 1 .. PagesOf(U)
         /\ \A s \in Nat \ {0} : j \in PageAt(U, s) <=> s = PageNo(U, j)
<1>1. ScanSize \in Nat \ {0} /\ Cardinality(U) \in Nat
  BY FS_CardinalityType, WorkAssumption
<1>2. PICK r \in Nat : r = Rank(U, j) /\ r < Cardinality(U)
  BY RankIsNumber
<1>3. PICK q \in Nat : q = r \div ScanSize /\ ScanSize * q <= r /\ r < ScanSize * (q + 1)
  BY <1>1, <1>2, Quotient
<1>4. PICK p \in Nat : p = Cardinality(U) \div ScanSize
  BY <1>1, Quotient
<1>5. q <= p
  <2>1. ScanSize * q <= Cardinality(U) /\ ScanSize * q \in Nat
    BY <1>1, <1>2, <1>3
  <2>2. QED
    BY <1>1, <1>4, <2>1, QuotientIsPage
<1>6. ASSUME NEW s \in Nat \ {0}
      PROVE  j \in PageAt(U, s) <=> s = q + 1
  <2>1. j \in PageAt(U, s) <=> ScanSize * (s - 1) <= r /\ r < ScanSize * s
    BY <1>2 DEF PageAt
  <2>2. PICK t \in Nat : t = s - 1
    BY <1>6
  <2>3. ASSUME ScanSize * t <= r /\ r < ScanSize * (t + 1)
        PROVE  t = q
    BY <1>1, <1>3, <2>3, QuotientIsPage
  <2>4. s = t + 1
    BY <2>2
  <2>5. QED
    BY <1>3, <2>1, <2>2, <2>3, <2>4
<1>7. QED
  BY <1>2, <1>3, <1>4, <1>5, <1>6 DEF PageNo, PagesOf

\* A page that is followed by another is full, and the last one is not.
LEMMA PageSizes ==
  ASSUME NEW U \in SUBSET Nat, IsFiniteSet(U), NEW s \in Nat \ {0}
  PROVE  Cardinality(PageAt(U, s)) < ScanSize <=> ~(s < PagesOf(U))
<1>1. ScanSize \in Nat \ {0} /\ Cardinality(U) \in Nat
  BY FS_CardinalityType, WorkAssumption
<1>2. PICK p \in Nat : /\ p = Cardinality(U) \div ScanSize /\ ScanSize * p <= Cardinality(U)
                       /\ Cardinality(U) < ScanSize * (p + 1)
  BY <1>1, Quotient
<1>3. PagesOf(U) = p + 1
  BY <1>2 DEF PagesOf
<1>4. PICK t \in Nat : t = s - 1 /\ s = t + 1
  OBVIOUS
<1>5. PICK from \in Nat : from = ScanSize * t
  BY <1>1
<1>6. ScanSize * s = from + ScanSize
  BY <1>1, <1>4, <1>5
<1>7. \A j \in U : Rank(U, j) \in Nat /\ Rank(U, j) < Cardinality(U)
  BY RankIsNumber
<1>8. PageAt(U, s) = {j \in U : from <= Rank(U, j) /\ Rank(U, j) < from + ScanSize}
  BY <1>4, <1>5, <1>6 DEF PageAt
<1>9. CASE s < p + 1
  <2>1. from + ScanSize <= Cardinality(U)
    <3>1. ScanSize * s <= ScanSize * p /\ ScanSize * p \in Nat /\ ScanSize * s \in Nat
      BY <1>1, <1>9, TimesOrdered
    <3>2. QED
      BY <1>1, <1>2, <1>6, <3>1
  <2>2. PICK A : A = {j \in U : Rank(U, j) < from}
    OBVIOUS
  <2>3. PICK B : B = {j \in U : Rank(U, j) < from + ScanSize}
    OBVIOUS
  <2>4. from \in 0 .. Cardinality(U) /\ from + ScanSize \in 0 .. Cardinality(U)
    BY <1>1, <2>1
  <2>5. Cardinality(A) = from /\ Cardinality(B) = from + ScanSize
    BY <2>2, <2>3, <2>4, RanksBelow
  <2>6. ASSUME NEW j \in U
        PROVE  (j \in A => j \in B) /\ (j \in PageAt(U, s) <=> j \in B /\ j \notin A)
    <3>1. PICK r \in Nat : r = Rank(U, j)
      BY <1>7
    <3>2. /\ j \in A <=> r < from
          /\ j \in B <=> r < from + ScanSize
          /\ j \in PageAt(U, s) <=> from <= r /\ r < from + ScanSize
      BY <1>8, <2>2, <2>3, <3>1
    <3>3. QED
      BY <1>1, <3>2
  <2>7. B \cap A = A /\ PageAt(U, s) = B \ A
    <3>1. A \subseteq U /\ B \subseteq U /\ PageAt(U, s) \subseteq U
      BY <2>2, <2>3 DEF PageAt
    <3>2. QED
      BY Zenon, <2>6, <3>1
  <2>8. IsFiniteSet(B)
    BY <2>3, FS_Subset
  <2>9. Cardinality(B \ A) = Cardinality(B) - Cardinality(A)
    BY <2>7, <2>8, FS_Difference
  <2>10. QED
    BY <1>1, <1>3, <1>9, <2>5, <2>7, <2>9
<1>10. CASE s = p + 1
  <2>1. from <= Cardinality(U) /\ Cardinality(U) < from + ScanSize
    BY <1>1, <1>2, <1>4, <1>5, <1>6, <1>10
  <2>2. PICK A : A = {j \in U : Rank(U, j) < from}
    OBVIOUS
  <2>3. Cardinality(A) = from
    BY <2>1, <2>2, RanksBelow
  <2>4. ASSUME NEW j \in PageAt(U, s)
        PROVE  j \in U \ A
    <3>1. j \in U
      BY <1>8
    <3>2. PICK r \in Nat : r = Rank(U, j)
      BY <1>7, <3>1
    <3>3. from <= r /\ (j \in A <=> r < from)
      BY <1>8, <2>2, <3>1, <3>2
    <3>4. QED
      BY <3>1, <3>3
  <2>5. A = U \cap A
    BY <2>2
  <2>6. IsFiniteSet(U \ A) /\ Cardinality(U \ A) = Cardinality(U) - from
    BY <2>3, <2>5, FS_Difference
  <2>7. Cardinality(PageAt(U, s)) \in Nat /\ Cardinality(PageAt(U, s)) <= Cardinality(U) - from
    BY <2>4, <2>6, FS_Subset, FS_CardinalityType
  <2>8. QED
    BY <1>1, <1>3, <1>10, <2>1, <2>7
<1>11. CASE p + 1 < s
  <2>1. ScanSize * (p + 1) <= from /\ ScanSize * (p + 1) \in Nat
    BY <1>1, <1>4, <1>5, <1>11, TimesOrdered
  <2>2. Cardinality(U) <= from
    BY <1>1, <1>2, <2>1
  <2>3. ASSUME NEW j \in PageAt(U, s)
        PROVE  FALSE
    <3>1. j \in U
      BY <1>8
    <3>2. PICK r \in Nat : r = Rank(U, j) /\ r < Cardinality(U)
      BY <1>7, <3>1
    <3>3. from <= r
      BY <1>8, <3>1, <3>2
    <3>4. QED
      BY <1>1, <2>2, <3>2, <3>3
  <2>4. QED
    <3>1. PageAt(U, s) = {}
      BY <2>3
    <3>2. QED
      BY <1>1, <1>3, <1>11, <3>1, FS_EmptySet
<1>12. QED
  BY <1>9, <1>10, <1>11

\* The reads of a page before the one that shows a job.
UntilAt(U, s, j) ==
  IF s <= PageNo(U, j) THEN PageNo(U, j) - s
  ELSE IF s <= PagesOf(U) THEN (PagesOf(U) - s) + PageNo(U, j)
  ELSE PageNo(U, j)

\* There are fewer than there are rounds, and one less while the next page is
\* one that exists.
LEMMA RoundsAreEnough ==
  ASSUME NEW U \in SUBSET WorkJobs, NEW s \in Nat \ {0}, NEW j \in U
  PROVE  /\ Rounds \in Nat /\ PagesOf(U) \in Nat /\ UntilAt(U, s, j) \in Nat
         /\ UntilAt(U, s, j) < Rounds
         /\ s <= PagesOf(U) => UntilAt(U, s, j) + 1 < Rounds
<1>1. /\ ScanSize \in Nat \ {0} /\ U \in SUBSET Nat /\ IsFiniteSet(U)
      /\ Cardinality(U) \in Nat /\ Cardinality(WorkJobs) \in Nat
      /\ Cardinality(U) <= Cardinality(WorkJobs)
  BY FS_Subset, FS_CardinalityType, WorkAssumption
<1>2. PICK p \in Nat : p = Cardinality(U) \div ScanSize /\ ScanSize * p <= Cardinality(U)
  BY <1>1, Quotient
<1>3. PICK q \in Nat : q = Cardinality(WorkJobs) \div ScanSize
  BY <1>1, Quotient
<1>4. p <= q
  <2>1. ScanSize * p \in Nat /\ ScanSize * p <= Cardinality(WorkJobs)
    BY <1>1, <1>2
  <2>2. QED
    BY <1>1, <1>2, <1>3, <2>1, QuotientIsPage
<1>5. PagesOf(U) = p + 1 /\ Rounds = q + 2
  BY <1>2, <1>3 DEF PagesOf, Rounds
<1>6. PICK n \in Nat : n = PageNo(U, j) /\ 1 <= n /\ n <= p + 1
  BY <1>1, <1>5, PageNumbers
<1>7. PICK u : u = UntilAt(U, s, j)
  OBVIOUS
<1>8. u = IF s <= n THEN n - s ELSE IF s <= p + 1 THEN (p + 1 - s) + n ELSE n
  BY <1>5, <1>6, <1>7 DEF UntilAt
<1>9. u \in Nat /\ u < q + 2 /\ (s <= p + 1 => u + 1 < q + 2)
  BY <1>4, <1>6, <1>8
<1>10. QED
  BY <1>5, <1>7, <1>9

\* A page that does not show the job brings it one nearer.
LEMMA PageBringsNearer ==
  ASSUME NEW U \in SUBSET WorkJobs, NEW s \in Nat \ {0},
         NEW t, t = IF Cardinality(PageAt(U, s)) < ScanSize THEN 1 ELSE s + 1
  PROVE  /\ t \in Nat \ {0} /\ t <= PagesOf(U)
         /\ \A j \in U : j \notin PageAt(U, s) => UntilAt(U, s, j) = UntilAt(U, t, j) + 1
<1>1. /\ ScanSize \in Nat \ {0} /\ U \in SUBSET Nat /\ IsFiniteSet(U) /\ Cardinality(U) \in Nat
  BY FS_Subset, FS_CardinalityType, WorkAssumption
<1>2. PICK p \in Nat : p + 1 = PagesOf(U)
  BY <1>1, Quotient DEF PagesOf
<1>3. t = IF ~(s < p + 1) THEN 1 ELSE s + 1
  BY <1>1, <1>2, PageSizes
<1>4. t \in Nat \ {0} /\ t <= p + 1
  BY <1>3
<1>5. ASSUME NEW j \in U, j \notin PageAt(U, s)
      PROVE  UntilAt(U, s, j) = UntilAt(U, t, j) + 1
  <2>1. PICK n \in Nat : n = PageNo(U, j) /\ 1 <= n /\ n <= p + 1 /\ s # n
    BY <1>1, <1>2, <1>5, PageNumbers
  <2>2. PICK a : a = IF s <= n THEN n - s ELSE IF s <= p + 1 THEN (p + 1 - s) + n ELSE n
    OBVIOUS
  <2>3. PICK b : b = IF t <= n THEN n - t ELSE IF t <= p + 1 THEN (p + 1 - t) + n ELSE n
    OBVIOUS
  <2>4. a = b + 1
    BY <1>3, <1>4, <2>1, <2>2, <2>3
  <2>5. UntilAt(U, s, j) = a /\ UntilAt(U, t, j) = b
    BY <1>2, <2>1, <2>2, <2>3 DEF UntilAt
  <2>6. QED
    BY <2>4, <2>5
<1>6. QED
  BY <1>2, <1>4, <1>5

\* The number of pages grows with the jobs.
LEMMA PagesGrow ==
  ASSUME NEW V \in SUBSET WorkJobs, NEW U \in SUBSET V
  PROVE  PagesOf(U) \in Nat /\ PagesOf(V) \in Nat /\ PagesOf(U) <= PagesOf(V)
<1>1. /\ ScanSize \in Nat \ {0} /\ Cardinality(U) \in Nat /\ Cardinality(V) \in Nat
      /\ Cardinality(U) <= Cardinality(V)
  BY FS_Subset, FS_CardinalityType, WorkAssumption
<1>2. PICK p \in Nat : p = Cardinality(U) \div ScanSize /\ ScanSize * p <= Cardinality(U)
  BY <1>1, Quotient
<1>3. PICK q \in Nat : q = Cardinality(V) \div ScanSize
  BY <1>1, Quotient
<1>4. ScanSize * p \in Nat /\ ScanSize * p <= Cardinality(V)
  BY <1>1, <1>2
<1>5. p <= q
  BY <1>1, <1>2, <1>3, <1>4, QuotientIsPage
<1>6. QED
  BY <1>2, <1>3, <1>5 DEF PagesOf

Pages == PagesOf(Uncompleted)
Until(j) == UntilAt(Uncompleted, scan, j)

WorkSpec == WorkInit /\ [][WorkNext]_workVars

Attempting == worker.step \in {"claimed", "half", "working", "replacing", "replaced", "completed", "failing"}
HasMadeRun == worker.step \in {"half", "working", "replacing", "replaced", "completed"}
HasNamedRun == worker.step \in {"working", "replacing", "replaced", "completed"}
HasAllFindings == worker.step \in {"replaced", "completed"}

\* A row of a job, and the run it names among the runs made.
GoodJob(j, row, among) ==
  /\ row = [status |-> row.status, token |-> row.token, latest |-> row.latest,
            retries |-> row.retries, live |-> row.live]
  /\ row.latest \in 0 .. Len(among)
  /\ row.latest # 0 => among[row.latest].job = j
  /\ row.status = "absent" => row.latest = 0

GoodRun(run) ==
  /\ run = [job |-> run.job, token |-> run.token, status |-> run.status, findings |-> run.findings]
  /\ run.job \in WorkJobs

QueueShape ==
  /\ queue = [j \in WorkJobs |-> queue[j]]
  /\ \A j \in WorkJobs : GoodJob(j, queue[j], made)

MadeShape ==
  /\ made \in Seq({made[r] : r \in DOMAIN made})
  /\ \A r \in DOMAIN made : GoodRun(made[r])

WorkerShape ==
  worker = [step |-> worker.step, job |-> worker.job, token |-> worker.token,
            todo |-> worker.todo, fixed |-> worker.fixed]

CountShape == scan \in Nat \ {0} /\ fruitless \in Nat

\* What an attempt knows of its job and of its run.
AttemptHolds ==
  /\ Attempting => /\ worker.job \in WorkJobs
                   /\ queue[worker.job].status = "in_progress"
                   /\ queue[worker.job].token = worker.token
  /\ HasMadeRun => Len(made) # 0 /\ made[Len(made)].job = worker.job
  /\ HasNamedRun => queue[worker.job].latest = Len(made)
  /\ HasAllFindings => made[Len(made)].findings = "all"
  /\ Step("completed") => made[Len(made)].status = "completed"

\* The runs of a page are of jobs that have not completed since.
PageHolds ==
  Step("page") => \A r \in worker.todo : r \in DOMAIN made /\ queue[made[r].job].status # "completed"

\* A run without a claim is to be looked at, or there is none.
OpenRun(r) == made[r].status = "in_progress" /\ Abandoned(r)
OpenRunsAreSeen ==
  /\ Step("orphans") => \A r \in DOMAIN made : OpenRun(r) => r \in worker.todo
  /\ Step("page") \/ fruitless > 0 => \A r \in DOMAIN made : ~OpenRun(r)

\* A job that needs mending is come to before the rounds are over.
PagesComeRound ==
  /\ Step("page") => scan <= Pages
  /\ \A j \in WorkJobs : Unmended(j) =>
       /\ ~Step("page") => fruitless + Until(j) < Rounds
       /\ Step("page") => /\ fruitless < Rounds
                          /\ queue[j].latest \notin worker.todo => fruitless + 1 + Until(j) < Rounds

WorkShape == QueueShape /\ MadeShape /\ WorkerShape /\ CountShape
WorkInv ==
  /\ WorkShape /\ AttemptHolds /\ PageHolds
  /\ CompletedWithFindings /\ OpenRunsAreSeen /\ PagesComeRound

LEMMA WorkBegins == WorkInit => WorkInv
<1> SUFFICES ASSUME WorkInit PROVE WorkInv
  OBVIOUS
<1>1. made = <<>> /\ Len(made) = 0 /\ DOMAIN made = {} /\ worker = Resting
      /\ scan = 1 /\ fruitless = 0
  BY DEF WorkInit
<1>2. queue = [j \in WorkJobs |-> NoJobRow] /\ \A j \in WorkJobs : queue[j] = NoJobRow
  BY DEF WorkInit
<1>3. QueueShape
  BY <1>1, <1>2 DEF QueueShape, GoodJob, NoJobRow, NoClaim
<1>4. MadeShape
  <2>1. <<>> \in Seq({made[r] : r \in DOMAIN made})
    OBVIOUS
  <2>2. QED
    BY Zenon, <1>1, <2>1 DEF MadeShape
<1>5. WorkerShape /\ CountShape
  BY <1>1 DEF WorkerShape, CountShape, Resting
<1>6. worker.step = "rest"
  BY <1>1 DEF Resting
<1>7. AttemptHolds /\ PageHolds
  BY <1>6 DEF AttemptHolds, PageHolds, Attempting, HasMadeRun, HasNamedRun, HasAllFindings, Step
<1>8. CompletedWithFindings /\ OpenRunsAreSeen
  BY <1>1, <1>2, <1>6 DEF CompletedWithFindings, OpenRunsAreSeen, NoJobRow, Step
<1>9. \A j \in WorkJobs : ~Unmended(j)
  BY <1>2 DEF Unmended, NoJobRow
<1>10. PagesComeRound
  BY <1>6, <1>9 DEF PagesComeRound, Step
<1> QED
  BY <1>3, <1>4, <1>5, <1>7, <1>8, <1>10 DEF WorkInv, WorkShape

\* One row of the queue is written.
LEMMA JobIsSet ==
  ASSUME QueueShape, NEW j \in WorkJobs, NEW row, SetJob(j, row)
  PROVE  /\ queue' = [k \in WorkJobs |-> queue'[k]]
         /\ \A k \in WorkJobs : queue'[k] = IF k = j THEN row ELSE queue[k]
<1>1. queue = [k \in WorkJobs |-> queue[k]]
  BY DEF QueueShape
<1>2. queue' = [queue EXCEPT ![j] = row]
  BY DEF SetJob
<1>3. queue' = [k \in WorkJobs |-> IF k = j THEN row ELSE queue[k]]
  BY <1>1, <1>2
<1>4. QED
  BY <1>3

LEMMA QueueIsKept ==
  ASSUME QueueShape, NEW j \in WorkJobs, NEW row, SetJob(j, row),
         GoodJob(j, row, made), made' = made
  PROVE  QueueShape'
<1>1. /\ queue' = [k \in WorkJobs |-> queue'[k]]
      /\ \A k \in WorkJobs : queue'[k] = IF k = j THEN row ELSE queue[k]
  BY JobIsSet
<1>2. \A k \in WorkJobs : GoodJob(k, queue'[k], made)
  BY <1>1 DEF QueueShape
<1>3. QED
  BY Zenon, <1>1, <1>2 DEF QueueShape

\* One run is written: it stays of its job and of its claim.
RunBecomes(r, row) == made' = [made EXCEPT ![r] = row]
SameRuns ==
  /\ Len(made') = Len(made) /\ DOMAIN made' = DOMAIN made
  /\ \A q \in DOMAIN made : made'[q].job = made[q].job /\ made'[q].token = made[q].token

LEMMA RunIsSet ==
  ASSUME MadeShape, NEW r, NEW row, RunBecomes(r, row),
         GoodRun(row), row.job = made[r].job, row.token = made[r].token
  PROVE  /\ MadeShape' /\ SameRuns
         /\ \A q \in DOMAIN made : made'[q] = IF q = r THEN row ELSE made[q]
<1>1. PICK S : S = {made[q] : q \in DOMAIN made}
  OBVIOUS
<1>2. PICK T : T = S \cup {row}
  OBVIOUS
<1>3. made \in Seq(S)
  BY <1>1 DEF MadeShape
<1>4. made \in Seq(T)
  BY <1>2, <1>3
<1>5. /\ made' \in Seq(T) /\ Len(made') = Len(made) /\ DOMAIN made' = DOMAIN made
      /\ \A q \in DOMAIN made : made'[q] = IF q = r THEN row ELSE made[q]
  <2>1. made \in [1 .. Len(made) -> T] /\ Len(made) \in Nat /\ DOMAIN made = 1 .. Len(made)
    BY <1>4
  <2>2. PICK n \in Nat : n = Len(made)
    BY <2>1
  <2>3. row \in T
    BY <1>2
  <2>4. made' \in [1 .. n -> T] /\ \A q \in 1 .. n : made'[q] = IF q = r THEN row ELSE made[q]
    BY <2>1, <2>2, <2>3 DEF RunBecomes
  <2>5. made' \in Seq(T) /\ Len(made') = n /\ DOMAIN made' = 1 .. n
    BY <2>2, <2>4
  <2>6. QED
    BY <2>1, <2>2, <2>4, <2>5
<1>6. SameRuns
  BY <1>5 DEF SameRuns
<1>7. \A q \in DOMAIN made' : GoodRun(made'[q])
  BY <1>5 DEF MadeShape
<1>8. made' \in Seq({made'[q] : q \in DOMAIN made'})
  BY <1>5
<1>9. QED
  BY <1>5, <1>6, <1>7, <1>8 DEF MadeShape

LEMMA QueueUntouched ==
  ASSUME QueueShape, SameRuns, MadeShape, queue' = queue
  PROVE  QueueShape'
<1>1. Len(made) \in Nat /\ DOMAIN made = 1 .. Len(made)
  BY DEF MadeShape
<1>2. ASSUME NEW j \in WorkJobs
      PROVE  GoodJob(j, queue[j], made')
  <2>1. GoodJob(j, queue[j], made)
    BY DEF QueueShape
  <2>2. queue[j].latest \in 0 .. Len(made)
    BY <2>1 DEF GoodJob
  <2>3. queue[j].latest # 0 => queue[j].latest \in DOMAIN made
    BY <1>1, <2>2
  <2>4. QED
    BY <2>1, <2>3 DEF GoodJob, SameRuns
<1>3. QED
  BY <1>2 DEF QueueShape

\* A row that keeps its run.
LEMMA RowIsKept ==
  ASSUME NEW j, NEW old, NEW among, GoodJob(j, old, among),
         NEW status, status # "absent", NEW token, NEW retries, NEW live
  PROVE  GoodJob(j, [status |-> status, token |-> token, latest |-> old.latest,
                     retries |-> retries, live |-> live], among)
BY DEF GoodJob

\* transitionClaim writes the row of the attempt's job.
LEMMA JobEnds ==
  ASSUME QueueShape, NEW j \in WorkJobs, j = worker.job, NEW status, NEW retries, EndsJob(status, retries)
  PROVE  SetJob(j, [status |-> status, token |-> NoClaim, latest |-> queue[j].latest,
                    retries |-> retries, live |-> FALSE])
<1>1. PICK row : row = queue[j]
  OBVIOUS
<1>2. row = [status |-> row.status, token |-> row.token, latest |-> row.latest,
             retries |-> row.retries, live |-> row.live]
  BY <1>1 DEF QueueShape, GoodJob
<1>3. PICK one : one = [row EXCEPT !.status = status]
  OBVIOUS
<1>4. PICK two : two = [one EXCEPT !.retries = retries]
  OBVIOUS
<1>5. PICK three : three = [two EXCEPT !.token = NoClaim]
  OBVIOUS
<1>6. one = [status |-> status, token |-> row.token, latest |-> row.latest,
             retries |-> row.retries, live |-> row.live]
  BY <1>2, <1>3
<1>7. two = [status |-> status, token |-> row.token, latest |-> row.latest,
             retries |-> retries, live |-> row.live]
  BY <1>4, <1>6
<1>8. three = [status |-> status, token |-> NoClaim, latest |-> row.latest,
               retries |-> retries, live |-> row.live]
  BY <1>5, <1>7
<1>9. [three EXCEPT !.live = FALSE]
      = [status |-> status, token |-> NoClaim, latest |-> row.latest, retries |-> retries, live |-> FALSE]
  <2>1. PICK live : live = FALSE
    OBVIOUS
  <2>2. PICK four : four = [three EXCEPT !.live = live]
    OBVIOUS
  <2>3. four = [status |-> status, token |-> NoClaim, latest |-> row.latest,
                retries |-> retries, live |-> live]
    BY ONLY <1>8, <2>2
  <2>4. QED
    BY Zenon, <2>1, <2>2, <2>3
<1>10. SetJob(j, [[[[row EXCEPT !.status = status] EXCEPT !.retries = retries]
                   EXCEPT !.token = NoClaim] EXCEPT !.live = FALSE])
  BY <1>1 DEF EndsJob
<1>11. QED
  BY <1>1, <1>3, <1>4, <1>5, <1>9, <1>10

\* The process goes on in its next step.
LEMMA WorkerGoesOn ==
  ASSUME WorkerShape, NEW s, GoesOn(s)
  PROVE  worker' = [step |-> s, job |-> worker.job, token |-> worker.token,
                    todo |-> worker.todo, fixed |-> worker.fixed]
BY DEF WorkerShape, GoesOn

\* A run of the list is marked failed, or left.
RunFixed(r) ==
  /\ SameRuns /\ fruitless' = 0
  /\ \A q \in DOMAIN made :
       IF q = r THEN made'[q].status = "failed" ELSE made'[q] = made[q]
  /\ \/ worker'.step = "claim"
     \/ worker'.step = worker.step /\ worker'.todo = worker.todo \ {r}
RunPassed(r) ==
  /\ made' = made /\ fruitless' = fruitless
  /\ worker'.step = worker.step /\ worker'.todo = worker.todo \ {r}

LEMMA RunIsFixed ==
  ASSUME MadeShape, WorkerShape, NEW r, Fixes(r)
  PROVE  MadeShape' /\ WorkerShape' /\ RunFixed(r)
<1>1. PICK row : row = [made[r] EXCEPT !.status = "failed"]
  OBVIOUS
<1>2. RunBecomes(r, row)
  BY <1>1 DEF Fixes, SetRun, RunBecomes
<1>3. /\ MadeShape' /\ SameRuns
      /\ \A q \in DOMAIN made :
           IF q = r THEN made'[q].status = "failed" ELSE made'[q] = made[q]
  <2>1. CASE r \in DOMAIN made
    <3>1. GoodRun(row) /\ row.job = made[r].job /\ row.token = made[r].token /\ row.status = "failed"
      BY <1>1, <2>1 DEF MadeShape, GoodRun
    <3>2. /\ MadeShape' /\ SameRuns
          /\ \A q \in DOMAIN made : made'[q] = IF q = r THEN row ELSE made[q]
      BY <1>2, <3>1, RunIsSet
    <3>3. QED
      BY <3>1, <3>2
  <2>2. CASE r \notin DOMAIN made
    <3>1. made' = made
      BY <1>2, <2>2 DEF RunBecomes, MadeShape
    <3>2. MadeShape'
      BY Zenon, <3>1 DEF MadeShape
    <3>3. QED
      BY <2>2, <3>1, <3>2 DEF SameRuns
  <2>3. QED
    BY <2>1, <2>2
<1>4. worker' = [Resting EXCEPT !.step = "claim"]
      \/ worker' = [worker EXCEPT !.todo = @ \ {r}, !.fixed = @ + 1]
  BY DEF Fixes, EndsReconciliation
<1>5. WorkerShape' /\ (worker'.step = "claim"
        \/ (worker'.step = worker.step /\ worker'.todo = worker.todo \ {r}))
  <2>1. CASE worker' = [Resting EXCEPT !.step = "claim"]
    BY <2>1 DEF Resting, WorkerShape
  <2>2. CASE worker' = [worker EXCEPT !.todo = @ \ {r}, !.fixed = @ + 1]
    BY <2>2 DEF WorkerShape
  <2>3. QED
    BY <1>4, <2>1, <2>2
<1>6. fruitless' = 0
  BY DEF Fixes, Changed
<1>7. QED
  BY <1>3, <1>5, <1>6 DEF RunFixed

LEMMA RunIsPassedBy ==
  ASSUME MadeShape, WorkerShape, NEW r, PassesBy(r)
  PROVE  MadeShape' /\ WorkerShape' /\ RunPassed(r)
<1>1. made' = made /\ fruitless' = fruitless /\ worker' = [worker EXCEPT !.todo = @ \ {r}]
  BY DEF PassesBy
<1>2. MadeShape'
  BY Zenon, <1>1 DEF MadeShape
<1>3. QED
  BY <1>1, <1>2 DEF WorkerShape, RunPassed

-----------------------------------------------------------------------------
(* What each step writes *)

OthersStay(j) == \A k \in WorkJobs : k # j => queue'[k] = queue[k]

LEMMA CountsStart == ASSUME CountShape, scan' = scan, Changed PROVE CountShape' /\ fruitless' = 0
BY DEF CountShape, Changed

LEMMA MadeStays == ASSUME MadeShape, made' = made PROVE MadeShape' /\ SameRuns
<1>1. MadeShape'
  BY Zenon DEF MadeShape
<1>2. QED
  BY <1>1 DEF SameRuns

LEMMA WorkerStays == ASSUME WorkerShape, worker' = worker PROVE WorkerShape'
BY Zenon DEF WorkerShape

LEMMA WorkerRests == ASSUME worker' = Resting PROVE WorkerShape' /\ worker'.step = "rest"
BY DEF WorkerShape, Resting

LEMMA AdmitsWrites ==
  ASSUME WorkShape, Admits
  PROVE  /\ WorkShape' /\ made' = made /\ worker' = worker /\ scan' = scan /\ fruitless' = 0
         /\ \E j \in WorkJobs :
              /\ queue[j].status = "absent" /\ OthersStay(j)
              /\ queue'[j].status = "queued" /\ queue'[j].latest = 0
<1>1. made' = made /\ worker' = worker /\ scan' = scan /\ Changed
  BY DEF Admits
<1>2. MadeShape' /\ WorkerShape' /\ CountShape' /\ fruitless' = 0
  BY Zenon, <1>1, MadeStays, WorkerStays, CountsStart DEF WorkShape
<1>3. PICK row : row = [NoJobRow EXCEPT !.status = "queued"]
  OBVIOUS
<1>4. PICK j \in WorkJobs : queue[j].status = "absent" /\ SetJob(j, row)
  BY <1>3 DEF Admits
<1>5. GoodJob(j, row, made) /\ row.status = "queued" /\ row.latest = 0
  <2>1. Len(made) \in Nat
    BY DEF WorkShape, MadeShape
  <2>2. PICK no : no = FALSE
    OBVIOUS
  <2>3. PICK empty : empty = [status |-> "absent", token |-> NoClaim, latest |-> 0, retries |-> 0, live |-> no]
    OBVIOUS
  <2>4. row = [empty EXCEPT !.status = "queued"]
    BY Zenon, <1>3, <2>2, <2>3 DEF NoJobRow
  <2>5. row = [status |-> "queued", token |-> NoClaim, latest |-> 0, retries |-> 0, live |-> no]
    BY ONLY <2>3, <2>4
  <2>6. QED
    BY ONLY <2>1, <2>5 DEF GoodJob
<1>6. QueueShape'
  BY Zenon, <1>1, <1>4, <1>5, QueueIsKept DEF WorkShape
<1>7. \A k \in WorkJobs : queue'[k] = IF k = j THEN row ELSE queue[k]
  BY Zenon, <1>4, JobIsSet DEF WorkShape
<1>8. QED
  BY <1>1, <1>2, <1>4, <1>5, <1>6, <1>7 DEF WorkShape, OthersStay

LEMMA LeaseEndsWrites ==
  ASSUME WorkShape, LeaseEnds
  PROVE  /\ WorkShape' /\ made' = made /\ worker' = worker /\ scan' = scan /\ fruitless' = 0
         /\ worker.step # "claim"
         /\ \A k \in WorkJobs : /\ queue'[k].status = queue[k].status /\ queue'[k].token = queue[k].token
                                /\ queue'[k].latest = queue[k].latest
<1>1. made' = made /\ worker' = worker /\ scan' = scan /\ Changed /\ worker.step # "claim"
  BY DEF LeaseEnds, Step
<1>2. MadeShape' /\ WorkerShape' /\ CountShape' /\ fruitless' = 0
  BY Zenon, <1>1, MadeStays, WorkerStays, CountsStart DEF WorkShape
<1>3. PICK j \in WorkJobs : queue' = [queue EXCEPT ![j].live = FALSE]
  BY DEF LeaseEnds
<1>4. PICK row : row = [queue[j] EXCEPT !.live = FALSE]
  OBVIOUS
<1>5. SetJob(j, row)
  BY <1>3, <1>4 DEF SetJob
<1>6. /\ GoodJob(j, row, made) /\ row.status = queue[j].status /\ row.token = queue[j].token
      /\ row.latest = queue[j].latest
  <2>1. PICK no : no = FALSE
    OBVIOUS
  <2>2. row = [queue[j] EXCEPT !.live = no]
    BY Zenon, <1>4, <2>1
  <2>3. GoodJob(j, queue[j], made)
    BY DEF WorkShape, QueueShape
  <2>4. QED
    BY ONLY <2>2, <2>3 DEF GoodJob
<1>7. QueueShape'
  BY Zenon, <1>1, <1>5, <1>6, QueueIsKept DEF WorkShape
<1>8. \A k \in WorkJobs : queue'[k] = IF k = j THEN row ELSE queue[k]
  BY Zenon, <1>5, JobIsSet DEF WorkShape
<1>9. QED
  BY <1>1, <1>2, <1>6, <1>7, <1>8 DEF WorkShape

LEMMA DiesWrites ==
  ASSUME WorkShape, Dies
  PROVE  /\ WorkShape' /\ made' = made /\ queue' = queue /\ fruitless' = 0
         /\ worker'.step = "rest"
<1>1. made' = made /\ queue' = queue /\ scan' = 1 /\ fruitless' = 0 /\ worker' = Resting
  BY DEF Dies, Changed
<1>2. MadeShape' /\ SameRuns /\ WorkerShape' /\ worker'.step = "rest"
  BY Zenon, <1>1, MadeStays, WorkerRests DEF WorkShape
<1>3. QueueShape'
  BY Zenon, <1>1, <1>2, QueueUntouched DEF WorkShape
<1>4. QED
  BY <1>1, <1>2, <1>3 DEF WorkShape, CountShape

LEMMA PollsWrites ==
  ASSUME WorkShape, Polls
  PROVE  /\ WorkShape' /\ made' = made /\ scan' = scan
         /\ worker.step = "rest" /\ worker'.step = "orphans"
         /\ worker'.todo = {r \in DOMAIN made : made[r].status = "in_progress"}
         /\ \/ queue' = queue /\ fruitless' = fruitless
            \/ fruitless' = 0
         /\ \A k \in WorkJobs : /\ queue'[k].latest = queue[k].latest
                                /\ \/ queue'[k] = queue[k]
                                   \/ queue[k].status = "queued" /\ queue'[k].status = "expired"
<1>1. made' = made /\ scan' = scan /\ worker.step = "rest"
  BY DEF Polls, Step
<1>2. PICK old \in SUBSET {j \in WorkJobs : queue[j].status = "queued"} :
        /\ queue' = [j \in WorkJobs |-> IF j \in old THEN [queue[j] EXCEPT !.status = "expired"]
                                        ELSE queue[j]]
        /\ fruitless' = IF old = {} THEN fruitless ELSE 0
  BY DEF Polls
<1>3. PICK todo : todo = {r \in DOMAIN made : made[r].status = "in_progress"}
  OBVIOUS
<1>4. worker' = [Resting EXCEPT !.step = "orphans", !.todo = todo]
  BY <1>3 DEF Polls
<1>5. WorkerShape' /\ worker'.step = "orphans" /\ worker'.todo = todo
  BY <1>4 DEF Resting, WorkerShape
<1>6. MadeShape'
  BY Zenon, <1>1, MadeStays DEF WorkShape
<1>7. CountShape' /\ (fruitless' = fruitless \/ fruitless' = 0) /\ (old # {} => fruitless' = 0)
  BY <1>1, <1>2 DEF WorkShape, CountShape
<1>8. ASSUME NEW k \in WorkJobs
      PROVE  /\ GoodJob(k, queue'[k], made) /\ queue'[k].latest = queue[k].latest
             /\ \/ queue'[k] = queue[k]
                \/ queue[k].status = "queued" /\ queue'[k].status = "expired"
  <2>1. GoodJob(k, queue[k], made)
    BY DEF WorkShape, QueueShape
  <2>2. CASE k \in old
    <3>1. queue'[k] = [queue[k] EXCEPT !.status = "expired"] /\ queue[k].status = "queued"
      BY <1>2, <2>2
    <3>2. QED
      BY <2>1, <3>1 DEF GoodJob
  <2>3. CASE k \notin old
    BY <1>2, <2>1, <2>3
  <2>4. QED
    BY <2>2, <2>3
<1>9. QueueShape'
  <2>1. queue' = [k \in WorkJobs |-> queue'[k]]
    BY <1>2
  <2>2. QED
    BY Zenon, <1>1, <1>8, <2>1 DEF QueueShape
<1>10. old = {} => queue' = queue
  <2>1. queue = [k \in WorkJobs |-> queue[k]]
    BY DEF WorkShape, QueueShape
  <2>2. QED
    BY <1>2, <2>1
<1>11. QED
  BY <1>1, <1>3, <1>5, <1>6, <1>7, <1>8, <1>9, <1>10 DEF WorkShape

LEMMA LooksAtRunWrites ==
  ASSUME WorkShape, LooksAtRun
  PROVE  /\ WorkShape' /\ queue' = queue /\ scan' = scan /\ worker.step = "orphans"
         /\ \E r : \/ RunFixed(r) /\ made[r].status = "in_progress"
                   \/ RunPassed(r) /\ ~OpenRun(r)
<1>1. queue' = queue /\ scan' = scan /\ worker.step = "orphans"
  BY DEF LooksAtRun, Step
<1>2. PICK r : IF Abandoned(r) /\ made[r].status = "in_progress" THEN Fixes(r) ELSE PassesBy(r)
  BY Zenon DEF LooksAtRun
<1>3. CASE made[r].status = "in_progress" /\ Fixes(r)
  <2>1. MadeShape' /\ WorkerShape' /\ RunFixed(r)
    BY Zenon, <1>3, RunIsFixed DEF WorkShape
  <2>2. fruitless' = 0 /\ SameRuns
    BY <2>1 DEF RunFixed
  <2>3. QueueShape'
    BY Zenon, <1>1, <2>2, QueueUntouched DEF WorkShape
  <2>4. CountShape'
    BY <1>1, <2>2 DEF WorkShape, CountShape
  <2>5. WorkShape'
    BY Zenon, <2>1, <2>3, <2>4 DEF WorkShape
  <2>6. QED
    BY Zenon, <1>1, <1>3, <2>1, <2>5
<1>4. CASE ~OpenRun(r) /\ PassesBy(r)
  <2>1. MadeShape' /\ WorkerShape' /\ RunPassed(r)
    BY Zenon, <1>4, RunIsPassedBy DEF WorkShape
  <2>2. fruitless' = fruitless /\ made' = made
    BY <2>1 DEF RunPassed
  <2>3. QueueShape'
    BY Zenon, <1>1, <2>2, MadeStays, QueueUntouched DEF WorkShape
  <2>4. CountShape'
    BY <1>1, <2>2 DEF WorkShape, CountShape
  <2>5. WorkShape'
    BY Zenon, <2>1, <2>3, <2>4 DEF WorkShape
  <2>6. QED
    BY Zenon, <1>1, <1>4, <2>1, <2>5
<1>5. QED
  BY Zenon, <1>2, <1>3, <1>4 DEF OpenRun

LEMMA LooksAtCompletionWrites ==
  ASSUME WorkShape, LooksAtCompletion
  PROVE  /\ WorkShape' /\ queue' = queue /\ scan' = scan /\ worker.step = "page"
         /\ \E r \in worker.todo : \/ RunFixed(r) /\ made[r].status = "completed"
                                   \/ RunPassed(r) /\ made[r].status # "completed"
<1>1. queue' = queue /\ scan' = scan /\ worker.step = "page"
  BY DEF LooksAtCompletion, Step
<1>2. PICK r \in worker.todo : IF made[r].status = "completed" THEN Fixes(r) ELSE PassesBy(r)
  BY Zenon DEF LooksAtCompletion
<1>3. CASE made[r].status = "completed" /\ Fixes(r)
  <2>1. MadeShape' /\ WorkerShape' /\ RunFixed(r)
    BY Zenon, <1>3, RunIsFixed DEF WorkShape
  <2>2. fruitless' = 0 /\ SameRuns
    BY <2>1 DEF RunFixed
  <2>3. QueueShape'
    BY Zenon, <1>1, <2>2, QueueUntouched DEF WorkShape
  <2>4. CountShape'
    BY <1>1, <2>2 DEF WorkShape, CountShape
  <2>5. WorkShape'
    BY Zenon, <2>1, <2>3, <2>4 DEF WorkShape
  <2>6. QED
    BY Zenon, <1>1, <1>3, <2>1, <2>5
<1>4. CASE made[r].status # "completed" /\ PassesBy(r)
  <2>1. MadeShape' /\ WorkerShape' /\ RunPassed(r)
    BY Zenon, <1>4, RunIsPassedBy DEF WorkShape
  <2>2. fruitless' = fruitless /\ made' = made
    BY <2>1 DEF RunPassed
  <2>3. QueueShape'
    BY Zenon, <1>1, <2>2, MadeStays, QueueUntouched DEF WorkShape
  <2>4. CountShape'
    BY <1>1, <2>2 DEF WorkShape, CountShape
  <2>5. WorkShape'
    BY Zenon, <2>1, <2>3, <2>4 DEF WorkShape
  <2>6. QED
    BY Zenon, <1>1, <1>4, <2>1, <2>5
<1>5. QED
  BY Zenon, <1>2, <1>3, <1>4

\* The reconciliation and the claim that only move the process.
LEMMA OnlyMoves ==
  ASSUME WorkShape, queue' = queue, made' = made, scan' = scan,
         \/ fruitless' = fruitless
         \/ fruitless' = fruitless + 1,
         WorkerShape'
  PROVE  WorkShape'
<1>1. MadeShape' /\ SameRuns
  BY Zenon, MadeStays DEF WorkShape
<1>2. QueueShape'
  BY Zenon, <1>1, QueueUntouched DEF WorkShape
<1>3. CountShape'
  BY DEF WorkShape, CountShape
<1>4. QED
  BY Zenon, <1>1, <1>2, <1>3 DEF WorkShape

LEMMA ReadsPageWrites ==
  ASSUME WorkShape, ReadsPage
  PROVE  /\ WorkShape' /\ queue' = queue /\ made' = made /\ fruitless' = fruitless
         /\ worker.step = "orphans" /\ worker.todo = {} /\ worker'.step = "page"
         /\ scan' = IF Cardinality(ScanPage) < ScanSize THEN 1 ELSE scan + 1
         /\ worker'.todo = {queue[j].latest : j \in {k \in ScanPage :
                              /\ queue[k].latest # 0
                              /\ made[queue[k].latest].status = "completed"
                              /\ ~ActiveAttempt(k)}}
<1>1. /\ queue' = queue /\ made' = made /\ fruitless' = fruitless
      /\ worker.step = "orphans" /\ worker.todo = {}
      /\ scan' = IF Cardinality(ScanPage) < ScanSize THEN 1 ELSE scan + 1
  BY DEF ReadsPage, Step
<1>2. PICK todo : todo = {queue[j].latest : j \in {k \in ScanPage :
                            /\ queue[k].latest # 0
                            /\ made[queue[k].latest].status = "completed"
                            /\ ~ActiveAttempt(k)}}
  OBVIOUS
<1>3. worker' = [worker EXCEPT !.step = "page", !.todo = todo]
  BY Zenon, <1>2 DEF ReadsPage
<1>4. WorkerShape' /\ worker'.step = "page" /\ worker'.todo = todo
  BY <1>3 DEF WorkShape, WorkerShape
<1>5. MadeShape' /\ SameRuns
  BY Zenon, <1>1, MadeStays DEF WorkShape
<1>6. QueueShape'
  BY Zenon, <1>1, <1>5, QueueUntouched DEF WorkShape
<1>7. CountShape'
  BY <1>1 DEF WorkShape, CountShape
<1>8. QED
  BY Zenon, <1>1, <1>2, <1>4, <1>5, <1>6, <1>7 DEF WorkShape

LEMMA ReconciledWrites ==
  ASSUME WorkShape, Reconciled
  PROVE  /\ WorkShape' /\ queue' = queue /\ made' = made /\ scan' = scan
         /\ worker.step = "page" /\ worker.todo = {} /\ worker'.step = "claim"
         /\ fruitless' = IF fruitless < Rounds THEN fruitless + 1 ELSE fruitless
<1>1. /\ queue' = queue /\ made' = made /\ scan' = scan
      /\ worker.step = "page" /\ worker.todo = {}
      /\ fruitless' = IF fruitless < Rounds THEN fruitless + 1 ELSE fruitless
      /\ worker' = [Resting EXCEPT !.step = "claim"]
  BY DEF Reconciled, Step, EndsReconciliation
<1>2. WorkerShape' /\ worker'.step = "claim"
  BY <1>1 DEF Resting, WorkerShape
<1>3. fruitless' = fruitless \/ fruitless' = fruitless + 1
  BY <1>1
<1>4. WorkShape'
  BY <1>1, <1>2, <1>3, OnlyMoves
<1>5. QED
  BY <1>1, <1>2, <1>4

LEMMA RestsAgain ==
  ASSUME WorkShape, TakesNone \/ LosesClaim
  PROVE  /\ WorkShape' /\ queue' = queue /\ made' = made /\ scan' = scan
         /\ fruitless' = fruitless /\ worker'.step = "rest"
         /\ worker.step # "page"
<1>1. /\ queue' = queue /\ made' = made /\ scan' = scan /\ fruitless' = fruitless
      /\ worker' = Resting /\ worker.step # "page"
  BY DEF TakesNone, LosesClaim, Step
<1>2. WorkerShape' /\ worker'.step = "rest"
  BY <1>1, WorkerRests
<1>3. WorkShape'
  BY <1>1, <1>2, OnlyMoves
<1>4. QED
  BY <1>1, <1>2, <1>3

LEMMA RecoversLeaseWrites ==
  ASSUME WorkShape, RecoversLease
  PROVE  /\ WorkShape' /\ made' = made /\ scan' = scan /\ fruitless' = 0
         /\ worker.step = "claim" /\ worker'.step = "claim"
         /\ \E j \in WorkJobs :
              /\ OthersStay(j) /\ queue'[j].latest = queue[j].latest
              /\ queue[j].status # "completed" /\ queue'[j].status # "completed"
<1>1. made' = made /\ worker' = worker /\ scan' = scan /\ Changed /\ worker.step = "claim"
  BY DEF RecoversLease, Step
<1>2. MadeShape' /\ WorkerShape' /\ CountShape' /\ fruitless' = 0
  BY Zenon, <1>1, MadeStays, WorkerStays, CountsStart DEF WorkShape
<1>3. PICK j \in Overdue :
        SetJob(j, [queue[j] EXCEPT !.status = IF queue[j].retries < WorkRetries THEN "queued" ELSE "failed",
                                   !.retries = @ + 1, !.token = NoClaim])
  BY Zenon DEF RecoversLease
<1>4. j \in WorkJobs /\ queue[j].status # "completed"
  BY DEF Overdue
<1>5. PICK status : status = IF queue[j].retries < WorkRetries THEN "queued" ELSE "failed"
  OBVIOUS
<1>6. status # "absent" /\ status # "completed"
  BY <1>5
<1>7. PICK old : old = queue[j]
  OBVIOUS
<1>8. PICK one : one = [old EXCEPT !.status = status]
  OBVIOUS
<1>9. PICK two : two = [one EXCEPT !.retries = @ + 1]
  OBVIOUS
<1>10. PICK row : row = [two EXCEPT !.token = NoClaim]
  OBVIOUS
<1>11. GoodJob(j, old, made)
  BY <1>4, <1>7 DEF WorkShape, QueueShape
<1>12. one = [status |-> status, token |-> old.token, latest |-> old.latest,
              retries |-> old.retries, live |-> old.live]
  BY ONLY <1>8, <1>11 DEF GoodJob
<1>13. two = [status |-> status, token |-> old.token, latest |-> old.latest,
              retries |-> old.retries + 1, live |-> old.live]
  BY ONLY <1>9, <1>12
<1>14. row = [status |-> status, token |-> NoClaim, latest |-> old.latest,
              retries |-> old.retries + 1, live |-> old.live]
  BY ONLY <1>10, <1>13
<1>15. SetJob(j, row)
  <2>1. row = [old EXCEPT !.status = status, !.retries = @ + 1, !.token = NoClaim]
    BY <1>8, <1>9, <1>10
  <2>2. QED
    BY Zenon, <1>3, <1>5, <1>7, <2>1
<1>16. GoodJob(j, row, made)
  BY Zenon, <1>6, <1>11, <1>14, RowIsKept
<1>17. QueueShape'
  BY Zenon, <1>1, <1>4, <1>15, <1>16, QueueIsKept DEF WorkShape
<1>18. \A k \in WorkJobs : queue'[k] = IF k = j THEN row ELSE queue[k]
  BY Zenon, <1>4, <1>15, JobIsSet DEF WorkShape
<1>19. OthersStay(j) /\ queue'[j] = row
  BY <1>4, <1>18 DEF OthersStay
<1>20. row.latest = queue[j].latest /\ row.status # "completed"
  BY <1>6, <1>7, <1>14
<1>21. WorkShape'
  BY Zenon, <1>2, <1>17 DEF WorkShape
<1>22. QED
  BY Zenon, <1>1, <1>2, <1>4, <1>19, <1>20, <1>21

LEMMA TakesJobWrites ==
  ASSUME WorkShape, TakesJob
  PROVE  /\ WorkShape' /\ made' = made /\ scan' = scan /\ fruitless' = 0
         /\ worker'.step = "claimed"
         /\ \E j \in WorkJobs :
              /\ OthersStay(j) /\ queue'[j].latest = queue[j].latest
              /\ queue'[j].status = "in_progress" /\ queue'[j].token = worker'.token
              /\ worker'.job = j
<1>1. made' = made /\ scan' = scan /\ Changed
  BY DEF TakesJob
<1>2. PICK j \in WorkJobs : \E token :
        /\ SetJob(j, [queue[j] EXCEPT !.status = "in_progress", !.token = token, !.live = TRUE])
        /\ worker' = [Resting EXCEPT !.step = "claimed", !.job = j, !.token = token]
  BY Zenon DEF TakesJob
<1>3. PICK token :
       /\ SetJob(j, [queue[j] EXCEPT !.status = "in_progress", !.token = token, !.live = TRUE])
       /\ worker' = [Resting EXCEPT !.step = "claimed", !.job = j, !.token = token]
  BY Zenon, <1>2
<1>4. MadeShape' /\ CountShape' /\ fruitless' = 0
  BY Zenon, <1>1, MadeStays, CountsStart DEF WorkShape
<1>5. PICK old : old = queue[j]
  OBVIOUS
<1>6. PICK one : one = [old EXCEPT !.status = "in_progress"]
  OBVIOUS
<1>7. PICK two : two = [one EXCEPT !.token = token]
  OBVIOUS
<1>8. PICK live : live = TRUE
  OBVIOUS
<1>9. PICK row : row = [two EXCEPT !.live = TRUE]
  OBVIOUS
<1>10. row = [two EXCEPT !.live = live]
  BY Zenon, <1>9, <1>8
<1>11. GoodJob(j, old, made)
  BY <1>5 DEF WorkShape, QueueShape
<1>12. one = [status |-> "in_progress", token |-> old.token, latest |-> old.latest,
              retries |-> old.retries, live |-> old.live]
  BY ONLY <1>6, <1>11 DEF GoodJob
<1>13. two = [status |-> "in_progress", token |-> token, latest |-> old.latest,
              retries |-> old.retries, live |-> old.live]
  BY ONLY <1>7, <1>12
<1>14. row = [status |-> "in_progress", token |-> token, latest |-> old.latest,
              retries |-> old.retries, live |-> live]
  BY ONLY <1>10, <1>13
<1>15. SetJob(j, row)
  <2>1. row = [old EXCEPT !.status = "in_progress", !.token = token, !.live = TRUE]
    BY <1>6, <1>7, <1>9
  <2>2. QED
    BY Zenon, <1>3, <1>5, <2>1
<1>16. GoodJob(j, row, made)
  <2>1. "in_progress" # "absent"
    OBVIOUS
  <2>2. QED
    BY Zenon, <1>11, <1>14, <2>1, RowIsKept
<1>17. QueueShape'
  BY Zenon, <1>1, <1>15, <1>16, QueueIsKept DEF WorkShape
<1>18. \A k \in WorkJobs : queue'[k] = IF k = j THEN row ELSE queue[k]
  BY Zenon, <1>15, JobIsSet DEF WorkShape
<1>19. OthersStay(j) /\ queue'[j] = row
  BY <1>18 DEF OthersStay
<1>20. row.latest = queue[j].latest /\ row.status = "in_progress" /\ row.token = token
  BY <1>5, <1>14
<1>21. WorkerShape' /\ worker'.step = "claimed" /\ worker'.job = j /\ worker'.token = token
  <2>1. PICK a : a = [Resting EXCEPT !.step = "claimed"]
    OBVIOUS
  <2>2. PICK b : b = [a EXCEPT !.job = j]
    OBVIOUS
  <2>3. PICK c : c = [b EXCEPT !.token = token]
    OBVIOUS
  <2>4. a = [step |-> "claimed", job |-> 0, token |-> 0, todo |-> {}, fixed |-> 0]
    BY ONLY <2>1 DEF Resting
  <2>5. b = [step |-> "claimed", job |-> j, token |-> 0, todo |-> {}, fixed |-> 0]
    BY ONLY <2>2, <2>4
  <2>6. c = [step |-> "claimed", job |-> j, token |-> token, todo |-> {}, fixed |-> 0]
    BY ONLY <2>3, <2>5
  <2>7. worker' = c
    BY <1>3, <2>1, <2>2, <2>3
  <2>8. QED
    BY <2>6, <2>7 DEF WorkerShape
<1>22. WorkShape'
  BY Zenon, <1>4, <1>17, <1>21 DEF WorkShape
<1>23. QED
  BY Zenon, <1>1, <1>4, <1>19, <1>20, <1>21, <1>22

\* The steps of an attempt leave its job's claim with the process.
SameAttempt == worker'.job = worker.job /\ worker'.token = worker.token

LEMMA AttemptGoesOn ==
  ASSUME WorkerShape, NEW s, GoesOn(s)
  PROVE  WorkerShape' /\ SameAttempt /\ worker'.step = s
BY WorkerGoesOn DEF WorkerShape, SameAttempt

LEMMA WritesRunWrites ==
  ASSUME WorkShape, AttemptHolds, WritesRun
  PROVE  /\ WorkShape' /\ queue' = queue /\ scan' = scan /\ fruitless' = 0
         /\ worker.step = "claimed" /\ worker'.step = "half" /\ SameAttempt
         /\ \A r \in DOMAIN made : made'[r] = made[r]
         /\ Len(made') # 0 /\ made'[Len(made')].job = worker.job
<1>1. queue' = queue /\ scan' = scan /\ Changed /\ worker.step = "claimed" /\ GoesOn("half")
  BY DEF WritesRun, Step
<1>2. WorkerShape' /\ SameAttempt /\ worker'.step = "half"
  BY Zenon, <1>1, AttemptGoesOn DEF WorkShape
<1>3. CountShape' /\ fruitless' = 0
  BY Zenon, <1>1, CountsStart DEF WorkShape
<1>4. worker.job \in WorkJobs
  BY <1>1 DEF AttemptHolds, Attempting
<1>5. PICK run : run = [job |-> worker.job, token |-> worker.token,
                        status |-> "in_progress", findings |-> "none"]
  OBVIOUS
<1>6. made' = Append(made, run)
  BY <1>5 DEF WritesRun
<1>7. GoodRun(run) /\ run.job = worker.job
  BY <1>4, <1>5 DEF GoodRun
<1>8. PICK S : S = {made[r] : r \in DOMAIN made} \cup {run}
  OBVIOUS
<1>9. made \in Seq(S)
  BY <1>8 DEF WorkShape, MadeShape
<1>10. PICK n \in Nat : n = Len(made)
  BY <1>9
<1>11. /\ made' \in Seq(S) /\ Len(made') = n + 1 /\ DOMAIN made = 1 .. n /\ DOMAIN made' = 1 .. n + 1
       /\ \A r \in 1 .. n : made'[r] = made[r]
       /\ made'[n + 1] = run
  BY <1>6, <1>8, <1>9, <1>10
<1>12. MadeShape'
  <2>1. made' \in Seq({made'[r] : r \in DOMAIN made'})
    BY <1>11
  <2>2. ASSUME NEW r \in DOMAIN made' PROVE GoodRun(made'[r])
    <3>1. CASE r = n + 1
      BY <1>7, <1>11, <3>1
    <3>2. CASE r \in 1 .. n
      BY <1>11, <3>2 DEF WorkShape, MadeShape
    <3>3. QED
      BY <1>11, <3>1, <3>2
  <2>3. QED
    BY Zenon, <2>1, <2>2 DEF MadeShape
<1>13. ASSUME NEW j \in WorkJobs PROVE GoodJob(j, queue[j], made')
  <2>1. GoodJob(j, queue[j], made)
    BY DEF WorkShape, QueueShape
  <2>2. queue[j].latest \in 0 .. n
    BY <1>10, <2>1 DEF GoodJob
  <2>3. queue[j].latest \in 0 .. n + 1
    BY <2>2
  <2>4. queue[j].latest # 0 => made'[queue[j].latest] = made[queue[j].latest]
    BY <1>11, <2>2
  <2>5. QED
    BY <1>11, <2>1, <2>3, <2>4 DEF GoodJob
<1>14. QueueShape'
  BY <1>1, <1>13 DEF WorkShape, QueueShape
<1>15. WorkShape'
  BY Zenon, <1>2, <1>3, <1>12, <1>14 DEF WorkShape
<1>16. \A r \in DOMAIN made : made'[r] = made[r]
  BY <1>11
<1>17. Len(made') # 0 /\ made'[Len(made')].job = worker.job
  BY <1>7, <1>11
<1>18. QED
  BY Zenon, <1>1, <1>2, <1>3, <1>15, <1>16, <1>17

LEMMA NamesRunWrites ==
  ASSUME WorkShape, AttemptHolds, NamesRun
  PROVE  /\ WorkShape' /\ made' = made /\ scan' = scan /\ fruitless' = 0
         /\ worker.step = "half" /\ worker'.step = "working" /\ SameAttempt
         /\ worker.job \in WorkJobs /\ OthersStay(worker.job)
         /\ queue'[worker.job].status = queue[worker.job].status
         /\ queue'[worker.job].token = queue[worker.job].token
         /\ queue'[worker.job].latest = Len(made)
<1>1. made' = made /\ scan' = scan /\ Changed /\ worker.step = "half" /\ GoesOn("working")
  BY DEF NamesRun, Step
<1>2. WorkerShape' /\ SameAttempt /\ worker'.step = "working"
  BY Zenon, <1>1, AttemptGoesOn DEF WorkShape
<1>3. MadeShape' /\ CountShape' /\ fruitless' = 0
  BY Zenon, <1>1, MadeStays, CountsStart DEF WorkShape
<1>4. PICK j \in WorkJobs : j = worker.job
  BY <1>1 DEF AttemptHolds, Attempting
<1>5. queue[j].status = "in_progress" /\ made[Len(made)].job = j
  BY <1>1, <1>4 DEF AttemptHolds, Attempting, HasMadeRun
<1>6. PICK row : row = [queue[j] EXCEPT !.latest = Len(made)]
  OBVIOUS
<1>7. SetJob(j, row)
  BY <1>4, <1>6 DEF NamesRun, MyRun
<1>8. GoodJob(j, queue[j], made) /\ Len(made) \in Nat
  BY DEF WorkShape, QueueShape, MadeShape
<1>9. /\ GoodJob(j, row, made) /\ row.status = queue[j].status
      /\ row.token = queue[j].token /\ row.latest = Len(made)
  BY ONLY <1>5, <1>6, <1>8 DEF GoodJob
<1>10. QueueShape'
  BY Zenon, <1>1, <1>7, <1>9, QueueIsKept DEF WorkShape
<1>11. \A k \in WorkJobs : queue'[k] = IF k = j THEN row ELSE queue[k]
  BY Zenon, <1>7, JobIsSet DEF WorkShape
<1>12. OthersStay(j) /\ queue'[j] = row
  BY <1>11 DEF OthersStay
<1>13. WorkShape'
  BY Zenon, <1>2, <1>3, <1>10 DEF WorkShape
<1>14. QED
  BY Zenon, <1>1, <1>2, <1>3, <1>4, <1>9, <1>12, <1>13

\* The run of the attempt is written, and no other.
MyRunIsWritten(status, findings) ==
  /\ SameRuns /\ Len(made) \in DOMAIN made
  /\ \A r \in DOMAIN made : r # Len(made) => made'[r] = made[r]
  /\ made'[Len(made)].status = status /\ made'[Len(made)].findings = findings

LEMMA MyRunWrites ==
  ASSUME WorkShape, AttemptHolds, HasMadeRun, NEW row,
         RunBecomes(Len(made), row), GoodRun(row),
         row.job = made[Len(made)].job, row.token = made[Len(made)].token
  PROVE  MadeShape' /\ MyRunIsWritten(row.status, row.findings)
<1>1. Len(made) \in DOMAIN made
  BY DEF WorkShape, MadeShape, AttemptHolds
<1>2. /\ MadeShape' /\ SameRuns
      /\ \A q \in DOMAIN made : made'[q] = IF q = Len(made) THEN row ELSE made[q]
  BY Zenon, RunIsSet DEF WorkShape
<1>3. QED
  BY <1>1, <1>2 DEF MyRunIsWritten

\* The attempt's run is written while the attempt goes on.
LEMMA AttemptWrites ==
  ASSUME WorkShape, AttemptHolds, HasMadeRun, WritesFindings \/ CompletesRun
  PROVE  /\ WorkShape' /\ queue' = queue /\ scan' = scan /\ fruitless' = 0 /\ SameAttempt
         /\ \/ worker.step = "working" /\ worker'.step = "replacing"
               /\ MyRunIsWritten(made[Len(made)].status, "some")
            \/ worker.step = "replacing" /\ worker'.step = "replaced"
               /\ MyRunIsWritten(made[Len(made)].status, "all")
            \/ worker.step = "replaced" /\ worker'.step = "completed"
               /\ MyRunIsWritten("completed", made[Len(made)].findings)
<1>1. queue' = queue /\ scan' = scan /\ Changed
  BY DEF WritesFindings, CompletesRun
<1>2. PICK n : n = Len(made) /\ n \in DOMAIN made
  BY DEF WorkShape, MadeShape, AttemptHolds
<1>3. GoodRun(made[n])
  BY <1>2 DEF WorkShape, MadeShape
<1>4. CountShape' /\ fruitless' = 0
  BY Zenon, <1>1, CountsStart DEF WorkShape
<1>5. ASSUME NEW s, GoesOn(s), MadeShape', SameRuns
      PROVE  WorkShape' /\ SameAttempt /\ worker'.step = s
  <2>1. WorkerShape' /\ SameAttempt /\ worker'.step = s
    BY Zenon, <1>5, AttemptGoesOn DEF WorkShape
  <2>2. QueueShape'
    BY Zenon, <1>1, <1>5, QueueUntouched DEF WorkShape
  <2>3. QED
    BY Zenon, <1>4, <1>5, <2>1, <2>2 DEF WorkShape
<1>6. CASE Step("working") /\ GoesOn("replacing") /\ made' = [made EXCEPT ![Len(made)].findings = "some"]
  <2>1. PICK row : row = [made[n] EXCEPT !.findings = "some"]
    OBVIOUS
  <2>2. RunBecomes(n, row)
    BY Zenon, <1>2, <1>6, <2>1 DEF RunBecomes
  <2>3. /\ GoodRun(row) /\ row.job = made[n].job /\ row.token = made[n].token
        /\ row.status = made[n].status /\ row.findings = "some"
    BY ONLY <1>3, <2>1 DEF GoodRun
  <2>4. MadeShape' /\ MyRunIsWritten(made[n].status, "some")
    BY Zenon, <1>2, <2>2, <2>3, MyRunWrites
  <2>5. SameRuns
    BY <2>4 DEF MyRunIsWritten
  <2>6. QED
    BY Zenon, <1>1, <1>2, <1>4, <1>5, <1>6, <2>4, <2>5 DEF Step
<1>7. CASE Step("replacing") /\ GoesOn("replaced") /\ made' = [made EXCEPT ![Len(made)].findings = "all"]
  <2>1. PICK row : row = [made[n] EXCEPT !.findings = "all"]
    OBVIOUS
  <2>2. RunBecomes(n, row)
    BY Zenon, <1>2, <1>7, <2>1 DEF RunBecomes
  <2>3. /\ GoodRun(row) /\ row.job = made[n].job /\ row.token = made[n].token
        /\ row.status = made[n].status /\ row.findings = "all"
    BY ONLY <1>3, <2>1 DEF GoodRun
  <2>4. MadeShape' /\ MyRunIsWritten(made[n].status, "all")
    BY Zenon, <1>2, <2>2, <2>3, MyRunWrites
  <2>5. SameRuns
    BY <2>4 DEF MyRunIsWritten
  <2>6. QED
    BY Zenon, <1>1, <1>2, <1>4, <1>5, <1>7, <2>4, <2>5 DEF Step
<1>8. CASE Step("replaced") /\ GoesOn("completed") /\ made' = [made EXCEPT ![Len(made)].status = "completed"]
  <2>1. PICK row : row = [made[n] EXCEPT !.status = "completed"]
    OBVIOUS
  <2>2. RunBecomes(n, row)
    BY Zenon, <1>2, <1>8, <2>1 DEF RunBecomes
  <2>3. /\ GoodRun(row) /\ row.job = made[n].job /\ row.token = made[n].token
        /\ row.findings = made[n].findings /\ row.status = "completed"
    BY ONLY <1>3, <2>1 DEF GoodRun
  <2>4. MadeShape' /\ MyRunIsWritten("completed", made[n].findings)
    BY Zenon, <1>2, <2>2, <2>3, MyRunWrites
  <2>5. SameRuns
    BY <2>4 DEF MyRunIsWritten
  <2>6. QED
    BY Zenon, <1>1, <1>2, <1>4, <1>5, <1>8, <2>4, <2>5 DEF Step
<1>9. QED
  BY Zenon, <1>6, <1>7, <1>8 DEF WritesFindings, CompletesRun, MyRun, SetRun

LEMMA FailsAttemptWrites ==
  ASSUME WorkShape, AttemptHolds, FailsAttempt
  PROVE  /\ WorkShape' /\ queue' = queue /\ scan' = scan /\ fruitless' = 0 /\ SameAttempt
         /\ Attempting /\ worker'.step = "failing"
         /\ \/ made' = made
            \/ /\ HasNamedRun
               /\ \E kept : MyRunIsWritten("failed", kept)
<1>1. /\ queue' = queue /\ scan' = scan /\ Changed /\ GoesOn("failing")
      /\ worker.step \in {"claimed", "half", "working", "replacing", "replaced"}
  BY DEF FailsAttempt
<1>2. Attempting
  BY <1>1 DEF Attempting
<1>3. CountShape' /\ fruitless' = 0
  BY Zenon, <1>1, CountsStart DEF WorkShape
<1>4. WorkerShape' /\ SameAttempt /\ worker'.step = "failing"
  BY Zenon, <1>1, AttemptGoesOn DEF WorkShape
<1>5. MadeShape' /\ SameRuns /\ (made' = made \/ (HasNamedRun /\ \E kept : MyRunIsWritten("failed", kept)))
  <2>1. CASE made' = made
    BY Zenon, <2>1, MadeStays DEF WorkShape
  <2>2. CASE made' # made
    <3>1. HasMadeRun /\ HasNamedRun
      BY <1>1, <2>2 DEF FailsAttempt, HasMadeRun, HasNamedRun
    <3>2. PICK kept : made' = [made EXCEPT ![Len(made)].status = "failed", ![Len(made)].findings = kept]
      BY <2>2 DEF FailsAttempt, MyRun
    <3>3. PICK n : n = Len(made) /\ n \in DOMAIN made
      BY <3>1 DEF WorkShape, MadeShape, AttemptHolds
    <3>4. GoodRun(made[n])
      BY <3>3 DEF WorkShape, MadeShape
    <3>5. PICK mid : mid = [made[n] EXCEPT !.status = "failed"]
      OBVIOUS
    <3>6. PICK row : row = [mid EXCEPT !.findings = kept]
      OBVIOUS
    <3>7. GoodRun(mid) /\ mid.job = made[n].job /\ mid.token = made[n].token /\ mid.status = "failed"
      BY ONLY <3>4, <3>5 DEF GoodRun
    <3>8. /\ GoodRun(row) /\ row.job = made[n].job /\ row.token = made[n].token
          /\ row.status = "failed" /\ row.findings = kept
      BY ONLY <3>6, <3>7 DEF GoodRun
    <3>9. PICK between : between = [made EXCEPT ![n] = mid]
      OBVIOUS
    <3>10. between[n] = mid
      BY <3>3, <3>9 DEF WorkShape, MadeShape
    <3>11. made' = [between EXCEPT ![n] = row]
      BY <3>2, <3>3, <3>5, <3>6, <3>9, <3>10
    <3>12. RunBecomes(n, row)
      BY <3>9, <3>11 DEF RunBecomes
    <3>13. MadeShape' /\ MyRunIsWritten("failed", kept)
      BY Zenon, <3>1, <3>3, <3>8, <3>12, MyRunWrites
    <3>14. SameRuns
      BY <3>13 DEF MyRunIsWritten
    <3>15. QED
      BY Zenon, <3>1, <3>13, <3>14
  <2>3. QED
    BY <2>1, <2>2
<1>6. QueueShape'
  BY Zenon, <1>1, <1>5, QueueUntouched DEF WorkShape
<1>7. WorkShape'
  BY Zenon, <1>3, <1>4, <1>5, <1>6 DEF WorkShape
<1>8. QED
  BY Zenon, <1>1, <1>2, <1>3, <1>4, <1>5, <1>7

\* An attempt ends.
LEMMA JobIsEnded ==
  ASSUME WorkShape, AttemptHolds, CompletesJob \/ RetriesJob
  PROVE  /\ WorkShape' /\ made' = made /\ scan' = scan /\ fruitless' = 0 /\ worker'.step = "rest"
         /\ worker.job \in WorkJobs /\ OthersStay(worker.job)
         /\ queue'[worker.job].latest = queue[worker.job].latest
         /\ \/ worker.step = "completed"
            \/ queue'[worker.job].status # "completed"
<1>1. made' = made /\ scan' = scan /\ Changed /\ worker' = Resting
  BY DEF CompletesJob, RetriesJob
<1>2. WorkerShape' /\ worker'.step = "rest"
  BY <1>1, WorkerRests
<1>3. MadeShape' /\ CountShape' /\ fruitless' = 0
  BY Zenon, <1>1, MadeStays, CountsStart DEF WorkShape
<1>4. worker.step \in {"completed", "failing"}
  BY DEF CompletesJob, RetriesJob, Step
<1>5. PICK j \in WorkJobs : j = worker.job
  BY <1>4 DEF AttemptHolds, Attempting
<1>6. \E status, retries : /\ EndsJob(status, retries) /\ status # "absent"
                           /\ worker.step = "completed" \/ status # "completed"
  <2>1. CASE CompletesJob
    <3>1. EndsJob("completed", queue[worker.job].retries) /\ worker.step = "completed"
      BY Zenon, <2>1 DEF CompletesJob, Step
    <3>2. "completed" # "absent"
      OBVIOUS
    <3>3. QED
      BY Zenon, <3>1, <3>2
  <2>2. CASE RetriesJob
    <3>1. PICK status, retries : /\ EndsJob(status, retries)
                                 /\ status \in {"queued", "failed"}
      <4>1. PICK tries : tries = queue[worker.job].retries + 1
        OBVIOUS
      <4>2. EndsJob(IF tries <= WorkRetries THEN "queued" ELSE "failed", tries)
        BY Zenon, <2>2, <4>1 DEF RetriesJob
      <4>3. (IF tries <= WorkRetries THEN "queued" ELSE "failed") \in {"queued", "failed"}
        OBVIOUS
      <4>4. QED
        BY Zenon, <4>2, <4>3
    <3>2. status # "absent" /\ status # "completed"
      BY <3>1
    <3>3. QED
      BY Zenon, <3>1, <3>2
  <2>3. QED
    BY <2>1, <2>2
<1>7. PICK status, retries : /\ EndsJob(status, retries) /\ status # "absent"
                             /\ worker.step = "completed" \/ status # "completed"
  BY <1>6
<1>8. PICK no, row : /\ no = FALSE
                     /\ row = [status |-> status, token |-> NoClaim, latest |-> queue[j].latest,
                               retries |-> retries, live |-> no]
  OBVIOUS
<1>9. SetJob(j, row)
  <2>1. SetJob(j, [status |-> status, token |-> NoClaim, latest |-> queue[j].latest,
                   retries |-> retries, live |-> FALSE])
    BY Zenon, <1>5, <1>7, JobEnds DEF WorkShape
  <2>2. QED
    BY Zenon, <1>8, <2>1
<1>10. GoodJob(j, row, made) /\ row.status = status /\ row.latest = queue[j].latest
  <2>1. GoodJob(j, queue[j], made)
    BY DEF WorkShape, QueueShape
  <2>2. GoodJob(j, row, made)
    BY Zenon, <1>7, <1>8, <2>1, RowIsKept
  <2>3. QED
    BY ONLY <1>8, <2>2
<1>11. QueueShape'
  BY Zenon, <1>1, <1>9, <1>10, QueueIsKept DEF WorkShape
<1>12. \A k \in WorkJobs : queue'[k] = IF k = j THEN row ELSE queue[k]
  BY Zenon, <1>9, JobIsSet DEF WorkShape
<1>13. OthersStay(j) /\ queue'[j] = row
  BY <1>12 DEF OthersStay
<1>14. WorkShape'
  BY Zenon, <1>2, <1>3, <1>11 DEF WorkShape
<1>15. QED
  BY Zenon, <1>1, <1>2, <1>3, <1>5, <1>7, <1>10, <1>13, <1>14

-----------------------------------------------------------------------------
(* What each step keeps *)

LEMMA AttemptSteps == ASSUME WorkInv, WorkNext PROVE WorkShape' /\ AttemptHolds'
<1> USE DEF Attempting, HasMadeRun, HasNamedRun, HasAllFindings, Step
<1>1. WorkShape /\ AttemptHolds
  BY DEF WorkInv
<1>2. Len(made) \in Nat /\ DOMAIN made = 1 .. Len(made)
  BY <1>1 DEF WorkShape, MadeShape
<1>3. ASSUME worker'.step \in {"rest", "orphans", "page", "claim"}
      PROVE  AttemptHolds'
  BY <1>3 DEF AttemptHolds
<1>4. CASE Admits
  <2>1. /\ WorkShape' /\ made' = made /\ worker' = worker
        /\ \E j \in WorkJobs : queue[j].status = "absent" /\ OthersStay(j)
    BY Zenon, <1>1, <1>4, AdmitsWrites
  <2>2. PICK j \in WorkJobs : queue[j].status = "absent" /\ OthersStay(j)
    BY Zenon, <2>1
  <2>3. Attempting => worker.job \in WorkJobs /\ queue'[worker.job] = queue[worker.job]
    BY <1>1, <2>2 DEF AttemptHolds, OthersStay
  <2>4. AttemptHolds'
    BY <1>1, <2>1, <2>3 DEF AttemptHolds
  <2>5. QED
    BY <2>1, <2>4
<1>5. CASE LeaseEnds
  <2>1. /\ WorkShape' /\ made' = made /\ worker' = worker
        /\ \A k \in WorkJobs : /\ queue'[k].status = queue[k].status /\ queue'[k].token = queue[k].token
                               /\ queue'[k].latest = queue[k].latest
    BY <1>1, <1>5, LeaseEndsWrites
  <2>2. AttemptHolds'
    BY <1>1, <2>1 DEF AttemptHolds
  <2>3. QED
    BY <2>1, <2>2
<1>6. CASE Dies
  BY <1>1, <1>3, <1>6, DiesWrites
<1>7. CASE Polls
  <2>1. WorkShape' /\ worker'.step = "orphans"
    BY Zenon, <1>1, <1>7, PollsWrites
  <2>2. QED
    BY <1>3, <2>1
<1>8. CASE LooksAtRun
  <2>1. WorkShape' /\ worker.step = "orphans" /\ \E r : RunFixed(r) \/ RunPassed(r)
    BY Zenon, <1>1, <1>8, LooksAtRunWrites
  <2>2. worker'.step = worker.step \/ worker'.step = "claim"
    BY <2>1 DEF RunFixed, RunPassed
  <2>3. QED
    BY <1>3, <2>1, <2>2
<1>9. CASE ReadsPage
  <2>1. WorkShape' /\ worker'.step = "page"
    BY Zenon, <1>1, <1>9, ReadsPageWrites
  <2>2. QED
    BY <1>3, <2>1
<1>10. CASE LooksAtCompletion
  <2>1. WorkShape' /\ worker.step = "page" /\ \E r : RunFixed(r) \/ RunPassed(r)
    BY Zenon, <1>1, <1>10, LooksAtCompletionWrites
  <2>2. worker'.step = worker.step \/ worker'.step = "claim"
    BY <2>1 DEF RunFixed, RunPassed
  <2>3. QED
    BY <1>3, <2>1, <2>2
<1>11. CASE Reconciled
  BY <1>1, <1>3, <1>11, ReconciledWrites
<1>12. CASE RecoversLease
  <2>1. WorkShape' /\ worker'.step = "claim"
    BY Zenon, <1>1, <1>12, RecoversLeaseWrites
  <2>2. QED
    BY <1>3, <2>1
<1>13. CASE TakesJob
  <2>1. /\ WorkShape' /\ made' = made /\ worker'.step = "claimed"
        /\ \E j \in WorkJobs : queue'[j].status = "in_progress" /\ queue'[j].token = worker'.token
                               /\ worker'.job = j
    BY Zenon, <1>1, <1>13, TakesJobWrites
  <2>2. AttemptHolds'
    BY <2>1 DEF AttemptHolds
  <2>3. QED
    BY <2>1, <2>2
<1>14. CASE TakesNone \/ LosesClaim
  BY <1>1, <1>3, <1>14, RestsAgain
<1>15. CASE WritesRun
  <2>1. /\ WorkShape' /\ queue' = queue /\ worker.step = "claimed" /\ worker'.step = "half" /\ SameAttempt
        /\ Len(made') # 0 /\ made'[Len(made')].job = worker.job
    BY Zenon, <1>1, <1>15, WritesRunWrites
  <2>2. AttemptHolds'
    BY <1>1, <2>1 DEF AttemptHolds, SameAttempt
  <2>3. QED
    BY <2>1, <2>2
<1>16. CASE NamesRun
  <2>1. /\ WorkShape' /\ made' = made /\ worker.step = "half" /\ worker'.step = "working" /\ SameAttempt
        /\ queue'[worker.job].status = queue[worker.job].status
        /\ queue'[worker.job].token = queue[worker.job].token
        /\ queue'[worker.job].latest = Len(made)
    BY Zenon, <1>1, <1>16, NamesRunWrites
  <2>2. AttemptHolds'
    BY <1>1, <2>1 DEF AttemptHolds, SameAttempt
  <2>3. QED
    BY <2>1, <2>2
<1>17. CASE WritesFindings \/ CompletesRun
  <2>1. HasMadeRun
    BY <1>17 DEF WritesFindings, CompletesRun
  <2>2. /\ WorkShape' /\ queue' = queue /\ SameAttempt
        /\ \/ worker.step = "working" /\ worker'.step = "replacing"
              /\ MyRunIsWritten(made[Len(made)].status, "some")
           \/ worker.step = "replacing" /\ worker'.step = "replaced"
              /\ MyRunIsWritten(made[Len(made)].status, "all")
           \/ worker.step = "replaced" /\ worker'.step = "completed"
              /\ MyRunIsWritten("completed", made[Len(made)].findings)
    BY Zenon, <1>1, <1>17, <2>1, AttemptWrites
  <2>3. AttemptHolds'
    BY <1>1, <1>2, <2>2 DEF AttemptHolds, SameAttempt, MyRunIsWritten, SameRuns
  <2>4. QED
    BY <2>2, <2>3
<1>18. CASE CompletesJob \/ RetriesJob
  <2>1. WorkShape' /\ worker'.step = "rest"
    BY Zenon, <1>1, <1>18, JobIsEnded
  <2>2. QED
    BY <1>3, <2>1
<1>19. CASE FailsAttempt
  <2>1. WorkShape' /\ queue' = queue /\ SameAttempt /\ Attempting /\ worker'.step = "failing"
    BY Zenon, <1>1, <1>19, FailsAttemptWrites
  <2>2. AttemptHolds'
    BY <1>1, <2>1 DEF AttemptHolds, SameAttempt
  <2>3. QED
    BY <2>1, <2>2
<1>20. QED
  BY Zenon, <1>4, <1>5, <1>6, <1>7, <1>8, <1>9, <1>10, <1>11, <1>12, <1>13, <1>14, <1>15, <1>16,
     <1>17, <1>18, <1>19 DEF WorkNext

LEMMA PageSteps == ASSUME WorkInv, WorkNext PROVE PageHolds'
<1> USE DEF Step
<1>1. WorkShape /\ AttemptHolds /\ PageHolds
  BY DEF WorkInv
<1>2. Len(made) \in Nat /\ DOMAIN made = 1 .. Len(made) /\ \A r \in DOMAIN made : made[r].job \in WorkJobs
  BY <1>1 DEF WorkShape, MadeShape, GoodRun
<1>3. ASSUME worker'.step # "page"
      PROVE  PageHolds'
  BY <1>3 DEF PageHolds
<1>4. CASE Admits
  <2>1. /\ made' = made /\ worker' = worker
        /\ \E j \in WorkJobs : OthersStay(j) /\ queue'[j].status = "queued"
    BY Zenon, <1>1, <1>4, AdmitsWrites
  <2>2. PICK j \in WorkJobs : OthersStay(j) /\ queue'[j].status = "queued"
    BY Zenon, <2>1
  <2>3. QED
    BY <1>1, <1>2, <2>1, <2>2 DEF PageHolds, OthersStay
<1>5. CASE LeaseEnds
  <2>1. /\ made' = made /\ worker' = worker
        /\ \A k \in WorkJobs : queue'[k].status = queue[k].status
    BY <1>1, <1>5, LeaseEndsWrites
  <2>2. QED
    BY <1>1, <1>2, <2>1 DEF PageHolds
<1>6. CASE LooksAtCompletion
  <2>1. queue' = queue /\ worker.step = "page" /\ \E r : RunFixed(r) \/ RunPassed(r)
    BY Zenon, <1>1, <1>6, LooksAtCompletionWrites
  <2>2. PICK r : RunFixed(r) \/ RunPassed(r)
    BY <2>1
  <2>3. DOMAIN made' = DOMAIN made /\ \A q \in DOMAIN made : made'[q].job = made[q].job
    BY <2>2 DEF RunFixed, RunPassed, SameRuns
  <2>4. worker'.step = "page" => worker'.todo = worker.todo \ {r}
    BY <2>1, <2>2 DEF RunFixed, RunPassed
  <2>5. QED
    BY <1>1, <2>1, <2>3, <2>4 DEF PageHolds
<1>7. CASE ReadsPage
  <2>1. /\ queue' = queue /\ made' = made
        /\ worker'.todo = {queue[j].latest : j \in {k \in ScanPage :
                             /\ queue[k].latest # 0
                             /\ made[queue[k].latest].status = "completed"
                             /\ ~ActiveAttempt(k)}}
    BY Zenon, <1>1, <1>7, ReadsPageWrites
  <2>2. ASSUME NEW r \in worker'.todo
        PROVE  r \in DOMAIN made /\ queue[made[r].job].status # "completed"
    <3>1. PICK j \in ScanPage : r = queue[j].latest /\ queue[j].latest # 0
      BY Zenon, <2>1, <2>2
    <3>2. j \in WorkJobs /\ queue[j].status # "completed"
      BY DEF ScanPage, Uncompleted
    <3>3. GoodJob(j, queue[j], made)
      BY <1>1, <3>2 DEF WorkShape, QueueShape
    <3>4. QED
      BY <1>2, <3>1, <3>2, <3>3 DEF GoodJob
  <2>3. QED
    BY Zenon, <2>1, <2>2 DEF PageHolds
<1>8. CASE Dies
  BY <1>1, <1>3, <1>8, DiesWrites
<1>9. CASE Polls
  <2>1. worker'.step = "orphans"
    BY Zenon, <1>1, <1>9, PollsWrites
  <2>2. QED
    BY <1>3, <2>1
<1>10. CASE LooksAtRun
  <2>1. worker.step = "orphans" /\ \E r : RunFixed(r) \/ RunPassed(r)
    BY Zenon, <1>1, <1>10, LooksAtRunWrites
  <2>2. worker'.step = worker.step \/ worker'.step = "claim"
    BY <2>1 DEF RunFixed, RunPassed
  <2>3. QED
    BY <1>3, <2>1, <2>2
<1>11. CASE Reconciled
  BY <1>1, <1>3, <1>11, ReconciledWrites
<1>12. CASE RecoversLease
  <2>1. worker'.step = "claim"
    BY Zenon, <1>1, <1>12, RecoversLeaseWrites
  <2>2. QED
    BY <1>3, <2>1
<1>13. CASE TakesJob
  <2>1. worker'.step = "claimed"
    BY Zenon, <1>1, <1>13, TakesJobWrites
  <2>2. QED
    BY <1>3, <2>1
<1>14. CASE TakesNone \/ LosesClaim
  BY <1>1, <1>3, <1>14, RestsAgain
<1>15. CASE WritesRun \/ NamesRun \/ WritesFindings \/ CompletesRun \/ FailsAttempt
  <2>1. WorkerShape
    BY <1>1 DEF WorkShape
  <2>2. PICK s : GoesOn(s) /\ s # "page"
    <3>1. \E s \in {"half", "working", "replacing", "replaced", "completed", "failing"} : GoesOn(s)
      BY Zenon, <1>15 DEF WritesRun, NamesRun, WritesFindings, CompletesRun, FailsAttempt
    <3>2. QED
      BY <3>1
  <2>3. worker'.step = s
    BY Zenon, <2>1, <2>2, AttemptGoesOn
  <2>4. QED
    BY <1>3, <2>2, <2>3
<1>16. CASE CompletesJob \/ RetriesJob
  <2>1. worker'.step = "rest"
    BY Zenon, <1>1, <1>16, JobIsEnded
  <2>2. QED
    BY <1>3, <2>1
<1>17. QED
  BY Zenon, <1>4, <1>5, <1>6, <1>7, <1>8, <1>9, <1>10, <1>11, <1>12, <1>13, <1>14, <1>15, <1>16 DEF WorkNext

\* A job that is completed was so, and its run stays as it is.
CompletionsStay ==
  \A j \in WorkJobs : queue'[j].status = "completed" =>
    /\ queue[j].status = "completed" /\ queue'[j].latest = queue[j].latest
    /\ made'[queue[j].latest] = made[queue[j].latest]

LEMMA CompletedStay ==
  ASSUME CompletedWithFindings, CompletionsStay
  PROVE  CompletedWithFindings'
BY DEF CompletedWithFindings, CompletionsStay

LEMMA QueueKeepsCompletions ==
  ASSUME made' = made,
         NEW j \in WorkJobs, OthersStay(j), queue'[j].status # "completed"
  PROVE  CompletionsStay
BY DEF CompletionsStay, OthersStay

LEMMA CompletedSteps == ASSUME WorkInv, WorkNext PROVE CompletedWithFindings'
<1> USE DEF Step
<1>1. WorkShape /\ AttemptHolds /\ PageHolds /\ CompletedWithFindings
  BY DEF WorkInv
<1>2. Len(made) \in Nat /\ DOMAIN made = 1 .. Len(made)
  BY <1>1 DEF WorkShape, MadeShape
<1>3. ASSUME NEW j \in WorkJobs, queue[j].status = "completed"
      PROVE  /\ queue[j].latest \in DOMAIN made /\ made[queue[j].latest].job = j
             /\ made[queue[j].latest].status = "completed"
  <2>1. GoodJob(j, queue[j], made)
    BY <1>1 DEF WorkShape, QueueShape
  <2>2. queue[j].latest # 0 /\ made[queue[j].latest].status = "completed"
    BY <1>1, <1>3 DEF CompletedWithFindings
  <2>3. QED
    BY <1>2, <2>1, <2>2 DEF GoodJob
<1>4. ASSUME NEW r, RunFixed(r), queue' = queue,
             r \in DOMAIN made => \/ made[r].status # "completed"
                                  \/ queue[made[r].job].status # "completed"
      PROVE  CompletionsStay
  <2>1. \A q \in DOMAIN made : q # r => made'[q] = made[q]
    BY <1>4 DEF RunFixed
  <2>2. QED
    BY <1>3, <1>4, <2>1 DEF CompletionsStay
<1>5. ASSUME NEW status, NEW findings, MyRunIsWritten(status, findings), queue' = queue, HasNamedRun
      PROVE  CompletionsStay
  <2>1. worker.job \in WorkJobs /\ queue[worker.job].status = "in_progress" /\ made[Len(made)].job = worker.job
    BY <1>1, <1>5 DEF AttemptHolds, Attempting, HasMadeRun, HasNamedRun
  <2>2. \A q \in DOMAIN made : q # Len(made) => made'[q] = made[q]
    BY <1>5 DEF MyRunIsWritten
  <2>3. \A j \in WorkJobs : queue[j].status = "completed" => queue[j].latest # Len(made)
    BY <1>3, <2>1
  <2>4. QED
    BY <1>3, <1>5, <2>2, <2>3 DEF CompletionsStay
<1>6. ASSUME queue' = queue, made' = made PROVE CompletionsStay
  BY <1>6 DEF CompletionsStay
<1>7. CASE Admits
  <2>1. made' = made /\ \E j \in WorkJobs : OthersStay(j) /\ queue'[j].status = "queued"
    BY Zenon, <1>1, <1>7, AdmitsWrites
  <2>2. PICK j \in WorkJobs : OthersStay(j) /\ queue'[j].status # "completed"
    BY <2>1
  <2>3. QED
    BY Zenon, <1>1, <2>1, <2>2, QueueKeepsCompletions, CompletedStay
<1>8. CASE LeaseEnds
  <2>1. /\ made' = made
        /\ \A k \in WorkJobs : queue'[k].status = queue[k].status /\ queue'[k].latest = queue[k].latest
    BY <1>1, <1>8, LeaseEndsWrites
  <2>2. CompletionsStay
    BY <2>1 DEF CompletionsStay
  <2>3. QED
    BY <1>1, <2>2, CompletedStay
<1>9. CASE Dies
  <2>1. queue' = queue /\ made' = made
    BY Zenon, <1>1, <1>9, DiesWrites
  <2>2. QED
    BY <1>1, <1>6, <2>1, CompletedStay
<1>10. CASE Polls
  <2>1. made' = made /\ \A k \in WorkJobs : queue'[k] = queue[k] \/ queue'[k].status = "expired"
    BY Zenon, <1>1, <1>10, PollsWrites
  <2>2. CompletionsStay
    BY <2>1 DEF CompletionsStay
  <2>3. QED
    BY <1>1, <2>2, CompletedStay
<1>11. CASE LooksAtRun
  <2>1. queue' = queue /\ \E r : \/ RunFixed(r) /\ made[r].status = "in_progress"
                                 \/ RunPassed(r)
    BY Zenon, <1>1, <1>11, LooksAtRunWrites
  <2>2. PICK r : \/ RunFixed(r) /\ made[r].status # "completed"
                 \/ RunPassed(r)
    BY <2>1
  <2>3. CASE RunPassed(r)
    BY <1>1, <1>6, <2>1, <2>3, CompletedStay DEF RunPassed
  <2>4. QED
    BY Zenon, <1>1, <1>4, <2>1, <2>2, <2>3, CompletedStay
<1>12. CASE LooksAtCompletion
  <2>1. queue' = queue /\ worker.step = "page" /\ \E r \in worker.todo : RunFixed(r) \/ RunPassed(r)
    BY Zenon, <1>1, <1>12, LooksAtCompletionWrites
  <2>2. PICK r \in worker.todo : RunFixed(r) \/ RunPassed(r)
    BY <2>1
  <2>3. queue[made[r].job].status # "completed"
    BY <1>1, <2>1, <2>2 DEF PageHolds
  <2>4. CASE RunPassed(r)
    BY <1>1, <1>6, <2>1, <2>4, CompletedStay DEF RunPassed
  <2>5. QED
    BY Zenon, <1>1, <1>4, <2>1, <2>2, <2>3, <2>4, CompletedStay
<1>13. CASE ReadsPage
  <2>1. queue' = queue /\ made' = made
    BY Zenon, <1>1, <1>13, ReadsPageWrites
  <2>2. QED
    BY <1>1, <1>6, <2>1, CompletedStay
<1>14. CASE Reconciled
  <2>1. queue' = queue /\ made' = made
    BY Zenon, <1>1, <1>14, ReconciledWrites
  <2>2. QED
    BY <1>1, <1>6, <2>1, CompletedStay
<1>15. CASE RecoversLease
  <2>1. made' = made /\ \E j \in WorkJobs : OthersStay(j) /\ queue'[j].status # "completed"
    BY Zenon, <1>1, <1>15, RecoversLeaseWrites
  <2>2. QED
    BY Zenon, <1>1, <2>1, QueueKeepsCompletions, CompletedStay
<1>16. CASE TakesJob
  <2>1. made' = made /\ \E j \in WorkJobs : OthersStay(j) /\ queue'[j].status = "in_progress"
    BY Zenon, <1>1, <1>16, TakesJobWrites
  <2>2. PICK j \in WorkJobs : OthersStay(j) /\ queue'[j].status # "completed"
    BY <2>1
  <2>3. QED
    BY Zenon, <1>1, <2>1, <2>2, QueueKeepsCompletions, CompletedStay
<1>17. CASE TakesNone \/ LosesClaim
  <2>1. queue' = queue /\ made' = made
    BY Zenon, <1>1, <1>17, RestsAgain
  <2>2. QED
    BY <1>1, <1>6, <2>1, CompletedStay
<1>18. CASE WritesRun
  <2>1. queue' = queue /\ \A r \in DOMAIN made : made'[r] = made[r]
    BY Zenon, <1>1, <1>18, WritesRunWrites
  <2>2. CompletionsStay
    BY <1>3, <2>1 DEF CompletionsStay
  <2>3. QED
    BY <1>1, <2>2, CompletedStay
<1>19. CASE NamesRun
  <2>1. /\ made' = made /\ worker.step = "half" /\ worker.job \in WorkJobs /\ OthersStay(worker.job)
        /\ queue'[worker.job].status = queue[worker.job].status
    BY Zenon, <1>1, <1>19, NamesRunWrites
  <2>2. queue'[worker.job].status # "completed"
    BY <1>1, <2>1 DEF AttemptHolds, Attempting
  <2>3. QED
    BY Zenon, <1>1, <2>1, <2>2, QueueKeepsCompletions, CompletedStay
<1>20. CASE WritesFindings \/ CompletesRun
  <2>1. HasMadeRun /\ HasNamedRun
    BY <1>20 DEF WritesFindings, CompletesRun, HasMadeRun, HasNamedRun
  <2>2. queue' = queue /\ \E status, findings : MyRunIsWritten(status, findings)
    BY Zenon, <1>1, <1>20, <2>1, AttemptWrites
  <2>3. QED
    BY Zenon, <1>1, <1>5, <2>1, <2>2, CompletedStay
<1>21. CASE FailsAttempt
  <2>1. queue' = queue /\ (made' = made \/ (HasNamedRun /\ \E kept : MyRunIsWritten("failed", kept)))
    BY Zenon, <1>1, <1>21, FailsAttemptWrites
  <2>2. QED
    BY Zenon, <1>1, <1>5, <1>6, <2>1, CompletedStay
<1>22. CASE CompletesJob \/ RetriesJob
  <2>1. /\ made' = made /\ worker.job \in WorkJobs /\ OthersStay(worker.job)
        /\ queue'[worker.job].latest = queue[worker.job].latest
        /\ worker.step = "completed" \/ queue'[worker.job].status # "completed"
    BY Zenon, <1>1, <1>22, JobIsEnded
  <2>2. CASE worker.step = "completed"
    <3>1. /\ queue[worker.job].latest = Len(made) /\ Len(made) # 0
          /\ made[Len(made)].status = "completed" /\ made[Len(made)].findings = "all"
      BY <1>1, <2>2 DEF AttemptHolds, HasMadeRun, HasNamedRun, HasAllFindings
    <3>2. QED
      BY <1>1, <2>1, <3>1 DEF CompletedWithFindings, OthersStay
  <2>3. CASE queue'[worker.job].status # "completed"
    BY Zenon, <1>1, <2>1, <2>3, QueueKeepsCompletions, CompletedStay
  <2>4. QED
    BY <2>1, <2>2, <2>3
<1>23. QED
  BY Zenon, <1>7, <1>8, <1>9, <1>10, <1>11, <1>12, <1>13, <1>14, <1>15, <1>16, <1>17, <1>18, <1>19,
     <1>20, <1>21, <1>22 DEF WorkNext

\* The steps that change something start the count again; but for these they
\* leave the reconciliation.
LEMMA OtherSteps ==
  ASSUME WorkInv, WorkNext,
         ~(Admits \/ LeaseEnds \/ Polls \/ LooksAtRun \/ ReadsPage \/ LooksAtCompletion
             \/ Reconciled \/ TakesNone \/ LosesClaim)
  PROVE  fruitless' = 0 /\ worker'.step \notin {"orphans", "page"}
<1>1. WorkShape /\ AttemptHolds
  BY DEF WorkInv
<1>2. CASE Dies
  BY <1>1, <1>2, DiesWrites
<1>3. CASE RecoversLease
  <2>1. fruitless' = 0 /\ worker'.step = "claim"
    BY Zenon, <1>1, <1>3, RecoversLeaseWrites
  <2>2. QED
    BY <2>1
<1>4. CASE TakesJob
  <2>1. fruitless' = 0 /\ worker'.step = "claimed"
    BY Zenon, <1>1, <1>4, TakesJobWrites
  <2>2. QED
    BY <2>1
<1>5. CASE WritesRun \/ NamesRun \/ WritesFindings \/ CompletesRun \/ FailsAttempt
  <2>1. WorkerShape
    BY <1>1 DEF WorkShape
  <2>2. Changed /\ \E s \in {"half", "working", "replacing", "replaced", "completed", "failing"} : GoesOn(s)
    BY Zenon, <1>5 DEF WritesRun, NamesRun, WritesFindings, CompletesRun, FailsAttempt
  <2>3. PICK s : GoesOn(s) /\ s \notin {"orphans", "page"}
    BY <2>2
  <2>4. worker'.step = s
    BY Zenon, <2>1, <2>3, AttemptGoesOn
  <2>5. QED
    BY <2>2, <2>3, <2>4 DEF Changed
<1>6. CASE CompletesJob \/ RetriesJob
  <2>1. fruitless' = 0 /\ worker'.step = "rest"
    BY Zenon, <1>1, <1>6, JobIsEnded
  <2>2. QED
    BY <2>1
<1>7. QED
  BY Zenon, <1>2, <1>3, <1>4, <1>5, <1>6 DEF WorkNext

LEMMA OpenRunSteps == ASSUME WorkInv, WorkNext PROVE OpenRunsAreSeen'
<1> USE DEF Step
<1>1. WorkShape /\ OpenRunsAreSeen
  BY DEF WorkInv
<1>2. \A r \in DOMAIN made : made[r].job \in WorkJobs
  BY <1>1 DEF WorkShape, MadeShape, GoodRun
<1>3. ASSUME fruitless' = 0, worker'.step \notin {"orphans", "page"}
      PROVE  OpenRunsAreSeen'
  BY <1>3 DEF OpenRunsAreSeen
<1>4. ASSUME queue' = queue, made' = made
      PROVE  DOMAIN made' = DOMAIN made /\ \A r : OpenRun(r)' <=> OpenRun(r)
  BY <1>4 DEF OpenRun, Abandoned
<1>5. CASE Admits
  <2>1. /\ made' = made /\ worker' = worker /\ fruitless' = 0
        /\ \E j \in WorkJobs : queue[j].status = "absent" /\ OthersStay(j)
    BY Zenon, <1>1, <1>5, AdmitsWrites
  <2>2. PICK j \in WorkJobs : queue[j].status = "absent" /\ OthersStay(j)
    BY Zenon, <2>1
  <2>3. \A r \in DOMAIN made : OpenRun(r)' => OpenRun(r)
    BY <1>2, <2>1, <2>2 DEF OpenRun, Abandoned, OthersStay
  <2>4. QED
    BY <1>1, <2>1, <2>3 DEF OpenRunsAreSeen
<1>6. CASE LeaseEnds
  <2>1. /\ made' = made /\ worker' = worker /\ fruitless' = 0
        /\ \A k \in WorkJobs : queue'[k].status = queue[k].status /\ queue'[k].token = queue[k].token
    BY <1>1, <1>6, LeaseEndsWrites
  <2>2. \A r \in DOMAIN made : OpenRun(r)' => OpenRun(r)
    BY <1>2, <2>1 DEF OpenRun, Abandoned
  <2>3. QED
    BY <1>1, <2>1, <2>2 DEF OpenRunsAreSeen
<1>7. CASE Polls
  <2>1. /\ made' = made /\ worker'.step = "orphans"
        /\ worker'.todo = {r \in DOMAIN made : made[r].status = "in_progress"}
        /\ \/ queue' = queue /\ fruitless' = fruitless
           \/ fruitless' = 0
    BY Zenon, <1>1, <1>7, PollsWrites
  <2>2. WorkShape /\ fruitless \in Nat
    BY <1>1 DEF WorkShape, CountShape
  <2>3. \A r \in DOMAIN made' : OpenRun(r)' => r \in worker'.todo
    BY <2>1 DEF OpenRun
  <2>4. fruitless' > 0 => \A r \in DOMAIN made' : ~OpenRun(r)'
    <3>1. CASE queue' = queue /\ fruitless' = fruitless
      BY <1>1, <1>4, <2>1, <3>1 DEF OpenRunsAreSeen
    <3>2. CASE fruitless' = 0
      BY <3>2
    <3>3. QED
      BY <2>1, <3>1, <3>2
  <2>5. QED
    BY <2>1, <2>3, <2>4 DEF OpenRunsAreSeen
<1>8. CASE LooksAtRun
  <2>1. /\ queue' = queue /\ worker.step = "orphans"
        /\ \E r : RunFixed(r) \/ (RunPassed(r) /\ ~OpenRun(r))
    BY Zenon, <1>1, <1>8, LooksAtRunWrites
  <2>2. PICK r : RunFixed(r) \/ (RunPassed(r) /\ ~OpenRun(r))
    BY <2>1
  <2>3. CASE RunFixed(r)
    <3>1. /\ DOMAIN made' = DOMAIN made /\ fruitless' = 0
          /\ \A q \in DOMAIN made : IF q = r THEN made'[q].status = "failed" ELSE made'[q] = made[q]
          /\ worker'.step = "claim" \/ (worker'.step = worker.step /\ worker'.todo = worker.todo \ {r})
      BY <2>3 DEF RunFixed, SameRuns
    <3>2. \A q \in DOMAIN made : OpenRun(q)' => OpenRun(q) /\ q # r
      BY <2>1, <3>1 DEF OpenRun, Abandoned
    <3>3. QED
      BY <1>1, <2>1, <3>1, <3>2 DEF OpenRunsAreSeen
  <2>4. CASE RunPassed(r) /\ ~OpenRun(r)
    <3>1. /\ made' = made /\ fruitless' = fruitless
          /\ worker'.step = worker.step /\ worker'.todo = worker.todo \ {r}
      BY <2>4 DEF RunPassed
    <3>2. QED
      BY <1>1, <1>4, <2>1, <2>4, <3>1 DEF OpenRunsAreSeen
  <2>5. QED
    BY <2>2, <2>3, <2>4
<1>9. CASE ReadsPage
  <2>1. /\ queue' = queue /\ made' = made /\ fruitless' = fruitless
        /\ worker.step = "orphans" /\ worker.todo = {} /\ worker'.step = "page"
    BY Zenon, <1>1, <1>9, ReadsPageWrites
  <2>2. QED
    BY <1>1, <1>4, <2>1 DEF OpenRunsAreSeen
<1>10. CASE LooksAtCompletion
  <2>1. queue' = queue /\ worker.step = "page" /\ \E r : RunFixed(r) \/ RunPassed(r)
    BY Zenon, <1>1, <1>10, LooksAtCompletionWrites
  <2>2. PICK r : RunFixed(r) \/ RunPassed(r)
    BY <2>1
  <2>3. /\ DOMAIN made' = DOMAIN made
        /\ \A q \in DOMAIN made : made'[q] = made[q] \/ made'[q].status = "failed"
        /\ worker'.step \in {"page", "claim"}
    BY <2>1, <2>2 DEF RunFixed, RunPassed, SameRuns
  <2>4. \A q \in DOMAIN made : ~OpenRun(q)
    BY <1>1, <2>1 DEF OpenRunsAreSeen
  <2>5. \A q \in DOMAIN made' : ~OpenRun(q)'
    BY <2>1, <2>3, <2>4 DEF OpenRun, Abandoned
  <2>6. QED
    BY <2>3, <2>5 DEF OpenRunsAreSeen
<1>11. CASE Reconciled
  <2>1. queue' = queue /\ made' = made /\ worker.step = "page" /\ worker'.step = "claim"
    BY Zenon, <1>1, <1>11, ReconciledWrites
  <2>2. QED
    BY <1>1, <1>4, <2>1 DEF OpenRunsAreSeen
<1>12. CASE TakesNone \/ LosesClaim
  <2>1. queue' = queue /\ made' = made /\ fruitless' = fruitless /\ worker'.step = "rest"
    BY Zenon, <1>1, <1>12, RestsAgain
  <2>2. QED
    BY <1>1, <1>4, <2>1 DEF OpenRunsAreSeen
<1>13. QED
  BY Zenon, <1>3, <1>5, <1>6, <1>7, <1>8, <1>9, <1>10, <1>11, <1>12, OtherSteps

LEMMA UnmendedIsUncompleted ==
  ASSUME QueueShape, NEW j \in WorkJobs, Unmended(j)
  PROVE  j \in Uncompleted
BY DEF QueueShape, GoodJob, Unmended, Uncompleted

LEMMA ScanPageIsPage == ScanPage = PageAt(Uncompleted, scan)
<1>1. \A j : Place(j) = Rank(Uncompleted, j)
  BY DEF Place, Rank
<1>2. QED
  BY <1>1 DEF ScanPage, PageAt

\* Once something has changed there is time for a whole round.
LEMMA CountStartsAgain ==
  ASSUME WorkShape', fruitless' = 0, Step("page")' => scan' <= Pages'
  PROVE  PagesComeRound'
<1>1. Uncompleted' \in SUBSET WorkJobs /\ scan' \in Nat \ {0}
  BY DEF Uncompleted, WorkShape, CountShape
<1>2. ASSUME NEW j \in WorkJobs, Unmended(j)'
      PROVE  /\ ~Step("page")' => fruitless' + Until(j)' < Rounds
             /\ Step("page")' => fruitless' < Rounds /\ fruitless' + 1 + Until(j)' < Rounds
  <2>1. j \in Uncompleted'
    BY <1>2 DEF WorkShape, QueueShape, GoodJob, Unmended, Uncompleted
  <2>2. PICK U, s, u : U = Uncompleted' /\ s = scan' /\ u = UntilAt(U, s, j)
    OBVIOUS
  <2>3. /\ Rounds \in Nat /\ PagesOf(U) \in Nat /\ u \in Nat /\ u < Rounds
        /\ s <= PagesOf(U) => u + 1 < Rounds
    BY <1>1, <2>1, <2>2, RoundsAreEnough
  <2>4. Until(j)' = u /\ Pages' = PagesOf(U)
    BY <2>2 DEF Until, Pages
  <2>5. QED
    BY <2>2, <2>3, <2>4
<1>3. QED
  BY <1>2 DEF PagesComeRound

LEMMA PageCountSteps == ASSUME WorkInv, WorkNext PROVE PagesComeRound'
<1> USE DEF Step
<1>1. WorkShape /\ PageHolds /\ PagesComeRound /\ WorkShape'
  BY AttemptSteps DEF WorkInv
<1>2. fruitless \in Nat /\ scan \in Nat \ {0}
  BY <1>1 DEF WorkShape, CountShape
<1>3. Uncompleted \in SUBSET WorkJobs
  BY DEF Uncompleted
<1>4. ASSUME queue' = queue PROVE Uncompleted' = Uncompleted /\ Pages' = Pages
  BY <1>4 DEF Uncompleted, Pages
<1>5. ASSUME queue' = queue, made' = made, NEW j \in WorkJobs
      PROVE  Unmended(j)' <=> Unmended(j)
  BY <1>5 DEF Unmended, ActiveAttempt, OwnedRow
<1>6. ASSUME NEW j \in WorkJobs, Unmended(j)
      PROVE  j \in Uncompleted
  BY <1>1, <1>6, UnmendedIsUncompleted DEF WorkShape
<1>7. ASSUME NEW j \in WorkJobs, Unmended(j)
      PROVE  Until(j) \in Nat /\ Rounds \in Nat
  BY <1>2, <1>3, <1>6, <1>7, RoundsAreEnough DEF Until
<1>8. ASSUME queue' = queue, made' = made, scan' = scan, fruitless' = fruitless,
             worker.step # "page", worker'.step # "page"
      PROVE  PagesComeRound'
  <2>1. \A j \in WorkJobs : Until(j)' = Until(j)
    BY <1>4, <1>8 DEF Until
  <2>2. QED
    BY <1>1, <1>5, <1>8, <2>1 DEF PagesComeRound
<1>9. CASE Admits
  <2>1. /\ worker' = worker /\ scan' = scan /\ fruitless' = 0
        /\ \E j \in WorkJobs : queue[j].status = "absent" /\ OthersStay(j)
    BY Zenon, <1>1, <1>9, AdmitsWrites
  <2>2. PICK j \in WorkJobs : queue[j].status = "absent" /\ OthersStay(j)
    BY Zenon, <2>1
  <2>3. Uncompleted \in SUBSET Uncompleted' /\ Uncompleted' \in SUBSET WorkJobs
    BY <2>2 DEF Uncompleted, OthersStay
  <2>4. Pages \in Nat /\ Pages' \in Nat /\ Pages <= Pages'
    BY <2>3, PagesGrow DEF Pages
  <2>5. Step("page")' => scan' <= Pages'
    BY <1>1, <1>2, <2>1, <2>4 DEF PagesComeRound
  <2>6. QED
    BY Zenon, <1>1, <2>1, <2>5, CountStartsAgain
<1>10. CASE LeaseEnds
  <2>1. /\ worker' = worker /\ scan' = scan /\ fruitless' = 0
        /\ \A k \in WorkJobs : queue'[k].status = queue[k].status
    BY <1>1, <1>10, LeaseEndsWrites
  <2>2. Uncompleted' = Uncompleted /\ Pages' = Pages
    BY <2>1 DEF Uncompleted, Pages
  <2>3. Step("page")' => scan' <= Pages'
    BY <1>1, <2>1, <2>2 DEF PagesComeRound
  <2>4. QED
    BY Zenon, <1>1, <2>1, <2>3, CountStartsAgain
<1>11. CASE Polls
  <2>1. /\ made' = made /\ scan' = scan /\ worker.step = "rest" /\ worker'.step = "orphans"
        /\ \/ queue' = queue /\ fruitless' = fruitless
           \/ fruitless' = 0
    BY Zenon, <1>1, <1>11, PollsWrites
  <2>2. CASE queue' = queue /\ fruitless' = fruitless
    BY <1>8, <2>1, <2>2
  <2>3. CASE fruitless' = 0
    BY <1>1, <2>1, <2>3, CountStartsAgain
  <2>4. QED
    BY <2>1, <2>2, <2>3
<1>12. CASE LooksAtRun
  <2>1. /\ queue' = queue /\ scan' = scan /\ worker.step = "orphans"
        /\ \E r : RunFixed(r) \/ RunPassed(r)
    BY Zenon, <1>1, <1>12, LooksAtRunWrites
  <2>2. PICK r : RunFixed(r) \/ RunPassed(r)
    BY <2>1
  <2>3. CASE RunFixed(r)
    <3>1. fruitless' = 0 /\ worker'.step # "page"
      BY <2>1, <2>3 DEF RunFixed
    <3>2. QED
      BY <1>1, <3>1, CountStartsAgain
  <2>4. CASE RunPassed(r)
    <3>1. made' = made /\ fruitless' = fruitless /\ worker'.step = worker.step
      BY <2>4 DEF RunPassed
    <3>2. QED
      BY <1>8, <2>1, <3>1
  <2>5. QED
    BY <2>2, <2>3, <2>4
<1>13. CASE ReadsPage
  <2>1. /\ queue' = queue /\ made' = made /\ fruitless' = fruitless
        /\ worker.step = "orphans" /\ worker'.step = "page"
        /\ scan' = IF Cardinality(ScanPage) < ScanSize THEN 1 ELSE scan + 1
        /\ worker'.todo = {queue[j].latest : j \in {k \in ScanPage :
                             /\ queue[k].latest # 0
                             /\ made[queue[k].latest].status = "completed"
                             /\ ~ActiveAttempt(k)}}
    BY Zenon, <1>1, <1>13, ReadsPageWrites
  <2>2. scan' = IF Cardinality(PageAt(Uncompleted, scan)) < ScanSize THEN 1 ELSE scan + 1
    BY <2>1, ScanPageIsPage
  <2>3. /\ scan' <= PagesOf(Uncompleted)
        /\ \A j \in Uncompleted : j \notin PageAt(Uncompleted, scan)
             => UntilAt(Uncompleted, scan, j) = UntilAt(Uncompleted, scan', j) + 1
    BY <1>2, <1>3, <2>2, PageBringsNearer
  <2>4. scan' <= Pages'
    BY <1>4, <2>1, <2>3 DEF Pages
  <2>5. ASSUME NEW j \in WorkJobs, Unmended(j)'
        PROVE  /\ fruitless' < Rounds
               /\ queue'[j].latest \notin worker'.todo => fruitless' + 1 + Until(j)' < Rounds
    <3>1. Unmended(j) /\ j \in Uncompleted
      BY <1>5, <1>6, <2>1, <2>5
    <3>2. fruitless + Until(j) < Rounds /\ Until(j) \in Nat /\ Rounds \in Nat
      BY <1>1, <1>7, <2>1, <3>1 DEF PagesComeRound
    <3>3. j \in ScanPage => queue[j].latest \in worker'.todo
      BY <2>1, <3>1 DEF Unmended
    <3>4. j \notin ScanPage => Until(j) = Until(j)' + 1
      BY <1>4, <2>1, <2>3, <3>1, ScanPageIsPage DEF Until
    <3>5. Until(j)' \in Nat
      <4>1. scan' \in Nat \ {0}
        BY <1>1 DEF WorkShape, CountShape
      <4>2. Until(j)' = UntilAt(Uncompleted, scan', j)
        BY <1>4, <2>1 DEF Until
      <4>3. QED
        BY <1>3, <3>1, <4>1, <4>2, RoundsAreEnough
    <3>6. QED
      BY <1>2, <2>1, <3>2, <3>3, <3>4, <3>5
  <2>6. QED
    BY <2>1, <2>4, <2>5 DEF PagesComeRound
<1>14. CASE LooksAtCompletion
  <2>1. /\ queue' = queue /\ scan' = scan /\ worker.step = "page"
        /\ \E r \in worker.todo : RunFixed(r) \/ (RunPassed(r) /\ made[r].status # "completed")
    BY Zenon, <1>1, <1>14, LooksAtCompletionWrites
  <2>2. PICK r \in worker.todo : RunFixed(r) \/ (RunPassed(r) /\ made[r].status # "completed")
    BY <2>1
  <2>3. scan' <= Pages'
    BY <1>1, <1>4, <2>1 DEF PagesComeRound
  <2>4. CASE RunFixed(r)
    <3>1. fruitless' = 0
      BY <2>4 DEF RunFixed
    <3>2. QED
      BY Zenon, <1>1, <2>3, <3>1, CountStartsAgain
  <2>5. CASE RunPassed(r) /\ made[r].status # "completed"
    <3>1. /\ made' = made /\ fruitless' = fruitless
          /\ worker'.step = "page" /\ worker'.todo = worker.todo \ {r}
      BY <2>1, <2>5 DEF RunPassed
    <3>2. ASSUME NEW j \in WorkJobs, Unmended(j)'
          PROVE  /\ fruitless' < Rounds
                 /\ queue'[j].latest \notin worker'.todo => fruitless' + 1 + Until(j)' < Rounds
      <4>1. Unmended(j)
        BY <1>5, <2>1, <3>1, <3>2
      <4>2. queue[j].latest # r
        BY <2>5, <4>1 DEF Unmended
      <4>3. Until(j)' = Until(j)
        BY <1>4, <2>1 DEF Until
      <4>4. QED
        BY <1>1, <2>1, <3>1, <4>1, <4>2, <4>3 DEF PagesComeRound
    <3>3. QED
      BY <2>3, <3>1, <3>2 DEF PagesComeRound
  <2>6. QED
    BY <2>2, <2>4, <2>5
<1>15. CASE Reconciled
  <2>1. /\ queue' = queue /\ made' = made /\ scan' = scan
        /\ worker.step = "page" /\ worker.todo = {} /\ worker'.step = "claim"
        /\ fruitless' = IF fruitless < Rounds THEN fruitless + 1 ELSE fruitless
    BY Zenon, <1>1, <1>15, ReconciledWrites
  <2>2. ASSUME NEW j \in WorkJobs, Unmended(j)'
        PROVE  fruitless' + Until(j)' < Rounds
    <3>1. Unmended(j)
      BY <1>5, <2>1, <2>2
    <3>2. fruitless < Rounds /\ fruitless + 1 + Until(j) < Rounds
      BY <1>1, <2>1, <3>1 DEF PagesComeRound
    <3>3. Until(j)' = Until(j)
      BY <1>4, <2>1 DEF Until
    <3>4. QED
      BY <2>1, <3>2, <3>3
  <2>3. QED
    BY <2>1, <2>2 DEF PagesComeRound
<1>16. CASE TakesNone \/ LosesClaim
  <2>1. /\ queue' = queue /\ made' = made /\ scan' = scan /\ fruitless' = fruitless
        /\ worker.step # "page" /\ worker'.step = "rest"
    BY Zenon, <1>1, <1>16, RestsAgain
  <2>2. QED
    BY <1>8, <2>1
<1>17. CASE fruitless' = 0 /\ worker'.step \notin {"orphans", "page"}
  BY <1>1, <1>17, CountStartsAgain
<1>18. QED
  BY Zenon, <1>9, <1>10, <1>11, <1>12, <1>13, <1>14, <1>15, <1>16, <1>17, OtherSteps

LEMMA WorkStutters == ASSUME WorkInv, UNCHANGED workVars PROVE WorkInv'
<1>1. queue' = queue /\ made' = made /\ worker' = worker /\ scan' = scan /\ fruitless' = fruitless
  BY DEF workVars
<1>2. WorkShape'
  BY Zenon, <1>1, WorkerStays, OnlyMoves DEF WorkInv, WorkShape
<1>3. AttemptHolds' /\ PageHolds' /\ CompletedWithFindings'
  BY Zenon, <1>1 DEF WorkInv, AttemptHolds, PageHolds, CompletedWithFindings, Attempting, HasMadeRun,
     HasNamedRun, HasAllFindings, Step
<1>4. OpenRunsAreSeen'
  BY Zenon, <1>1 DEF WorkInv, OpenRunsAreSeen, OpenRun, Abandoned, Step
<1>5. PagesComeRound'
  BY Zenon, <1>1 DEF WorkInv, PagesComeRound, Pages, Until, Uncompleted, Unmended, ActiveAttempt, OwnedRow, Step
<1>6. QED
  BY Zenon, <1>2, <1>3, <1>4, <1>5 DEF WorkInv

LEMMA WorkSteps == WorkInv /\ [WorkNext]_workVars => WorkInv'
<1>1. ASSUME WorkInv, WorkNext PROVE WorkInv'
  <2>1. WorkShape' /\ AttemptHolds'
    BY <1>1, AttemptSteps
  <2>2. PageHolds' /\ CompletedWithFindings'
    BY <1>1, PageSteps, CompletedSteps
  <2>3. OpenRunsAreSeen' /\ PagesComeRound'
    BY <1>1, OpenRunSteps, PageCountSteps
  <2>4. QED
    BY Zenon, <2>1, <2>2, <2>3 DEF WorkInv
<1>2. QED
  BY <1>1, WorkStutters

LEMMA WorkAgrees == WorkInv => RunsAgreeWithJobs
<1> SUFFICES ASSUME WorkInv PROVE RunsAgreeWithJobs
  OBVIOUS
<1>1. CompletedWithFindings /\ OpenRunsAreSeen /\ PagesComeRound /\ WorkShape
  BY DEF WorkInv
<1>2. ASSUME fruitless >= Rounds
      PROVE  OpenRunsAreClaimed
  <2>1. Rounds \in Nat /\ Rounds > 0
    <3>1. Cardinality(WorkJobs) \in Nat /\ ScanSize \in Nat \ {0}
      BY WorkAssumption, FS_CardinalityType
    <3>2. Cardinality(WorkJobs) \div ScanSize \in Nat
      BY <3>1, Quotient
    <3>3. QED
      BY <3>2 DEF Rounds
  <2>2. fruitless > 0
    BY <1>1, <1>2, <2>1 DEF WorkShape, CountShape
  <2>3. QED
    BY <1>1, <2>2 DEF OpenRunsAreSeen, OpenRun, OpenRunsAreClaimed
<1>3. ASSUME fruitless >= Rounds, NEW j \in WorkJobs, Unmended(j)
      PROVE  FALSE
  <2>1. j \in Uncompleted /\ Uncompleted \in SUBSET WorkJobs /\ scan \in Nat \ {0} /\ fruitless \in Nat
    BY <1>1, <1>3, UnmendedIsUncompleted DEF WorkShape, CountShape, Uncompleted
  <2>2. Until(j) \in Nat /\ Rounds \in Nat
    BY <2>1, RoundsAreEnough DEF Until
  <2>3. fruitless < Rounds
    BY <1>1, <1>3, <2>1, <2>2 DEF PagesComeRound
  <2>4. QED
    BY <1>3, <2>1, <2>2, <2>3
<1>4. QED
  BY Zenon, <1>1, <1>2, <1>3 DEF RunsAgreeWithJobs

\* Runs and jobs agree whatever writes were lost: a completed job names a
\* completed run with all of its findings, and once as many reconciliations as
\* there can be pages have found nothing to mend, every run in progress is
\* under its job's claim and no job is left that its completed run outran.
THEOREM ReconciliationMends == WorkSpec => []RunsAgreeWithJobs
<1>1. WorkInit => WorkInv
  BY WorkBegins
<1>2. WorkInv /\ [WorkNext]_workVars => WorkInv'
  BY WorkSteps
<1>3. WorkInv => RunsAgreeWithJobs
  BY WorkAgrees
<1>4. QED
  BY <1>1, <1>2, <1>3, PTL DEF WorkSpec

-----------------------------------------------------------------------------
(* The types of the jobs, of the runs and of the process *)

JobStates == {"absent", "queued", "in_progress", "completed", "failed", "expired"}
RunStates == {"in_progress", "completed", "failed"}
JobTyped(row) == row.status \in JobStates /\ (row.live => row.status = "in_progress")
JobsTyped == \A j \in WorkJobs : JobTyped(queue[j])
RunsTyped == \A r \in DOMAIN made : made[r].status \in RunStates
WorkTypes == JobsTyped /\ RunsTyped /\ worker.job \in WorkJobs \cup {0}

LEMMA RowTyped ==
  ASSUME QueueShape, JobsTyped, NEW j \in WorkJobs, NEW row, SetJob(j, row), JobTyped(row)
  PROVE  JobsTyped'
<1>1. \A k \in WorkJobs : queue'[k] = IF k = j THEN row ELSE queue[k]
  BY Zenon, JobIsSet
<1>2. QED
  BY Zenon, <1>1 DEF JobsTyped

\* Of a row a status that is no claim is written with no lease.
LEMMA RestingRowTyped ==
  ASSUME NEW row, row.status \in JobStates, row.live = FALSE PROVE JobTyped(row)
BY Zenon DEF JobTyped

LEMMA JobsStayTyped == ASSUME JobsTyped, queue' = queue PROVE JobsTyped'
BY Zenon DEF JobsTyped

LEMMA RunsStayTyped == ASSUME RunsTyped, made' = made PROVE RunsTyped'
BY Zenon DEF RunsTyped

LEMMA RunFixedTyped == ASSUME RunsTyped, NEW r, RunFixed(r) PROVE RunsTyped'
BY DEF RunsTyped, RunFixed, SameRuns, RunStates

LEMMA MyRunTyped ==
  ASSUME RunsTyped, NEW status \in RunStates, NEW findings, MyRunIsWritten(status, findings)
  PROVE  RunsTyped'
BY DEF RunsTyped, MyRunIsWritten, SameRuns

\* The process works for the job it took, or for none.
LEMMA WorkerTyped ==
  ASSUME WorkInv, WorkNext, worker.job \in WorkJobs \cup {0} PROVE worker'.job \in WorkJobs \cup {0}
<1>1. WorkerShape
  BY DEF WorkInv, WorkShape
<1>2. CASE worker' = worker
  BY <1>2
<1>3. CASE worker'.job = 0
  BY <1>3
<1>4. CASE \E s : GoesOn(s)
  <2>1. PICK s : GoesOn(s)
    BY <1>4
  <2>2. SameAttempt
    BY Zenon, <1>1, <2>1, AttemptGoesOn
  <2>3. QED
    BY <2>2 DEF SameAttempt
<1>5. ASSUME NEW r, Fixes(r) \/ PassesBy(r)
      PROVE  worker'.job \in WorkJobs \cup {0}
  <2>1. CASE Fixes(r)
    <3>1. \/ worker' = [Resting EXCEPT !.step = "claim"]
          \/ worker' = [worker EXCEPT !.todo = @ \ {r}, !.fixed = @ + 1]
      BY <2>1 DEF Fixes, EndsReconciliation
    <3>2. worker'.job = 0 \/ worker'.job = worker.job
      BY <1>1, <3>1 DEF Resting, WorkerShape
    <3>3. QED
      BY <3>2
  <2>2. CASE PassesBy(r)
    <3>1. worker' = [worker EXCEPT !.todo = @ \ {r}]
      BY Zenon, <2>2 DEF PassesBy
    <3>2. worker'.job = worker.job
      BY <1>1, <3>1 DEF WorkerShape
    <3>3. QED
      BY <3>2
  <2>3. QED
    BY Zenon, <1>5, <2>1, <2>2
<1>6. CASE Admits \/ LeaseEnds \/ RecoversLease
  BY Zenon, <1>2, <1>6 DEF Admits, LeaseEnds, RecoversLease
<1>7. CASE Dies \/ CompletesJob \/ RetriesJob \/ TakesNone \/ LosesClaim
  <2>1. worker' = Resting
    BY Zenon, <1>7 DEF Dies, CompletesJob, RetriesJob, TakesNone, LosesClaim
  <2>2. QED
    BY <1>3, <2>1 DEF Resting
<1>8. CASE Polls
  <2>1. PICK todo : worker' = [Resting EXCEPT !.step = "orphans", !.todo = todo]
    BY Zenon, <1>8 DEF Polls
  <2>2. QED
    BY <1>3, <2>1 DEF Resting
<1>9. CASE LooksAtRun \/ LooksAtCompletion
  <2>1. \E r : Fixes(r) \/ PassesBy(r)
    BY Zenon, <1>9 DEF LooksAtRun, LooksAtCompletion
  <2>2. QED
    BY Zenon, <1>5, <2>1
<1>10. CASE ReadsPage
  <2>1. PICK todo : worker' = [worker EXCEPT !.step = "page", !.todo = todo]
    BY Zenon, <1>10 DEF ReadsPage
  <2>2. worker'.job = worker.job
    BY <1>1, <2>1 DEF WorkerShape
  <2>3. QED
    BY <2>2
<1>11. CASE Reconciled
  <2>1. worker' = [Resting EXCEPT !.step = "claim"]
    BY Zenon, <1>11 DEF Reconciled, EndsReconciliation
  <2>2. QED
    BY <1>3, <2>1 DEF Resting
<1>12. CASE TakesJob
  BY <1>12, TakesJobWrites DEF WorkInv
<1>13. CASE WritesRun \/ NamesRun \/ WritesFindings \/ CompletesRun \/ FailsAttempt
  BY Zenon, <1>4, <1>13 DEF WritesRun, NamesRun, WritesFindings, CompletesRun, FailsAttempt
<1>14. QED
  BY Zenon, <1>6, <1>7, <1>8, <1>9, <1>10, <1>11, <1>12, <1>13 DEF WorkNext

\* Every status that is written is one of its kind.
LEMMA RunStatusSteps == ASSUME WorkInv, WorkNext, RunsTyped PROVE RunsTyped'
<1>1. WorkShape /\ AttemptHolds
  BY DEF WorkInv
<1>2. CASE made' = made
  BY Zenon, <1>2, RunsStayTyped
<1>3. CASE LooksAtRun
  <2>1. PICK r : RunFixed(r) \/ RunPassed(r)
    BY Zenon, <1>1, <1>3, LooksAtRunWrites
  <2>2. QED
    BY Zenon, <1>2, <2>1, RunFixedTyped DEF RunPassed
<1>4. CASE LooksAtCompletion
  <2>1. PICK r : RunFixed(r) \/ RunPassed(r)
    BY Zenon, <1>1, <1>4, LooksAtCompletionWrites
  <2>2. QED
    BY Zenon, <1>2, <2>1, RunFixedTyped DEF RunPassed
<1>5. CASE WritesRun
  <2>1. PICK run : run = [job |-> worker.job, token |-> worker.token,
                          status |-> "in_progress", findings |-> "none"]
    OBVIOUS
  <2>2. made' = Append(made, run) /\ run.status \in RunStates
    BY <1>5, <2>1 DEF WritesRun, RunStates
  <2>3. PICK S : S = {made[r] : r \in DOMAIN made} \cup {run}
    OBVIOUS
  <2>4. made \in Seq(S)
    BY <1>1, <2>3 DEF WorkShape, MadeShape
  <2>5. PICK n \in Nat : n = Len(made)
    BY <2>4
  <2>6. /\ DOMAIN made = 1 .. n /\ DOMAIN made' = 1 .. n + 1
        /\ \A r \in 1 .. n : made'[r] = made[r]
        /\ made'[n + 1] = run
    BY <2>2, <2>3, <2>4, <2>5
  <2>7. QED
    BY <2>2, <2>6 DEF RunsTyped
<1>6. CASE WritesFindings \/ CompletesRun
  <2>1. worker.step \in {"working", "replacing", "replaced"}
    BY <1>6 DEF WritesFindings, CompletesRun, Step
  <2>2. HasMadeRun
    BY <2>1 DEF HasMadeRun
  <2>3. PICK status, findings : /\ MyRunIsWritten(status, findings)
                                /\ status \in {made[Len(made)].status, "completed"}
    <3>1. \E status, findings : /\ MyRunIsWritten(status, findings)
                                /\ status = made[Len(made)].status \/ status = "completed"
      BY Zenon, <1>1, <1>6, <2>2, AttemptWrites
    <3>2. QED
      BY <3>1
  <2>4. Len(made) \in DOMAIN made
    BY Zenon, <2>3 DEF MyRunIsWritten
  <2>5. status \in RunStates
    BY <2>3, <2>4 DEF RunsTyped, RunStates
  <2>6. QED
    BY Zenon, <2>3, <2>5, MyRunTyped
<1>7. CASE FailsAttempt
  <2>1. \/ made' = made
        \/ \E kept : MyRunIsWritten("failed", kept)
    BY Zenon, <1>1, <1>7, FailsAttemptWrites
  <2>2. "failed" \in RunStates
    BY DEF RunStates
  <2>3. QED
    BY Zenon, <1>2, <2>1, <2>2, MyRunTyped
<1>8. QED
  BY Zenon, <1>2, <1>3, <1>4, <1>5, <1>6, <1>7 DEF WorkNext, Admits, LeaseEnds, Dies, Polls, ReadsPage,
     Reconciled, RecoversLease, TakesJob, TakesNone, NamesRun, CompletesJob, RetriesJob, LosesClaim

LEMMA JobStatusSteps == ASSUME WorkInv, WorkNext, WorkTypes PROVE JobsTyped'
<1>1. WorkShape /\ AttemptHolds /\ QueueShape /\ JobsTyped
  BY DEF WorkInv, WorkShape, WorkTypes
<1>2. CASE queue' = queue
  BY Zenon, <1>1, <1>2, JobsStayTyped
<1>3. ASSUME NEW j \in WorkJobs, NEW row, SetJob(j, row), JobTyped(row)
      PROVE  JobsTyped'
  BY Zenon, <1>1, <1>3, RowTyped
<1>4. CASE Admits
  <2>1. PICK empty : empty = NoJobRow
    OBVIOUS
  <2>2. PICK row : row = [empty EXCEPT !.status = "queued"]
    OBVIOUS
  <2>3. PICK j \in WorkJobs : SetJob(j, row)
    BY Zenon, <1>4, <2>1, <2>2 DEF Admits
  <2>4. PICK no : no = FALSE
    OBVIOUS
  <2>5. empty = [status |-> "absent", token |-> NoClaim, latest |-> 0, retries |-> 0, live |-> no]
    BY Zenon, <2>1, <2>4 DEF NoJobRow
  <2>6. row.status = "queued" /\ row.live = no
    BY ONLY <2>2, <2>5
  <2>7. row.status \in JobStates
    BY <2>6 DEF JobStates
  <2>8. JobTyped(row)
    BY Zenon, <2>4, <2>6, <2>7, RestingRowTyped
  <2>9. QED
    BY Zenon, <1>3, <2>3, <2>8
<1>5. CASE LeaseEnds
  <2>1. PICK j \in WorkJobs : queue' = [queue EXCEPT ![j].live = FALSE]
    BY <1>5 DEF LeaseEnds
  <2>2. PICK no : no = FALSE
    OBVIOUS
  <2>3. PICK row : row = [queue[j] EXCEPT !.live = no]
    OBVIOUS
  <2>4. SetJob(j, row)
    BY <2>1, <2>2, <2>3 DEF SetJob
  <2>5. GoodJob(j, queue[j], made)
    BY <1>1 DEF QueueShape
  <2>6. row.status = queue[j].status /\ row.live = no
    BY ONLY <2>3, <2>5 DEF GoodJob
  <2>7. row.status \in JobStates
    BY Zenon, <1>1, <2>6 DEF JobsTyped, JobTyped
  <2>8. QED
    BY Zenon, <1>3, <2>2, <2>4, <2>6, <2>7, RestingRowTyped
<1>6. CASE Polls
  <2>1. PICK old \in SUBSET {j \in WorkJobs : queue[j].status = "queued"} :
          queue' = [j \in WorkJobs |-> IF j \in old THEN [queue[j] EXCEPT !.status = "expired"] ELSE queue[j]]
    BY Zenon, <1>6 DEF Polls
  <2>2. ASSUME NEW j \in WorkJobs
        PROVE  JobTyped(queue'[j])
    <3>1. CASE j \notin old
      <4>1. queue'[j] = queue[j]
        BY <2>1, <3>1
      <4>2. QED
        BY Zenon, <1>1, <4>1 DEF JobsTyped
    <3>2. CASE j \in old
      <4>1. PICK was, row : was = queue[j] /\ row = [was EXCEPT !.status = "expired"]
        OBVIOUS
      <4>2. queue'[j] = row
        BY <2>1, <3>2, <4>1
      <4>3. GoodJob(j, was, made) /\ was.status = "queued"
        BY <1>1, <2>1, <3>2, <4>1 DEF QueueShape
      <4>4. row.status = "expired" /\ row.live = was.live
        BY ONLY <4>1, <4>3 DEF GoodJob
      <4>5. "expired" \in JobStates /\ "queued" # "in_progress"
        BY DEF JobStates
      <4>6. ~was.live
        BY Zenon, <1>1, <4>1, <4>3, <4>5 DEF JobsTyped, JobTyped
      <4>7. QED
        BY Zenon, <4>2, <4>4, <4>5, <4>6 DEF JobTyped
    <3>3. QED
      BY <3>1, <3>2
  <2>3. QED
    BY Zenon, <2>2 DEF JobsTyped
<1>7. CASE RecoversLease
  <2>1. PICK j \in Overdue :
          SetJob(j, [queue[j] EXCEPT !.status = IF queue[j].retries < WorkRetries THEN "queued" ELSE "failed",
                                     !.retries = @ + 1, !.token = NoClaim])
    BY Zenon, <1>7 DEF RecoversLease
  <2>2. j \in WorkJobs /\ ~queue[j].live
    BY Zenon DEF Overdue
  <2>3. PICK old, status : old = queue[j] /\ status = IF queue[j].retries < WorkRetries THEN "queued" ELSE "failed"
    OBVIOUS
  <2>4. PICK one : one = [old EXCEPT !.status = status]
    OBVIOUS
  <2>5. PICK two : two = [one EXCEPT !.retries = @ + 1]
    OBVIOUS
  <2>6. PICK row : row = [two EXCEPT !.token = NoClaim]
    OBVIOUS
  <2>7. GoodJob(j, old, made)
    BY <1>1, <2>2, <2>3 DEF QueueShape
  <2>8. one = [status |-> status, token |-> old.token, latest |-> old.latest,
               retries |-> old.retries, live |-> old.live]
    BY ONLY <2>4, <2>7 DEF GoodJob
  <2>9. two = [status |-> status, token |-> old.token, latest |-> old.latest,
               retries |-> old.retries + 1, live |-> old.live]
    BY ONLY <2>5, <2>8
  <2>10. row.status = status /\ row.live = old.live
    BY ONLY <2>6, <2>9
  <2>11. SetJob(j, row)
    <3>1. row = [old EXCEPT !.status = status, !.retries = @ + 1, !.token = NoClaim]
      BY <2>4, <2>5, <2>6
    <3>2. QED
      BY Zenon, <2>1, <2>3, <3>1
  <2>12. status \in JobStates
    BY <2>3 DEF JobStates
  <2>13. JobTyped(row)
    BY Zenon, <2>2, <2>3, <2>10, <2>12 DEF JobTyped
  <2>14. QED
    BY Zenon, <1>3, <2>2, <2>11, <2>13
<1>8. CASE TakesJob
  <2>1. PICK j \in WorkJobs : /\ OthersStay(j) /\ queue'[j].status = "in_progress"
    BY Zenon, <1>1, <1>8, TakesJobWrites
  <2>2. "in_progress" \in JobStates
    BY DEF JobStates
  <2>3. QED
    BY Zenon, <1>1, <2>1, <2>2 DEF OthersStay, JobsTyped, JobTyped
<1>9. CASE NamesRun
  <2>1. PICK j \in WorkJobs : j = worker.job /\ OthersStay(j) /\ queue'[j].status = queue[j].status
    BY Zenon, <1>1, <1>9, NamesRunWrites
  <2>2. queue[j].status = "in_progress"
    BY <1>1, <1>9, <2>1 DEF AttemptHolds, Attempting, NamesRun, Step
  <2>3. queue'[j].status = "in_progress" /\ "in_progress" \in JobStates
    BY <2>1, <2>2 DEF JobStates
  <2>4. QED
    BY Zenon, <1>1, <2>1, <2>3 DEF OthersStay, JobsTyped, JobTyped
<1>10. CASE CompletesJob \/ RetriesJob
  <2>1. worker.step \in {"completed", "failing"}
    BY <1>10 DEF CompletesJob, RetriesJob, Step
  <2>2. PICK j \in WorkJobs : j = worker.job
    BY <1>1, <2>1 DEF AttemptHolds, Attempting
  <2>3. PICK status \in {"completed", "queued", "failed"} : \E retries : EndsJob(status, retries)
    <3>1. CASE CompletesJob
      <4>1. EndsJob("completed", queue[worker.job].retries)
        BY Zenon, <3>1 DEF CompletesJob
      <4>2. QED
        BY <4>1
    <3>2. CASE RetriesJob
      <4>1. PICK tries : tries = queue[worker.job].retries + 1
        OBVIOUS
      <4>2. EndsJob(IF tries <= WorkRetries THEN "queued" ELSE "failed", tries)
        BY Zenon, <3>2, <4>1 DEF RetriesJob
      <4>3. (IF tries <= WorkRetries THEN "queued" ELSE "failed") \in {"completed", "queued", "failed"}
        OBVIOUS
      <4>4. QED
        BY Zenon, <4>2, <4>3
    <3>3. QED
      BY Zenon, <1>10, <3>1, <3>2
  <2>4. PICK retries : EndsJob(status, retries)
    BY <2>3
  <2>5. PICK no, row : /\ no = FALSE
                       /\ row = [status |-> status, token |-> NoClaim, latest |-> queue[j].latest,
                                 retries |-> retries, live |-> no]
    OBVIOUS
  <2>6. SetJob(j, row)
    <3>1. SetJob(j, [status |-> status, token |-> NoClaim, latest |-> queue[j].latest,
                     retries |-> retries, live |-> FALSE])
      BY Zenon, <1>1, <2>2, <2>4, JobEnds
    <3>2. QED
      BY Zenon, <2>5, <3>1
  <2>7. row.status = status /\ row.live = no
    BY ONLY <2>5
  <2>8. row.status \in JobStates
    BY <2>7 DEF JobStates
  <2>9. QED
    BY Zenon, <1>3, <2>5, <2>6, <2>7, <2>8, RestingRowTyped
<1>11. QED
  BY Zenon, <1>2, <1>4, <1>5, <1>6, <1>7, <1>8, <1>9, <1>10 DEF WorkNext, Dies, LooksAtRun, ReadsPage,
     LooksAtCompletion, Reconciled, TakesNone, WritesRun, WritesFindings, CompletesRun, FailsAttempt, LosesClaim

WorkTyped == WorkInv /\ WorkTypes

LEMMA WorkTypesBegin == WorkInit => WorkTyped
<1> SUFFICES ASSUME WorkInit PROVE WorkTyped
  OBVIOUS
<1>1. WorkInv
  BY WorkBegins
<1>2. DOMAIN made = {} /\ worker.job = 0
  BY DEF WorkInit, Resting
<1>3. ASSUME NEW j \in WorkJobs PROVE JobTyped(queue[j])
  <2>1. PICK no : no = FALSE
    OBVIOUS
  <2>2. queue[j] = [status |-> "absent", token |-> NoClaim, latest |-> 0, retries |-> 0, live |-> no]
    BY Zenon, <2>1 DEF WorkInit, NoJobRow
  <2>3. queue[j].status \in JobStates /\ queue[j].live = no
    BY <2>2 DEF JobStates
  <2>4. QED
    BY Zenon, <2>1, <2>3, RestingRowTyped
<1>4. QED
  BY <1>1, <1>2, <1>3 DEF WorkTyped, WorkTypes, JobsTyped, RunsTyped

LEMMA WorkTypesStep == WorkTyped /\ [WorkNext]_workVars => WorkTyped'
<1>1. ASSUME WorkTyped, WorkNext PROVE WorkTypes'
  BY <1>1, JobStatusSteps, RunStatusSteps, WorkerTyped DEF WorkTyped, WorkTypes
<1>2. ASSUME WorkTyped, UNCHANGED workVars PROVE WorkTypes'
  BY Zenon, <1>2 DEF WorkTyped, WorkTypes, JobsTyped, RunsTyped, workVars
<1>3. QED
  BY <1>1, <1>2, WorkSteps DEF WorkTyped

LEMMA WorkTypesSuffice == WorkTyped => WorkTypeOK
<1> SUFFICES ASSUME WorkTyped PROVE WorkTypeOK
  OBVIOUS
<1>1. ASSUME NEW j \in WorkJobs
      PROVE  /\ queue[j].status \in {"absent", "queued", "in_progress", "completed", "failed", "expired"}
             /\ queue[j].latest \in 0 .. Len(made)
             /\ queue[j].live => queue[j].status = "in_progress"
  <2>1. JobTyped(queue[j])
    BY Zenon DEF WorkTyped, WorkTypes, JobsTyped
  <2>2. GoodJob(j, queue[j], made)
    BY Zenon DEF WorkTyped, WorkInv, WorkShape, QueueShape
  <2>3. QED
    BY Zenon, <2>1, <2>2 DEF JobTyped, JobStates, GoodJob
<1>2. \A r \in DOMAIN made : made[r].status \in {"in_progress", "completed", "failed"}
  BY Zenon DEF WorkTyped, WorkTypes, RunsTyped, RunStates
<1>3. worker.job \in WorkJobs \cup {0} /\ scan \in Nat \ {0}
  BY Zenon DEF WorkTyped, WorkTypes, WorkInv, WorkShape, CountShape
<1>4. QED
  BY Zenon, <1>1, <1>2, <1>3 DEF WorkTypeOK

-----------------------------------------------------------------------------
(* The watch of a job *)

WatchSpec == WatchInit /\ [][WatchNext]_watchVars

Gone == watched.status \in Ended \cup {"removed"}

\* The job, its runs and their logs.  A job that has ended stays as it is or is
\* removed; its runs are the runs that have logs, or they were removed, and then
\* the job has ended.
WorldHolds ==
  /\ watched \in [status : {"queued", "in_progress", "removed"} \cup Ended, token : Nat,
                  latest : Nat, retries : Nat]
  /\ watchedRuns \in Seq([token : Nat, status : {"in_progress"} \cup Ended, findings : {0, 1}])
  /\ logs \in Seq(Nat)
  /\ watched.latest = IF watched.status = "removed" THEN NoRun ELSE Len(logs)
  /\ \/ Len(watchedRuns) = Len(logs)
     \/ Len(watchedRuns) = 0 /\ Gone
  /\ watched.status = "removed" => Len(watchedRuns) = 0
  /\ watched.status = "completed" =>
       /\ Len(logs) # 0
       /\ Len(watchedRuns) # 0 => watchedRuns[Len(logs)].status = "completed"

WatcherShape ==
  /\ watcher = [step |-> watcher.step, job |-> watcher.job, run |-> watcher.run,
                seen |-> watcher.seen, tail |-> watcher.tail]
  /\ watcher.tail = [offset |-> watcher.tail.offset, buffer |-> watcher.tail.buffer,
                     lines |-> watcher.tail.lines, available |-> watcher.tail.available]
  /\ view = [activities |-> view.activities, summary |-> view.summary]

\* What the watch has read of the job and of its runs, if it was the end.
JobIsRead ==
  /\ watcher.job.latest \in 0 .. Len(logs)
  /\ watcher.job.status \in Ended => watched \in {watcher.job, Removed}
  /\ watcher.job.status = "completed" => watcher.job.latest # NoRun
RunIsRead ==
  /\ watcher.run \in 0 .. Len(logs)
  /\ watcher.step = "tail" => watcher.run # NoRun
  /\ watcher.step \in {"tail", "judge", "findings", "result"} /\ watcher.job.status \in Ended =>
       /\ watcher.run = watcher.job.latest
       /\ watcher.job.status = "completed" => watcher.seen = "completed"

\* The whole lines up to a place, and the piece that is left over there.
LinesTo(place) == [k \in 1 .. place \div 2 |-> Line(k)]
LeftAt(place) == IF place % 2 = 0 THEN <<>> ELSE <<place>>

\* The tail of a log that nobody cut: the lines read, the piece of a line that is
\* left over, and the place it has come to.
TailHolds ==
  ~cut =>
    LET tail == watcher.tail
    IN  /\ tail.offset \in Nat
        /\ tail.lines = LinesTo(tail.offset)
        /\ tail.buffer = LeftAt(tail.offset)
        /\ tail.offset <= IF watcher.run = NoRun THEN 0 ELSE logs[watcher.run]

\* The summary is of the job and the run that were read.
SummaryTold(sum) ==
  /\ sum.job = watcher.job.status /\ sum.run = watcher.run /\ sum.runStatus = watcher.seen
  /\ watcher.run # NoRun /\ Len(watchedRuns) # 0 => sum.findings = watchedRuns[watcher.run].findings
SummaryHolds ==
  /\ watcher.step \in {"findings", "result"} => watcher.job.status \in Ended
  /\ watcher.step = "result" => view.summary # <<>> /\ watcher.job.status = "completed"
  /\ view.summary # <<>> => watcher.step \in {"findings", "result"} /\ SummaryTold(view.summary[1])
  /\ view.summary # <<>> /\ watcher.step = "findings" => exit # "none"
  /\ exit = "0" => watcher.step = "result"
  /\ exit = "error" => watched.status = "removed" \/ (Len(watchedRuns) = 0 /\ Gone)

WatchInv ==
  /\ WorldHolds /\ WatcherShape /\ JobIsRead /\ RunIsRead /\ TailHolds /\ SummaryHolds

LEMMA WatchBegins == WatchInit => WatchInv
<1> SUFFICES ASSUME WatchInit PROVE WatchInv
  OBVIOUS
<1>1. watched = [status |-> "queued", token |-> 0, latest |-> 0, retries |-> 0]
  BY DEF WatchInit, NoRun
<1>2. watchedRuns = <<>> /\ logs = <<>> /\ Len(watchedRuns) = 0 /\ Len(logs) = 0
  BY DEF WatchInit
<1>3. /\ watcher = [step |-> "job", job |-> Removed, run |-> 0, seen |-> "none", tail |-> NewTail]
      /\ view = [activities |-> <<>>, summary |-> <<>>] /\ exit = "none"
  BY DEF WatchInit, NoRun
<1>4. WorldHolds
  BY <1>1, <1>2 DEF WorldHolds, Gone, Ended
<1>5. PICK no : no = FALSE
  OBVIOUS
<1>6. PICK tail : tail = [offset |-> 0, buffer |-> <<>>, lines |-> <<>>, available |-> no]
  OBVIOUS
<1>7. NewTail = tail
  BY Zenon, <1>5, <1>6 DEF NewTail
<1>8. PICK job : job = Removed
  OBVIOUS
<1>9. job.status = "removed" /\ job.latest = 0
  BY <1>8 DEF Removed
<1>10. WatcherShape
  BY <1>3, <1>6, <1>7 DEF WatcherShape
<1>11. /\ watcher.step = "job" /\ watcher.job = job /\ watcher.run = 0 /\ watcher.tail = tail
       /\ view.summary = <<>>
  BY <1>3, <1>7, <1>8
<1>12. JobIsRead /\ RunIsRead /\ SummaryHolds
  BY <1>2, <1>3, <1>9, <1>11 DEF JobIsRead, RunIsRead, SummaryHolds, NoRun, Ended
<1>13. TailHolds
  <2>1. [k \in 1 .. 0 |-> Line(k)] = <<>>
    OBVIOUS
  <2>2. 0 \div 2 = 0 /\ 0 % 2 = 0
    OBVIOUS
  <2>3. tail.offset = 0 /\ tail.lines = <<>> /\ tail.buffer = <<>>
    BY <1>6
  <2>4. QED
    BY <1>11, <2>1, <2>2, <2>3 DEF TailHolds, LinesTo, LeftAt, NoRun
<1>14. QED
  BY <1>4, <1>10, <1>12, <1>13 DEF WatchInv

\* What the world may do to what a watch has read.
WorldMoves ==
  /\ Len(logs') >= Len(logs)
  /\ ~cut' => ~cut /\ \A r \in 1 .. Len(logs) : logs[r] <= logs'[r]
  /\ watched.status \in Ended => watched' \in {watched, Removed}
  /\ watched.status = "removed" => watched' = watched
  /\ Gone => \/ Len(watchedRuns') = 0
             \/ /\ Len(watchedRuns') = Len(watchedRuns)
                /\ \A r \in 1 .. Len(watchedRuns) : watchedRuns'[r].findings = watchedRuns[r].findings

Worker ==
  \/ WorkerClaims \/ WorkerStartsRun \/ WorkerLogs \/ WorkerFinds \/ WorkerEndsRun
  \/ WorkerEndsJob \/ LeaseIsLost \/ JobTooOld \/ RunsReconciled \/ TenantGoes \/ LogIsCut

WatchedType ==
  [status : {"queued", "in_progress", "removed"} \cup Ended, token : Nat, latest : Nat, retries : Nat]
WatchedRunType == [token : Nat, status : {"in_progress"} \cup Ended, findings : {0, 1}]

\* The job is written while its runs stay.
LEMMA JobMoves ==
  ASSUME WorldHolds, watched.status \in {"queued", "in_progress"}, watched' \in WatchedType,
         watched'.latest = watched.latest, watched'.status # "removed",
         watchedRuns' = watchedRuns, logs' = logs, cut' = cut,
         watched'.status = "completed" =>
           Len(watchedRuns) # 0 /\ watchedRuns[Len(watchedRuns)].status = "completed"
  PROVE  WorldHolds' /\ WorldMoves
<1>1. watched.latest = Len(logs) /\ Len(watchedRuns) = Len(logs) /\ Len(logs) \in Nat
  BY DEF WorldHolds, Gone, Ended
<1>2. watchedRuns' \in Seq([token : Nat, status : {"in_progress"} \cup Ended, findings : {0, 1}])
      /\ logs' \in Seq(Nat)
  BY DEF WorldHolds
<1>3. WorldHolds'
  BY <1>1, <1>2 DEF WorldHolds, WatchedType, NoRun
<1>4. \A r \in 1 .. Len(logs) : logs[r] \in Nat
  BY DEF WorldHolds
<1>5. WorldMoves
  BY <1>1, <1>4 DEF WorldMoves, Gone, Ended
<1>6. QED
  BY <1>3, <1>5

\* A run is written while its job stays.
LEMMA WatchedRunMoves ==
  ASSUME WorldHolds, watched' = watched, logs' = logs, cut' = cut,
         watchedRuns' \in Seq(WatchedRunType), Len(watchedRuns') = Len(watchedRuns),
         NEW r \in 1 .. Len(watchedRuns),
         \A q \in 1 .. Len(watchedRuns) : q # r => watchedRuns'[q] = watchedRuns[q],
         watched.status = "completed" => r # Len(watchedRuns) \/ watchedRuns'[r].status = "completed",
         Gone => watchedRuns'[r].findings = watchedRuns[r].findings
  PROVE  WorldHolds' /\ WorldMoves
<1>1. Len(watchedRuns) \in Nat /\ Len(logs) \in Nat /\ Len(watchedRuns) # 0 /\ Len(watchedRuns) = Len(logs)
  BY DEF WorldHolds
<1>2. WorldHolds'
  <2>1. watched.status = "completed" => watchedRuns'[Len(logs)].status = "completed"
    <3>1. SUFFICES ASSUME watched.status = "completed" PROVE watchedRuns'[Len(logs)].status = "completed"
      OBVIOUS
    <3>2. watchedRuns[Len(logs)].status = "completed"
      BY Zenon, <1>1, <3>1 DEF WorldHolds
    <3>3. PICK n : n = Len(logs) /\ n \in 1 .. Len(watchedRuns)
      BY <1>1
    <3>4. CASE n = r
      BY <1>1, <3>1, <3>3, <3>4
    <3>5. CASE n # r
      BY <3>2, <3>3, <3>5
    <3>6. QED
      BY <3>4, <3>5
  <2>2. QED
    BY <1>1, <2>1 DEF WorldHolds, WatchedRunType, Gone
<1>3. \A q \in 1 .. Len(logs) : logs[q] \in Nat
  BY DEF WorldHolds
<1>4. \A q \in 1 .. Len(watchedRuns) : Gone => watchedRuns'[q].findings = watchedRuns[q].findings
  OBVIOUS
<1>5. WorldMoves
  BY <1>1, <1>3, <1>4 DEF WorldMoves, Gone, Ended
<1>6. QED
  BY <1>2, <1>5

LEMMA WorkerSteps == ASSUME WorldHolds, Worker PROVE WorldHolds' /\ WorldMoves
<1>1. watched \in WatchedType /\ watchedRuns \in Seq(WatchedRunType) /\ logs \in Seq(Nat)
  BY DEF WorldHolds, WatchedType, WatchedRunType
<1>2. /\ Len(watchedRuns) \in Nat /\ Len(logs) \in Nat
      /\ DOMAIN watchedRuns = 1 .. Len(watchedRuns) /\ DOMAIN logs = 1 .. Len(logs)
      /\ \A r \in 1 .. Len(watchedRuns) : watchedRuns[r] \in WatchedRunType
      /\ \A r \in 1 .. Len(logs) : logs[r] \in Nat
  BY <1>1
<1>3. ASSUME NEW s \in {"queued"} \cup Ended, NEW t \in Nat, NEW n \in Nat,
             watched' = [watched EXCEPT !.status = s, !.token = t, !.retries = n]
      PROVE  watched' \in WatchedType /\ watched'.status = s /\ watched'.latest = watched.latest
  <2>1. PICK one : one = [watched EXCEPT !.status = s]
    OBVIOUS
  <2>2. PICK two : two = [one EXCEPT !.token = t]
    OBVIOUS
  <2>3. one \in WatchedType /\ one.status = s /\ one.latest = watched.latest
    BY <1>1, <2>1 DEF WatchedType
  <2>4. two \in WatchedType /\ two.status = s /\ two.latest = watched.latest
    BY <2>2, <2>3 DEF WatchedType
  <2>5. watched' = [two EXCEPT !.retries = n]
    BY <1>3, <2>1, <2>2
  <2>6. QED
    BY <2>4, <2>5 DEF WatchedType
<1>4. ASSUME NEW s \in Ended, SetStatus(s)
      PROVE  watched' \in WatchedType /\ watched'.status = s /\ watched'.latest = watched.latest
  <2>1. PICK one : one = [watched EXCEPT !.status = s]
    OBVIOUS
  <2>2. watched' = [one EXCEPT !.token = 0]
    BY <1>4, <2>1 DEF SetStatus
  <2>3. one \in WatchedType /\ one.status = s /\ one.latest = watched.latest
    BY <1>1, <2>1 DEF WatchedType
  <2>4. QED
    BY <2>2, <2>3 DEF WatchedType
<1>5. ASSUME NEW s \in Ended, Requeued(s)
      PROVE  /\ watched' \in WatchedType /\ watched'.latest = watched.latest
             /\ watched'.status \in {"queued", s}
  <2>1. CASE SetStatus(s)
    BY <1>4, <1>5, <2>1
  <2>2. CASE watched' = [watched EXCEPT !.status = "queued", !.token = 0, !.retries = @ + 1]
    <3>1. PICK n : n = watched.retries + 1 /\ n \in Nat
      BY <1>1 DEF WatchedType
    <3>2. PICK one : one = [watched EXCEPT !.status = "queued"]
      OBVIOUS
    <3>3. PICK two : two = [one EXCEPT !.token = 0]
      OBVIOUS
    <3>4. one \in WatchedType /\ one.status = "queued" /\ one.latest = watched.latest /\ one.retries = watched.retries
      BY <1>1, <3>2 DEF WatchedType
    <3>5. /\ two \in WatchedType /\ two.status = "queued" /\ two.latest = watched.latest
          /\ two.retries = watched.retries
      BY <3>3, <3>4 DEF WatchedType
    <3>6. watched' = [two EXCEPT !.retries = @ + 1]
      BY <2>2, <3>2, <3>3
    <3>7. QED
      BY <3>1, <3>5, <3>6 DEF WatchedType
  <2>3. QED
    BY <1>5, <2>1, <2>2 DEF Requeued
<1>6. CASE WorkerClaims
  <2>1. /\ watched.status = "queued" /\ watchedRuns' = watchedRuns /\ logs' = logs /\ cut' = cut
        /\ watched' = [watched EXCEPT !.status = "in_progress", !.token = watched.retries + 1]
    BY <1>6 DEF WorkerClaims, WatchStays
  <2>2. PICK one : one = [watched EXCEPT !.status = "in_progress"]
    OBVIOUS
  <2>3. one \in WatchedType /\ one.status = "in_progress" /\ one.latest = watched.latest
    BY <1>1, <2>2 DEF WatchedType
  <2>4. watched' = [one EXCEPT !.token = watched.retries + 1] /\ watched.retries + 1 \in Nat
    BY <1>1, <2>1, <2>2 DEF WatchedType
  <2>5. watched' \in WatchedType /\ watched'.status = "in_progress" /\ watched'.latest = watched.latest
    BY <2>3, <2>4 DEF WatchedType
  <2>6. QED
    BY <2>1, <2>5, JobMoves
<1>7. CASE WorkerStartsRun
  <2>1. PICK run : run = [token |-> watched.token, status |-> "in_progress", findings |-> 0]
    OBVIOUS
  <2>2. /\ watched.status = "in_progress" /\ cut' = cut
        /\ watchedRuns' = Append(watchedRuns, run) /\ logs' = Append(logs, 0)
        /\ watched' = [watched EXCEPT !.latest = Len(watchedRuns) + 1]
    BY <1>7, <2>1 DEF WorkerStartsRun, WatchStays, Newest
  <2>3. run \in WatchedRunType
    BY <1>1, <2>1 DEF WatchedRunType, WatchedType
  <2>4. Len(watchedRuns) = Len(logs)
    BY <2>2 DEF WorldHolds, Gone, Ended
  <2>5. /\ watchedRuns' \in Seq(WatchedRunType) /\ logs' \in Seq(Nat)
        /\ Len(watchedRuns') = Len(logs) + 1 /\ Len(logs') = Len(logs) + 1
        /\ \A r \in 1 .. Len(logs) : logs'[r] = logs[r]
    BY <1>1, <1>2, <2>2, <2>3, <2>4
  <2>6. watched' \in WatchedType /\ watched'.status = "in_progress" /\ watched'.latest = Len(logs) + 1
    <3>1. PICK n \in Nat : n = Len(logs) + 1
      BY <1>2
    <3>2. watched' = [watched EXCEPT !.latest = n]
      BY <2>2, <2>4, <3>1
    <3>3. QED
      BY <1>1, <2>2, <3>1, <3>2 DEF WatchedType
  <2>7. WorldHolds'
    BY <1>2, <2>5, <2>6 DEF WorldHolds, WatchedType, WatchedRunType
  <2>8. WorldMoves
    BY <1>2, <2>2, <2>5 DEF WorldMoves, Gone, Ended
  <2>9. QED
    BY <2>7, <2>8
<1>8. CASE WorkerLogs
  <2>1. /\ watched' = watched /\ watchedRuns' = watchedRuns /\ cut' = cut
        /\ logs' = [logs EXCEPT ![Newest] = @ + 1]
    BY <1>8 DEF WorkerLogs, WatchStays
  <2>2. PICK n : n = Newest /\ n \in 1 .. Len(logs)
    BY <1>2, <1>8 DEF WorkerLogs, Running, AttemptRuns, Newest, WorldHolds, Gone, Ended
  <2>3. /\ logs' \in Seq(Nat) /\ Len(logs') = Len(logs)
        /\ \A r \in 1 .. Len(logs) : logs[r] <= logs'[r]
    BY <1>1, <1>2, <2>1, <2>2
  <2>4. WorldHolds'
    BY <2>1, <2>3 DEF WorldHolds, Gone
  <2>5. WorldMoves
    BY <1>2, <2>1, <2>3 DEF WorldMoves
  <2>6. QED
    BY <2>4, <2>5
<1>9. ASSUME NEW r \in 1 .. Len(watchedRuns), NEW s \in {"in_progress"} \cup Ended, NEW f \in {0, 1},
             watchedRuns' = [watchedRuns EXCEPT ![r].status = s, ![r].findings = f],
             watched' = watched, logs' = logs, cut' = cut,
             Gone => f = watchedRuns[r].findings,
             watched.status = "completed" => r # Len(watchedRuns) \/ s = "completed"
      PROVE  WorldHolds' /\ WorldMoves
  <2>1. PICK run : run = watchedRuns[r] /\ run \in WatchedRunType
    BY <1>2, <1>9
  <2>2. PICK one : one = [run EXCEPT !.status = s]
    OBVIOUS
  <2>3. PICK two : two = [one EXCEPT !.findings = f]
    OBVIOUS
  <2>4. one \in WatchedRunType /\ one.status = s
    BY <2>1, <2>2 DEF WatchedRunType
  <2>5. two \in WatchedRunType /\ two.status = s /\ two.findings = f
    BY <2>3, <2>4 DEF WatchedRunType
  <2>6. PICK between : between = [watchedRuns EXCEPT ![r] = one]
    OBVIOUS
  <2>7. /\ between \in Seq(WatchedRunType) /\ Len(between) = Len(watchedRuns) /\ between[r] = one
        /\ \A q \in 1 .. Len(watchedRuns) : q # r => between[q] = watchedRuns[q]
    BY <1>1, <1>2, <2>4, <2>6
  <2>8. watchedRuns' = [between EXCEPT ![r] = two]
    BY <1>2, <1>9, <2>1, <2>2, <2>3, <2>6, <2>7
  <2>9. /\ watchedRuns' \in Seq(WatchedRunType) /\ Len(watchedRuns') = Len(watchedRuns)
        /\ watchedRuns'[r] = two
        /\ \A q \in 1 .. Len(watchedRuns) : q # r => watchedRuns'[q] = watchedRuns[q]
    BY <1>2, <2>5, <2>7, <2>8
  <2>10. QED
    BY <1>9, <2>5, <2>9, WatchedRunMoves
<1>10. ASSUME NEW r \in 1 .. Len(watchedRuns), NEW s \in Ended, SetRunStatus(r, s),
              watched' = watched, logs' = logs, cut' = cut,
              watched.status = "completed" => r # Len(watchedRuns) \/ s = "completed"
       PROVE  WorldHolds' /\ WorldMoves
  <2>1. PICK run : run = [watchedRuns[r] EXCEPT !.status = s]
    OBVIOUS
  <2>2. run \in WatchedRunType /\ run.status = s /\ run.findings = watchedRuns[r].findings
    BY <1>2, <1>10, <2>1 DEF WatchedRunType
  <2>3. watchedRuns' = [watchedRuns EXCEPT ![r] = run]
    BY <1>10, <2>1 DEF SetRunStatus
  <2>4. /\ watchedRuns' \in Seq(WatchedRunType) /\ Len(watchedRuns') = Len(watchedRuns)
        /\ watchedRuns'[r] = run
        /\ \A q \in 1 .. Len(watchedRuns) : q # r => watchedRuns'[q] = watchedRuns[q]
    BY <1>1, <1>2, <2>2, <2>3
  <2>5. QED
    BY <1>10, <2>2, <2>4, WatchedRunMoves
<1>11. ASSUME Running \/ AttemptRuns
       PROVE  Len(watchedRuns) \in 1 .. Len(watchedRuns) /\ ~Gone /\ watched.status = "in_progress"
  BY <1>2, <1>11 DEF Running, AttemptRuns, Newest, Gone, Ended
<1>12. CASE WorkerFinds
  <2>1. /\ watched' = watched /\ logs' = logs /\ cut' = cut /\ Running
        /\ watchedRuns' = [watchedRuns EXCEPT ![Len(watchedRuns)].findings = 1]
    BY <1>12 DEF WorkerFinds, WatchStays, Newest
  <2>2. PICK n : n = Len(watchedRuns) /\ n \in 1 .. Len(watchedRuns)
    BY <1>11, <2>1
  <2>3. PICK run : run = [watchedRuns[n] EXCEPT !.findings = 1]
    OBVIOUS
  <2>4. run \in WatchedRunType
    BY <1>2, <2>2, <2>3 DEF WatchedRunType
  <2>5. watchedRuns' = [watchedRuns EXCEPT ![n] = run]
    BY <2>1, <2>2, <2>3
  <2>6. ASSUME NEW m \in 1 .. Len(watchedRuns), watchedRuns' = [watchedRuns EXCEPT ![m] = run]
        PROVE  /\ watchedRuns' \in Seq(WatchedRunType) /\ Len(watchedRuns') = Len(watchedRuns)
               /\ \A q \in 1 .. Len(watchedRuns) : q # m => watchedRuns'[q] = watchedRuns[q]
    BY <1>1, <1>2, <2>4, <2>6
  <2>7. /\ watchedRuns' \in Seq(WatchedRunType) /\ Len(watchedRuns') = Len(watchedRuns)
        /\ \A q \in 1 .. Len(watchedRuns) : q # n => watchedRuns'[q] = watchedRuns[q]
    BY Zenon, <2>2, <2>5, <2>6
  <2>8. ~Gone /\ watched.status = "in_progress"
    BY <1>11, <2>1
  <2>9. QED
    BY <2>1, <2>2, <2>7, <2>8, WatchedRunMoves
<1>13. CASE WorkerEndsRun
  <2>1. /\ watched' = watched /\ logs' = logs /\ cut' = cut /\ Running
        /\ \/ SetRunStatus(Len(watchedRuns), "completed")
           \/ \E s \in {"failed", "cancelled"}, kept \in {0, watchedRuns[Len(watchedRuns)].findings} :
                watchedRuns' = [watchedRuns EXCEPT ![Len(watchedRuns)].status = s,
                                                   ![Len(watchedRuns)].findings = kept]
    BY <1>13 DEF WorkerEndsRun, WatchStays, Newest
  <2>2. PICK n : n = Len(watchedRuns) /\ n \in 1 .. Len(watchedRuns)
    BY <1>11, <2>1
  <2>3. CASE SetRunStatus(n, "completed")
    <3>1. "completed" \in Ended
      BY DEF Ended
    <3>2. QED
      BY <1>10, <2>1, <2>2, <2>3, <3>1
  <2>4. CASE \E s \in {"failed", "cancelled"}, kept \in {0, watchedRuns[n].findings} :
               watchedRuns' = [watchedRuns EXCEPT ![n].status = s, ![n].findings = kept]
    <3>1. PICK s \in {"failed", "cancelled"}, kept \in {0, watchedRuns[n].findings} :
            watchedRuns' = [watchedRuns EXCEPT ![n].status = s, ![n].findings = kept]
      BY <2>4
    <3>2. s \in {"in_progress"} \cup Ended /\ kept \in {0, 1}
      BY <1>2, <2>2 DEF Ended, WatchedRunType
    <3>3. ~Gone /\ watched.status = "in_progress"
      BY <1>11, <2>1
    <3>4. QED
      BY <1>9, <2>1, <2>2, <3>1, <3>2, <3>3
  <2>5. QED
    BY <2>1, <2>2, <2>3, <2>4
<1>14. CASE WorkerEndsJob
  <2>1. /\ watchedRuns' = watchedRuns /\ logs' = logs /\ cut' = cut /\ AttemptRuns
        /\ \/ watchedRuns[Len(watchedRuns)].status = "completed" /\ SetStatus("completed")
           \/ Requeued("failed") \/ SetStatus("failed") \/ SetStatus("cancelled")
    BY <1>14 DEF WorkerEndsJob, WatchStays, Newest
  <2>2. watched.status = "in_progress" /\ Len(watchedRuns) # 0
    BY <1>2, <1>11, <2>1
  <2>3. /\ watched' \in WatchedType /\ watched'.latest = watched.latest
        /\ watched'.status # "removed"
        /\ watched'.status = "completed" => watchedRuns[Len(watchedRuns)].status = "completed"
    BY <1>4, <1>5, <2>1 DEF Ended
  <2>4. QED
    BY <2>1, <2>2, <2>3, JobMoves
<1>15. CASE LeaseIsLost
  <2>1. /\ watchedRuns' = watchedRuns /\ logs' = logs /\ cut' = cut
        /\ watched.status = "in_progress" /\ Requeued("failed")
    BY <1>15 DEF LeaseIsLost, WatchStays
  <2>2. watched' \in WatchedType /\ watched'.latest = watched.latest /\ watched'.status \in {"queued", "failed"}
    BY <1>5, <2>1 DEF Ended
  <2>3. QED
    BY <2>1, <2>2, JobMoves
<1>16. CASE JobTooOld
  <2>1. /\ watchedRuns' = watchedRuns /\ logs' = logs /\ cut' = cut
        /\ watched.status = "queued" /\ SetStatus("expired")
    BY <1>16 DEF JobTooOld, WatchStays
  <2>2. watched' \in WatchedType /\ watched'.latest = watched.latest /\ watched'.status = "expired"
    BY <1>4, <2>1 DEF Ended
  <2>3. QED
    BY <2>1, <2>2, JobMoves
<1>17. CASE RunsReconciled
  <2>1. watched' = watched /\ logs' = logs /\ cut' = cut
    BY <1>17 DEF RunsReconciled, WatchStays
  <2>2. PICK r \in 1 .. Len(watchedRuns) :
          /\ SetRunStatus(r, "failed")
          /\ watchedRuns[r].status = "in_progress" \/ watched.status # "completed"
    BY <1>2, <1>17 DEF RunsReconciled
  <2>3. watched.status = "completed" => r # Len(watchedRuns)
    <3>1. SUFFICES ASSUME watched.status = "completed", r = Len(watchedRuns) PROVE FALSE
      OBVIOUS
    <3>2. Len(watchedRuns) # 0
      BY <1>2, <2>2
    <3>3. Len(watchedRuns) = Len(logs) /\ watchedRuns[Len(logs)].status = "completed"
      BY Zenon, <3>1, <3>2 DEF WorldHolds
    <3>4. QED
      BY <2>2, <3>1, <3>3
  <2>4. "failed" \in Ended
    BY DEF Ended
  <2>5. QED
    BY <1>10, <2>1, <2>2, <2>3, <2>4
<1>18. CASE TenantGoes
  <2>1. logs' = logs /\ cut' = cut
    BY <1>18 DEF TenantGoes, WatchStays
  <2>2. CASE /\ watched.status \in Ended \cup {"queued"} /\ watchedRuns' = <<>>
             /\ watched' = IF watched.status = "queued"
                           THEN [watched EXCEPT !.status = "cancelled"] ELSE watched
    <3>1. /\ watched' \in WatchedType /\ watched'.latest = watched.latest
          /\ watched'.status \in Ended
          /\ watched.status \in Ended => watched' = watched
          /\ watched.status # "removed"
          /\ watched'.status = "completed" => watched.status = "completed"
      BY <1>1, <2>2 DEF WatchedType, Ended
    <3>2. Len(watchedRuns') = 0 /\ watchedRuns' \in Seq(WatchedRunType)
      BY <2>2
    <3>3. WorldHolds'
      BY <2>1, <3>1, <3>2 DEF WorldHolds, Gone, Ended, WatchedType, WatchedRunType
    <3>4. WorldMoves
      BY <1>2, <2>1, <3>1, <3>2 DEF WorldMoves
    <3>5. QED
      BY <3>3, <3>4
  <2>3. CASE watched.status \in Ended /\ watchedRuns = <<>> /\ watched' = Removed /\ watchedRuns' = watchedRuns
    <3>1. /\ watched' \in WatchedType /\ watched'.latest = 0 /\ watched'.status = "removed"
          /\ watched.status # "removed" /\ Len(watchedRuns) = 0
      BY <2>3 DEF WatchedType, Ended, Removed
    <3>2. WorldHolds'
      BY <2>1, <2>3, <3>1 DEF WorldHolds, Gone, WatchedType, WatchedRunType, NoRun
    <3>3. WorldMoves
      BY <1>2, <2>1, <2>3, <3>1 DEF WorldMoves
    <3>4. QED
      BY <3>2, <3>3
  <2>4. QED
    BY <1>18, <2>2, <2>3 DEF TenantGoes
<1>19. CASE LogIsCut
  <2>1. watched' = watched /\ watchedRuns' = watchedRuns /\ cut' = TRUE
    BY <1>19 DEF LogIsCut
  <2>2. PICK r \in DOMAIN logs : logs' = [logs EXCEPT ![r] = 0]
    BY <1>19 DEF LogIsCut
  <2>3. logs' \in Seq(Nat) /\ Len(logs') = Len(logs)
    BY <1>1, <1>2, <2>2
  <2>4. WorldHolds'
    BY <2>1, <2>3 DEF WorldHolds, Gone
  <2>5. WorldMoves
    BY <1>2, <2>1, <2>3 DEF WorldMoves
  <2>6. QED
    BY <2>4, <2>5
<1>20. QED
  BY Zenon, <1>6, <1>7, <1>8, <1>12, <1>13, <1>14, <1>15, <1>16, <1>17, <1>18, <1>19 DEF Worker

\* What the watch remembers survives what the world does.
LEMMA WatchRemembers ==
  ASSUME WatchInv, WorldMoves, WorldHolds', UNCHANGED <<watcher, view, exit>>
  PROVE  WatchInv'
<1>1. watcher' = watcher /\ view' = view /\ exit' = exit
  OBVIOUS
<1>2. WorldHolds /\ WatcherShape /\ JobIsRead /\ RunIsRead /\ TailHolds /\ SummaryHolds
  BY DEF WatchInv
<1>3. /\ Len(logs) \in Nat /\ Len(logs') \in Nat /\ Len(watchedRuns) \in Nat /\ Len(watchedRuns') \in Nat
      /\ Len(logs) <= Len(logs')
      /\ \A r \in 1 .. Len(logs) : logs[r] \in Nat
      /\ \A r \in 1 .. Len(logs') : logs'[r] \in Nat
  <2>1. logs \in Seq(Nat) /\ logs' \in Seq(Nat) /\ Len(logs) <= Len(logs')
    BY <1>2 DEF WorldHolds, WorldMoves
  <2>2. watchedRuns \in Seq(WatchedRunType) /\ watchedRuns' \in Seq(WatchedRunType)
    BY <1>2 DEF WorldHolds, WatchedRunType
  <2>3. QED
    BY <2>1, <2>2
<1>4. WatcherShape'
  BY <1>1, <1>2 DEF WatcherShape
<1>5. JobIsRead'
  <2>1. watcher.job.latest \in 0 .. Len(logs')
    BY <1>2, <1>3 DEF JobIsRead, WorldMoves
  <2>2. watcher.job.status \in Ended => watched' \in {watcher.job, Removed}
    <3>1. Removed.status = "removed"
      BY DEF Removed
    <3>2. QED
      BY <1>2, <3>1 DEF JobIsRead, WorldMoves
  <2>3. QED
    BY <1>1, <1>2, <2>1, <2>2 DEF JobIsRead
<1>6. RunIsRead'
  BY <1>1, <1>2, <1>3 DEF RunIsRead, WorldMoves
<1>7. TailHolds'
  <2>1. SUFFICES ASSUME ~cut' PROVE TailHolds'
    BY DEF TailHolds
  <2>2. ~cut /\ \A r \in 1 .. Len(logs) : logs[r] <= logs'[r]
    BY <2>1 DEF WorldMoves
  <2>3. PICK run : run = watcher.run /\ run \in 0 .. Len(logs)
    BY <1>2 DEF RunIsRead
  <2>4. PICK place : place = watcher.tail.offset /\ place \in Nat
    BY <1>2, <2>2 DEF TailHolds
  <2>5. place <= IF run = NoRun THEN 0 ELSE logs[run]
    BY <1>2, <2>2, <2>3, <2>4 DEF TailHolds
  <2>6. place <= IF run = NoRun THEN 0 ELSE logs'[run]
    <3>1. CASE run = NoRun
      BY <2>5, <3>1
    <3>2. CASE run # NoRun
      <4>1. run \in 1 .. Len(logs) /\ run \in 1 .. Len(logs')
        BY <1>3, <2>3, <3>2 DEF NoRun
      <4>2. logs[run] \in Nat /\ logs'[run] \in Nat
        BY <1>3, <4>1
      <4>3. QED
        BY <2>2, <2>4, <2>5, <3>2, <4>1, <4>2
    <3>3. QED
      BY <3>1, <3>2
  <2>7. /\ watcher.tail.offset \in Nat
        /\ watcher.tail.lines = LinesTo(watcher.tail.offset)
        /\ watcher.tail.buffer = LeftAt(watcher.tail.offset)
    BY Zenon, <1>2, <2>2 DEF TailHolds
  <2>8. watcher.tail.offset <= IF watcher.run = NoRun THEN 0 ELSE logs'[watcher.run]
    BY Zenon, <2>3, <2>4, <2>6
  <2>9. QED
    BY Zenon, <1>1, <2>7, <2>8 DEF TailHolds
<1>8. SummaryHolds'
  <2>1. exit = "error" => watched'.status = "removed" \/ (Len(watchedRuns') = 0 /\ Gone')
    <3>1. Removed.status = "removed"
      BY DEF Removed
    <3>2. QED
      BY <1>2, <3>1 DEF SummaryHolds, WorldMoves, Gone
  <2>2. view.summary # <<>> => SummaryTold(view.summary[1])'
    <3>1. SUFFICES ASSUME view.summary # <<>> PROVE SummaryTold(view.summary[1])'
      OBVIOUS
    <3>2. watcher.job.status \in Ended /\ SummaryTold(view.summary[1])
      BY <1>2, <3>1 DEF SummaryHolds
    <3>3. Gone
      BY <1>2, <3>2 DEF JobIsRead, Gone, Removed
    <3>4. SUFFICES ASSUME watcher.run # NoRun, Len(watchedRuns') # 0
                   PROVE  watchedRuns'[watcher.run].findings = watchedRuns[watcher.run].findings
                          /\ Len(watchedRuns) # 0
      BY <1>1, <3>2 DEF SummaryTold
    <3>5. /\ Len(watchedRuns') = Len(watchedRuns)
          /\ \A r \in 1 .. Len(watchedRuns) : watchedRuns'[r].findings = watchedRuns[r].findings
      BY <3>3, <3>4 DEF WorldMoves
    <3>6. Len(watchedRuns) = Len(logs)
      BY <1>2, <3>4, <3>5 DEF WorldHolds
    <3>7. watcher.run \in 1 .. Len(watchedRuns)
      BY <1>2, <1>3, <3>4, <3>6 DEF RunIsRead, NoRun
    <3>8. QED
      BY <3>4, <3>5, <3>7
  <2>3. QED
    BY <1>1, <1>2, <2>1, <2>2 DEF SummaryHolds
<1>9. QED
  BY <1>4, <1>5, <1>6, <1>7, <1>8 DEF WatchInv

\* Two sequences of known lengths, one after the other.
LEMMA Joined ==
  ASSUME NEW S, NEW one \in Seq(S), NEW two \in Seq(S), NEW a \in Nat, NEW b \in Nat,
         Len(one) = a, Len(two) = b
  PROVE  /\ one \o two \in Seq(S) /\ Len(one \o two) = a + b
         /\ \A i \in 1 .. a : (one \o two)[i] = one[i]
         /\ \A i \in 1 .. b : (one \o two)[a + i] = two[i]
<1>1. \A i \in 1 .. a + b : (one \o two)[i] = IF i <= a THEN one[i] ELSE two[i - a]
  OBVIOUS
<1>2. ASSUME NEW i \in 1 .. b PROVE (one \o two)[a + i] = two[i]
  <2>1. PICK j : j = a + i /\ j \in 1 .. a + b /\ ~(j <= a) /\ j - a = i
    OBVIOUS
  <2>2. QED
    BY Zenon, <1>1, <2>1
<1>3. one \o two \in Seq(S) /\ Len(one \o two) = a + b
  OBVIOUS
<1>4. ASSUME NEW i \in 1 .. a PROVE (one \o two)[i] = one[i]
  <2>1. i \in 1 .. a + b /\ i <= a
    OBVIOUS
  <2>2. QED
    BY Zenon, <1>1, <2>1
<1>5. QED
  BY Zenon, <1>2, <1>3, <1>4

\* The next piece of the log is read: what was left over goes before it.
LEMMA ReadingOn ==
  ASSUME NEW place \in Nat, NEW size \in Nat, place <= size
  PROVE  /\ LinesTo(place) \o LinesOf(LeftAt(place) \o Pieces(place, size)) = LinesTo(size)
         /\ RestOf(LeftAt(place) \o Pieces(place, size)) = LeftAt(size)
<1>1. PICK lines, left, text :
      lines = LinesTo(place) /\ left = LeftAt(place) /\ text = left \o Pieces(place, size)
  OBVIOUS
<1>2. PICK half, odd \in Nat : half = place \div 2 /\ odd = place % 2 /\ odd \in {0, 1} /\ place = 2 * half + odd
  OBVIOUS
<1>3. PICK full, rest \in Nat : full = size \div 2 /\ rest = size % 2 /\ rest \in {0, 1} /\ size = 2 * full + rest
  OBVIOUS
<1>4. half <= full
  BY <1>2, <1>3
<1>5. PICK more \in Nat : more = full - half
  BY <1>4
<1>6. PICK n \in Nat : n = size - 2 * half
  BY <1>2
<1>7. n = 2 * more + rest /\ n \div 2 = more /\ n % 2 = rest
  BY <1>3, <1>5, <1>6
<1>8. PICK pieces : pieces = [i \in 1 .. size - place |-> place + i]
  OBVIOUS
<1>9. Pieces(place, size) = pieces /\ pieces \in Seq(Nat) /\ Len(pieces) = size - place
  BY <1>8 DEF Pieces
<1>10. text \in Seq(Nat) /\ Len(text) = n /\ \A i \in 1 .. n : text[i] = 2 * half + i
  <2>1. CASE odd = 0
    <3>1. left = <<>> /\ place = 2 * half
      BY <1>1, <1>2, <2>1 DEF LeftAt
    <3>2. text = pieces
      BY <1>1, <1>9, <3>1
    <3>3. QED
      BY <1>6, <1>8, <1>9, <3>1, <3>2
  <2>2. CASE odd = 1
    <3>1. left = <<place>> /\ place = 2 * half + 1
      BY <1>1, <1>2, <2>2 DEF LeftAt
    <3>2. text = <<place>> \o pieces
      BY <1>1, <1>9, <3>1
    <3>3. text \in Seq(Nat) /\ Len(text) = 1 + (size - place) /\ text[1] = place
      <4>1. PICK first : first = <<place>>
        OBVIOUS
      <4>2. first \in Seq(Nat) /\ Len(first) = 1 /\ first[1] = place
        BY <4>1
      <4>3. text = first \o pieces
        BY Zenon, <3>2, <4>1
      <4>4. PICK m \in Nat : m = size - place
        OBVIOUS
      <4>5. text \in Seq(Nat) /\ Len(text) = 1 + m /\ text[1] = first[1]
        <5>1. PICK a \in Nat : a = 1 /\ a \in 1 .. a
          OBVIOUS
        <5>2. pieces \in Seq(Nat) /\ Len(pieces) = m
          BY <1>9, <4>4
        <5>3. Len(first) = a /\ first \in Seq(Nat)
          BY Zenon, <4>2, <5>1
        <5>4. /\ first \o pieces \in Seq(Nat) /\ Len(first \o pieces) = a + m
              /\ \A i \in 1 .. a : (first \o pieces)[i] = first[i]
          BY <5>2, <5>3, Joined
        <5>5. QED
          BY Zenon, <4>3, <5>1, <5>4
      <4>6. QED
        BY Zenon, <4>2, <4>4, <4>5
    <3>4. \A i \in 2 .. 1 + (size - place) : text[i] = pieces[i - 1]
      BY <1>9, <3>2
    <3>5. 1 + (size - place) = n
      BY <1>6, <3>1
    <3>6. ASSUME NEW i \in 1 .. n PROVE text[i] = 2 * half + i
      <4>1. CASE i = 1
        BY <3>1, <3>3, <4>1
      <4>2. CASE i # 1
        <5>1. i \in 2 .. n /\ i - 1 \in 1 .. size - place
          BY <3>5, <4>2
        <5>2. pieces[i - 1] = place + (i - 1)
          BY <1>8, <5>1
        <5>3. text[i] = place + (i - 1)
          BY Zenon, <3>4, <3>5, <5>1, <5>2
        <5>4. place + (i - 1) = 2 * half + i
          BY <1>2, <3>1
        <5>5. QED
          BY Zenon, <5>3, <5>4
      <4>3. QED
        BY <4>1, <4>2
    <3>7. QED
      BY <3>3, <3>5, <3>6
  <2>3. QED
    BY <1>2, <2>1, <2>2
<1>11. PICK whole : whole = [k \in 1 .. more |-> Line(half + k)]
  OBVIOUS
<1>12. LinesOf(text) = whole
  <2>1. LinesOf(text) = [k \in 1 .. more |-> <<text[2*k - 1], text[2*k]>>]
    BY <1>7, <1>10 DEF LinesOf
  <2>2. ASSUME NEW k \in 1 .. more PROVE <<text[2*k - 1], text[2*k]>> = Line(half + k)
    <3>1. 2*k - 1 \in 1 .. n /\ 2*k \in 1 .. n
      BY <1>3, <1>7
    <3>2. text[2*k - 1] = 2 * half + (2*k - 1) /\ text[2*k] = 2 * half + 2*k
      BY <1>10, <3>1
    <3>3. 2 * half + (2*k - 1) = 2 * (half + k) - 1 /\ 2 * half + 2*k = 2 * (half + k)
      BY <1>2
    <3>4. QED
      BY <3>2, <3>3 DEF Line
  <2>3. QED
    BY <1>11, <2>1, <2>2
<1>13. lines \o LinesOf(text) = LinesTo(size)
  <2>1. PICK was : was = [k \in 1 .. half |-> Line(k)]
    OBVIOUS
  <2>2. lines = was /\ was \in Seq(Nat \X Nat) /\ Len(was) = half
    BY <1>1, <1>2, <2>1 DEF Line, LinesTo
  <2>3. whole \in Seq(Nat \X Nat) /\ Len(whole) = more
    BY <1>2, <1>11 DEF Line
  <2>4. PICK all : all = was \o whole
    OBVIOUS
  <2>5. all \in Seq(Nat \X Nat) /\ Len(all) = full
    <3>1. PICK S : S = Nat \X Nat
      OBVIOUS
    <3>2. was \in Seq(S) /\ whole \in Seq(S)
      BY Zenon, <2>2, <2>3, <3>1
    <3>3. all \in Seq(S) /\ Len(all) = half + more
      <4>1. Len(was) = half /\ Len(whole) = more
        BY Zenon, <2>2, <2>3
      <4>2. was \o whole \in Seq(S) /\ Len(was \o whole) = half + more
        BY <3>2, <4>1, Joined
      <4>3. QED
        BY Zenon, <2>4, <4>2
    <3>4. half + more = full
      BY <1>3, <1>5
    <3>5. QED
      BY Zenon, <3>1, <3>3, <3>4
  <2>6. ASSUME NEW k \in 1 .. full PROVE all[k] = Line(k)
    <3>1. CASE k <= half
      <4>1. k \in 1 .. half
        BY <3>1
      <4>2. all[k] = was[k]
        BY <2>2, <2>3, <2>4, <4>1
      <4>3. QED
        BY <2>1, <4>1, <4>2
    <3>2. CASE ~(k <= half)
      <4>1. PICK l \in 1 .. more : k = half + l
        <5>1. k - half \in 1 .. more /\ k = half + (k - half)
          BY <1>5, <3>2
        <5>2. QED
          BY <5>1
      <4>2. all[k] = whole[l]
        <5>1. ASSUME NEW m \in Nat, half < m, m <= half + more
              PROVE  (was \o whole)[m] = whole[m - half]
          <6>1. m \in 1 .. Len(was) + Len(whole) /\ ~(m <= Len(was))
            BY <1>2, <2>2, <2>3, <5>1
          <6>2. (was \o whole)[m] = whole[m - Len(was)]
            <7>1. PICK S : S = Nat \X Nat
              OBVIOUS
            <7>2. was \in Seq(S) /\ whole \in Seq(S)
              BY Zenon, <2>2, <2>3, <7>1
            <7>3. QED
              BY <6>1, <7>2
          <6>3. QED
            BY Zenon, <2>2, <6>2
        <5>2. k \in Nat /\ half < k /\ k <= half + more /\ k - half = l
          BY <1>2, <1>3, <3>2, <4>1
        <5>3. QED
          BY Zenon, <2>4, <5>1, <5>2
      <4>3. QED
        BY <1>11, <4>1, <4>2
    <3>3. QED
      BY <3>1, <3>2
  <2>7. all = [k \in 1 .. full |-> Line(k)]
    BY <2>5, <2>6
  <2>8. QED
    BY <1>3, <1>12, <2>2, <2>4, <2>7 DEF LinesTo
<1>14. RestOf(text) = LeftAt(size)
  <2>1. CASE rest = 0
    BY <1>3, <1>7, <1>10, <2>1 DEF RestOf, LeftAt
  <2>2. CASE rest = 1
    <3>1. n \in 1 .. n /\ 2 * half + n = size
      BY <1>2, <1>3, <1>6, <1>7, <2>2
    <3>2. text[Len(text)] = size
      BY <1>10, <3>1
    <3>3. QED
      BY <1>3, <1>7, <1>10, <2>2, <3>2 DEF RestOf, LeftAt
  <2>3. QED
    BY <1>3, <2>1, <2>2
<1>15. QED
  BY <1>1, <1>13, <1>14

\* A non-empty set of numbers up to a bound has a last one.
LEMMA LastNumber ==
  ASSUME NEW n \in Nat, NEW S \in SUBSET (1 .. n), S # {}
  PROVE  \E m \in S : \A o \in S : o <= m
<1>1. PICK gaps : gaps = {n - s : s \in S}
  OBVIOUS
<1>2. gaps \in SUBSET Nat /\ gaps # {}
  <2>1. \A s \in S : s \in 1 .. n /\ n - s \in Nat
    OBVIOUS
  <2>2. PICK s \in S : TRUE
    OBVIOUS
  <2>3. n - s \in gaps
    BY <1>1
  <2>4. QED
    BY <1>1, <2>1, <2>3
<1>3. PICK g \in gaps : \A h \in gaps : g <= h
  BY <1>2, FirstNumber
<1>4. PICK m \in S : g = n - m
  BY <1>1
<1>5. ASSUME NEW o \in S PROVE o <= m
  <2>1. n - o \in gaps /\ m \in 1 .. n /\ o \in 1 .. n
    BY <1>1
  <2>2. n - m <= n - o
    BY <1>3, <1>4, <2>1
  <2>3. QED
    BY <2>1, <2>2
<1>6. QED
  BY <1>5

LEMMA NewTailIsEmpty == NewTail.offset = 0 /\ NewTail.lines = <<>> /\ NewTail.buffer = <<>>
<1>1. PICK no : no = FALSE
  OBVIOUS
<1>2. PICK tail : tail = [offset |-> 0, buffer |-> <<>>, lines |-> <<>>, available |-> no]
  OBVIOUS
<1>3. NewTail = tail
  BY Zenon, <1>1, <1>2 DEF NewTail
<1>4. tail.offset = 0 /\ tail.lines = <<>> /\ tail.buffer = <<>>
  BY <1>2
<1>5. QED
  BY Zenon, <1>3, <1>4

\* The steps of the watch leave the world alone.
LEMMA WatchSteps ==
  ASSUME WatchInv, WorldStays,
         \/ Aborts \/ ReadsJob \/ ReadsRuns \/ TailsLog \/ LogUnavailable \/ Judges
         \/ CountsFindings \/ LoadsResult
  PROVE  WatchInv'
<1>1. watched' = watched /\ watchedRuns' = watchedRuns /\ logs' = logs /\ cut' = cut
  BY DEF WorldStays
<1>2. WorldHolds /\ WatcherShape /\ JobIsRead /\ RunIsRead /\ TailHolds /\ SummaryHolds
  BY DEF WatchInv
<1>3. /\ Len(logs) \in Nat /\ Len(watchedRuns) \in Nat /\ DOMAIN watchedRuns = 1 .. Len(watchedRuns)
      /\ \A r \in 1 .. Len(logs) : logs[r] \in Nat
  <2>1. logs \in Seq(Nat) /\ watchedRuns \in Seq(WatchedRunType)
    BY <1>2 DEF WorldHolds, WatchedRunType
  <2>2. QED
    BY <2>1
<1>4. WorldHolds' /\ (Gone' <=> Gone)
  BY <1>1, <1>2 DEF WorldHolds, Gone
<1>5. ASSUME watcher' = watcher, view' = view, exit = "none",
             exit' = "0" => watcher.step = "result",
             exit' = "error" => watched.status = "removed" \/ (Len(watchedRuns) = 0 /\ Gone)
      PROVE  WatchInv'
  <2>1. WatcherShape' /\ JobIsRead' /\ RunIsRead'
    BY <1>1, <1>2, <1>5 DEF WatcherShape, JobIsRead, RunIsRead
  <2>2. TailHolds'
    BY Zenon, <1>1, <1>2, <1>5 DEF TailHolds
  <2>3. SummaryHolds'
    <3>1. view.summary # <<>> => watcher.step = "result"
      BY <1>2, <1>5 DEF SummaryHolds
    <3>2. view.summary # <<>> => SummaryTold(view.summary[1])'
      BY <1>1, <1>2, <1>5 DEF SummaryHolds, SummaryTold
    <3>3. QED
      BY <1>1, <1>2, <1>4, <1>5, <3>1, <3>2 DEF SummaryHolds
  <2>4. QED
    BY <1>4, <2>1, <2>2, <2>3 DEF WatchInv
<1>6. ASSUME NEW job, NEW step, watcher' = [watcher EXCEPT !.step = step, !.job = job]
      PROVE  /\ watcher' = [step |-> step, job |-> job, run |-> watcher.run,
                            seen |-> watcher.seen, tail |-> watcher.tail]
             /\ view' = view => WatcherShape'
  <2>1. PICK it : it = [step |-> watcher.step, job |-> watcher.job, run |-> watcher.run,
                        seen |-> watcher.seen, tail |-> watcher.tail]
    OBVIOUS
  <2>2. watcher = it
    BY <1>2, <2>1 DEF WatcherShape
  <2>3. watcher' = [step |-> step, job |-> job, run |-> watcher.run,
                    seen |-> watcher.seen, tail |-> watcher.tail]
    BY <1>6, <2>1, <2>2
  <2>4. QED
    BY <1>2, <2>3 DEF WatcherShape
<1>7. ASSUME NEW step, watcher' = [watcher EXCEPT !.step = step]
      PROVE  /\ watcher' = [step |-> step, job |-> watcher.job, run |-> watcher.run,
                            seen |-> watcher.seen, tail |-> watcher.tail]
             /\ view' = view => WatcherShape'
  <2>1. PICK it : it = [step |-> watcher.step, job |-> watcher.job, run |-> watcher.run,
                        seen |-> watcher.seen, tail |-> watcher.tail]
    OBVIOUS
  <2>2. watcher = it
    BY <1>2, <2>1 DEF WatcherShape
  <2>3. watcher' = [step |-> step, job |-> watcher.job, run |-> watcher.run,
                    seen |-> watcher.seen, tail |-> watcher.tail]
    BY <1>7, <2>1, <2>2
  <2>4. QED
    BY <1>2, <2>3 DEF WatcherShape
<1>8. ASSUME watcher'.run = watcher.run, watcher'.tail = watcher.tail PROVE TailHolds'
  BY Zenon, <1>1, <1>2, <1>8 DEF TailHolds
\* A job that ended has its last run, unless runs or job were removed.
<1>9. ASSUME watcher.job.status \in Ended, watched.status # "removed",
             watcher.job.latest \in DOMAIN watchedRuns
      PROVE  watcher.job.status = "completed" => watchedRuns[watcher.job.latest].status = "completed"
  <2>1. watched = watcher.job
    BY <1>2, <1>9 DEF JobIsRead, Removed
  <2>2. Len(watchedRuns) # 0
    BY <1>3, <1>9
  <2>3. watched.latest = Len(logs)
    BY Zenon, <1>2, <1>9 DEF WorldHolds
  <2>4. watched.status = "completed" => watchedRuns[Len(logs)].status = "completed"
    BY Zenon, <1>2, <2>2 DEF WorldHolds
  <2>5. QED
    BY Zenon, <2>1, <2>3, <2>4
<1>10. CASE Aborts
  BY <1>5, <1>10 DEF Aborts, LeavesWith, WatchAt
<1>11. CASE ReadsJob
  <2>1. exit = "none" /\ watcher.step = "job"
    BY <1>11 DEF ReadsJob, WatchAt
  <2>2. CASE watched.status = "removed" /\ LeavesWith("error")
    BY <1>5, <2>1, <2>2 DEF LeavesWith
  <2>3. CASE /\ watched.status # "removed" /\ view' = view /\ exit' = exit
             /\ watcher' = [watcher EXCEPT !.step = "runs", !.job = watched]
    <3>1. /\ watcher'.step = "runs" /\ watcher'.job = watched /\ watcher'.run = watcher.run
          /\ watcher'.tail = watcher.tail /\ WatcherShape'
      BY <1>6, <2>3
    <3>2. TailHolds'
      BY <1>8, <3>1
    <3>3. JobIsRead'
      <4>1. watched.latest = Len(logs)
        BY Zenon, <1>2, <2>3 DEF WorldHolds
      <4>2. watched.status = "completed" => Len(logs) # 0
        BY Zenon, <1>2 DEF WorldHolds
      <4>3. QED
        BY <1>1, <1>3, <3>1, <4>1, <4>2 DEF JobIsRead, NoRun
    <3>4. RunIsRead'
      BY <1>1, <1>2, <3>1 DEF RunIsRead
    <3>5. SummaryHolds'
      BY <1>2, <2>1, <2>3, <3>1 DEF SummaryHolds
    <3>6. QED
      BY <1>4, <3>1, <3>2, <3>3, <3>4, <3>5 DEF WatchInv
  <2>4. QED
    BY <1>11, <2>2, <2>3 DEF ReadsJob
<1>12. CASE ReadsRuns
  <2>1. exit = "none" /\ watcher.step = "runs"
    BY <1>12 DEF ReadsRuns, WatchAt
  <2>2. watcher.job.latest \in 0 .. Len(logs)
    BY <1>2 DEF JobIsRead
  <2>3. CASE RunMissing(watcher.job) /\ LeavesWith("error")
    <3>1. watcher.job.latest \in 1 .. Len(logs) /\ watcher.job.latest \notin 1 .. Len(watchedRuns)
      BY <1>3, <2>2, <2>3 DEF RunMissing, NoRun
    <3>2. Len(watchedRuns) # Len(logs)
      BY <3>1
    <3>3. Len(watchedRuns) = 0 /\ Gone
      BY Zenon, <1>2, <3>2 DEF WorldHolds
    <3>4. QED
      BY <1>5, <2>1, <2>3, <3>3 DEF LeavesWith
  <2>4. CASE /\ ~RunMissing(watcher.job) /\ view' = view /\ exit' = exit
             /\ Follows(Selected(watcher.job),
                        IF Selected(watcher.job) = NoRun THEN "none"
                        ELSE watchedRuns[Selected(watcher.job)].status,
                        TailFor(Selected(watcher.job)))
    <3>1. PICK run : run = Selected(watcher.job)
      OBVIOUS
    <3>2. /\ run \in 0 .. Len(logs)
          /\ run # NoRun => run \in DOMAIN watchedRuns
          /\ watcher.job.status \in Ended => run = watcher.job.latest
      <4>1. CASE watcher.job.status = "in_progress"
        <5>1. "in_progress" \notin Ended
          BY DEF Ended
        <5>2. CASE ByClaim(watcher.job) = {}
          <6>1. run = 0
            BY Zenon, <3>1, <4>1, <5>2 DEF Selected, NoRun
          <6>2. QED
            BY <1>3, <4>1, <5>1, <6>1 DEF NoRun
        <5>3. CASE ByClaim(watcher.job) # {}
          <6>1. run \in ByClaim(watcher.job)
            <7>1. ByClaim(watcher.job) \in SUBSET (1 .. Len(watchedRuns))
              BY <1>3 DEF ByClaim
            <7>2. \E r \in ByClaim(watcher.job) : \A o \in ByClaim(watcher.job) : o <= r
              BY <1>3, <5>3, <7>1, LastNumber
            <7>3. run = CHOOSE r \in ByClaim(watcher.job) : \A o \in ByClaim(watcher.job) : o <= r
              BY Zenon, <3>1, <4>1, <5>3 DEF Selected
            <7>4. QED
              BY Zenon, <7>2, <7>3
          <6>2. run \in 1 .. Len(watchedRuns)
            BY <1>3, <6>1 DEF ByClaim
          <6>3. Len(watchedRuns) = Len(logs) \/ Len(watchedRuns) = 0
            BY Zenon, <1>2 DEF WorldHolds
          <6>4. QED
            BY <1>3, <4>1, <5>1, <6>2, <6>3
        <5>4. QED
          BY <5>2, <5>3
      <4>2. CASE watcher.job.status # "in_progress"
        <5>1. run = watcher.job.latest
          BY <3>1, <4>2 DEF Selected
        <5>2. QED
          BY <2>2, <2>4, <4>2, <5>1 DEF RunMissing
      <4>3. QED
        BY <4>1, <4>2
    <3>3. PICK seen : seen = IF run = NoRun THEN "none" ELSE watchedRuns[run].status
      OBVIOUS
    <3>4. PICK step : step = IF run = NoRun THEN "judge" ELSE "tail"
      OBVIOUS
    <3>5. PICK tail : tail = TailFor(run)
      OBVIOUS
    <3>6. watcher' = [watcher EXCEPT !.step = step, !.run = run, !.seen = seen, !.tail = tail]
      BY Zenon, <2>4, <3>1, <3>3, <3>4, <3>5 DEF Follows
    <3>7. watcher' = [step |-> step, job |-> watcher.job, run |-> run, seen |-> seen, tail |-> tail]
      <4>1. PICK it : it = [step |-> watcher.step, job |-> watcher.job, run |-> watcher.run,
                            seen |-> watcher.seen, tail |-> watcher.tail]
        OBVIOUS
      <4>2. watcher = it
        BY <1>2, <4>1 DEF WatcherShape
      <4>3. QED
        BY <3>6, <4>1, <4>2
    <3>8. WatcherShape'
      <4>1. PICK none : none = NewTail
        OBVIOUS
      <4>2. none = [offset |-> none.offset, buffer |-> none.buffer, lines |-> none.lines,
                    available |-> none.available]
        BY Zenon, <4>1 DEF NewTail
      <4>3. tail = [offset |-> tail.offset, buffer |-> tail.buffer, lines |-> tail.lines,
                    available |-> tail.available]
        BY <1>2, <3>5, <4>1, <4>2 DEF TailFor, WatcherShape
      <4>4. QED
        BY <1>2, <2>4, <3>7, <4>3 DEF WatcherShape
    <3>9. JobIsRead'
      BY <1>1, <1>2, <3>7 DEF JobIsRead
    <3>10. RunIsRead'
      <4>1. ASSUME watcher.job.status = "completed" PROVE seen = "completed"
        <5>1. "completed" \in Ended /\ run = watcher.job.latest /\ run # NoRun
          BY <1>2, <3>2, <4>1 DEF Ended, JobIsRead
        <5>2. watched.status # "removed"
          <6>1. Len(watchedRuns) # 0
            <7>1. run \in 1 .. Len(watchedRuns)
              BY Zenon, <1>3, <3>2, <5>1
            <7>2. QED
              BY <7>1
          <6>2. QED
            BY Zenon, <1>2, <6>1 DEF WorldHolds
        <5>3. watcher.job.status \in Ended /\ watcher.job.latest \in DOMAIN watchedRuns
          BY Zenon, <3>2, <4>1, <5>1
        <5>4. watchedRuns[run].status = "completed"
          BY Zenon, <1>9, <4>1, <5>1, <5>2, <5>3
        <5>5. QED
          BY Zenon, <3>3, <5>1, <5>4
      <4>2. QED
        <5>1. /\ watcher'.run = run /\ watcher'.step = step /\ watcher'.job = watcher.job
              /\ watcher'.seen = seen
          BY <3>7
        <5>2. step = "tail" => run # NoRun
          BY <3>4
        <5>3. QED
          BY Zenon, <1>1, <3>2, <4>1, <5>1, <5>2 DEF RunIsRead
    <3>11. TailHolds'
      <4>1. CASE run = watcher.run
        <5>1. watcher'.run = watcher.run /\ watcher'.tail = watcher.tail
          BY <3>5, <3>7, <4>1 DEF TailFor
        <5>2. QED
          BY <1>8, <5>1
      <4>2. CASE run # watcher.run
        <5>1. tail = NewTail
          BY Zenon, <3>5, <4>2 DEF TailFor
        <5>2. tail.offset = 0 /\ tail.lines = <<>> /\ tail.buffer = <<>>
          BY Zenon, <5>1, NewTailIsEmpty
        <5>3. [k \in 1 .. 0 |-> Line(k)] = <<>> /\ 0 \div 2 = 0 /\ 0 % 2 = 0
          OBVIOUS
        <5>4. run # NoRun => logs[run] \in Nat
          <6>1. run # NoRun => run \in 1 .. Len(logs)
            BY <1>3, <3>2 DEF NoRun
          <6>2. QED
            BY Zenon, <1>3, <6>1
        <5>5. QED
          BY <1>1, <3>7, <5>2, <5>3, <5>4 DEF TailHolds, LinesTo, LeftAt
      <4>3. QED
        BY <4>1, <4>2
    <3>12. SummaryHolds'
      BY <1>2, <2>1, <2>4, <3>4, <3>7 DEF SummaryHolds
    <3>13. QED
      BY <1>4, <3>8, <3>9, <3>10, <3>11, <3>12 DEF WatchInv
  <2>5. QED
    BY Zenon, <1>12, <2>3, <2>4 DEF ReadsRuns
<1>13. CASE TailsLog
  <2>1. exit = "none" /\ watcher.step = "tail" /\ exit' = exit
    BY <1>13 DEF TailsLog, WatchAt
  <2>2. PICK run : run = watcher.run /\ run \in 1 .. Len(logs)
    BY <1>2, <1>3, <2>1 DEF RunIsRead, NoRun
  <2>3. PICK size \in Nat : size = logs[run]
    BY <1>3, <2>2
  <2>4. PICK tail : tail = watcher.tail
    OBVIOUS
  <2>5. PICK text : text = BufferOf(tail, size) \o Pieces(StartOf(tail, size), size)
    OBVIOUS
  <2>6. PICK yes : yes = TRUE
    OBVIOUS
  <2>7. PICK lines : lines = tail.lines \o LinesOf(text)
    OBVIOUS
  <2>8. PICK next : next = [offset |-> size, buffer |-> RestOf(text), lines |-> lines, available |-> yes]
    OBVIOUS
  <2>9. PICK shown : shown = LET all == view.activities \o LinesOf(text)
                             IN  SubSeq(all, IF Len(all) > Shown THEN Len(all) - Shown + 1 ELSE 1, Len(all))
    OBVIOUS
  <2>10. watcher' = [watcher EXCEPT !.step = "judge", !.tail = next]
         /\ view' = [view EXCEPT !.activities = shown]
    <3>1. PICK it : it = [step |-> watcher.step, job |-> watcher.job, run |-> watcher.run,
                          seen |-> watcher.seen, tail |-> tail]
      OBVIOUS
    <3>2. watcher = it
      BY Zenon, <1>2, <2>4, <3>1 DEF WatcherShape
    <3>3. it.tail = tail
      BY <3>1
    <3>4. watcher' = [watcher EXCEPT !.step = "judge",
              !.tail = [offset |-> size, buffer |-> RestOf(text),
                        lines |-> watcher.tail.lines \o LinesOf(text), available |-> TRUE]]
          /\ view' = [view EXCEPT !.activities = shown]
      BY Zenon, <1>13, <2>2, <2>3, <2>4, <2>5, <2>9 DEF TailsLog
    <3>5. QED
      BY Zenon, <2>4, <2>6, <2>7, <2>8, <3>4
  <2>11. watcher' = [step |-> "judge", job |-> watcher.job, run |-> run, seen |-> watcher.seen, tail |-> next]
    <3>1. PICK it : it = [step |-> watcher.step, job |-> watcher.job, run |-> watcher.run,
                          seen |-> watcher.seen, tail |-> watcher.tail]
      OBVIOUS
    <3>2. watcher = it
      BY <1>2, <3>1 DEF WatcherShape
    <3>3. QED
      BY <2>2, <2>10, <3>1, <3>2
  <2>12. view' = [activities |-> shown, summary |-> view.summary]
    <3>1. PICK it : it = [activities |-> view.activities, summary |-> view.summary]
      OBVIOUS
    <3>2. view = it
      BY <1>2, <3>1 DEF WatcherShape
    <3>3. QED
      BY <2>10, <3>1, <3>2
  <2>13. WatcherShape'
    BY <2>8, <2>11, <2>12 DEF WatcherShape
  <2>14. JobIsRead' /\ RunIsRead'
    BY <1>1, <1>2, <2>1, <2>2, <2>11 DEF JobIsRead, RunIsRead
  <2>15. TailHolds'
    <3>1. SUFFICES ASSUME ~cut PROVE TailHolds'
      BY <1>1 DEF TailHolds
    <3>2. PICK place \in Nat : place = tail.offset
      BY <1>2, <2>4, <3>1 DEF TailHolds
    <3>3. PICK left : left = tail.buffer
      OBVIOUS
    <3>4. /\ tail.lines = LinesTo(place) /\ left = LeftAt(place)
          /\ place <= size
      <4>1. watcher.run # NoRun
        BY <2>2 DEF NoRun
      <4>2. QED
        BY Zenon, <1>2, <2>2, <2>3, <2>4, <3>1, <3>2, <3>3, <4>1 DEF TailHolds
    <3>5. text = left \o Pieces(place, size)
      <4>1. ~(size < tail.offset)
        BY <3>2, <3>4
      <4>2. BufferOf(tail, size) = left /\ StartOf(tail, size) = place
        BY Zenon, <3>2, <3>3, <4>1 DEF BufferOf, StartOf
      <4>3. QED
        BY Zenon, <2>5, <4>2
    <3>6. lines = LinesTo(size) /\ RestOf(text) = LeftAt(size)
      <4>1. text = LeftAt(place) \o Pieces(place, size)
        BY Zenon, <3>4, <3>5
      <4>2. QED
        BY Zenon, <2>7, <3>4, <4>1, ReadingOn
    <3>7. /\ next.offset = size /\ next.lines = lines /\ next.buffer = RestOf(text)
          /\ watcher'.tail = next /\ watcher'.run = run
      BY <2>8, <2>11
    <3>8. size <= IF run = NoRun THEN 0 ELSE logs[run]
      BY <2>2, <2>3 DEF NoRun
    <3>9. QED
      BY Zenon, <1>1, <3>6, <3>7, <3>8 DEF TailHolds
  <2>16. SummaryHolds'
    BY <1>2, <2>1, <2>11, <2>12 DEF SummaryHolds
  <2>17. QED
    BY <1>4, <2>13, <2>14, <2>15, <2>16 DEF WatchInv
<1>14. CASE LogUnavailable
  <2>1. /\ exit = "none" /\ watcher.step = "tail" /\ exit' = exit /\ view' = view
        /\ watcher' = [watcher EXCEPT !.step = "judge"]
    BY <1>14 DEF LogUnavailable, WatchAt
  <2>2. /\ watcher'.step = "judge" /\ watcher'.job = watcher.job /\ watcher'.run = watcher.run
        /\ watcher'.seen = watcher.seen /\ watcher'.tail = watcher.tail /\ WatcherShape'
    BY <1>7, <2>1
  <2>3. JobIsRead' /\ RunIsRead'
    BY <1>1, <1>2, <2>1, <2>2 DEF JobIsRead, RunIsRead
  <2>4. SummaryHolds'
    BY <1>2, <2>1, <2>2 DEF SummaryHolds
  <2>5. QED
    BY <1>4, <1>8, <2>2, <2>3, <2>4 DEF WatchInv
<1>15. CASE Judges
  <2>1. exit = "none" /\ watcher.step = "judge" /\ exit' = exit /\ view' = view
    BY <1>15 DEF Judges, WatchAt
  <2>2. CASE Settled /\ watcher' = [watcher EXCEPT !.step = "findings"]
    <3>1. /\ watcher'.step = "findings" /\ watcher'.job = watcher.job /\ watcher'.run = watcher.run
          /\ watcher'.seen = watcher.seen /\ watcher'.tail = watcher.tail /\ WatcherShape'
      BY <1>7, <2>1, <2>2
    <3>2. JobIsRead' /\ RunIsRead'
      BY <1>1, <1>2, <2>1, <3>1 DEF JobIsRead, RunIsRead
    <3>3. SummaryHolds'
      BY <1>2, <2>1, <2>2, <3>1 DEF SummaryHolds, Settled
    <3>4. QED
      BY <1>4, <1>8, <3>1, <3>2, <3>3 DEF WatchInv
  <2>3. CASE watcher' = [watcher EXCEPT !.step = "job", !.job = Removed]
    <3>1. PICK gone : gone = Removed
      OBVIOUS
    <3>2. gone.status = "removed" /\ gone.latest = 0
      BY <3>1 DEF Removed, NoRun
    <3>3. watcher' = [watcher EXCEPT !.step = "job", !.job = gone]
      BY Zenon, <2>3, <3>1
    <3>4. /\ watcher'.step = "job" /\ watcher'.job = gone /\ watcher'.run = watcher.run
          /\ watcher'.seen = watcher.seen /\ watcher'.tail = watcher.tail /\ WatcherShape'
      BY <1>6, <2>1, <3>3
    <3>5. JobIsRead' /\ RunIsRead'
      BY <1>1, <1>2, <1>3, <2>1, <3>2, <3>4 DEF JobIsRead, RunIsRead, Ended
    <3>6. SummaryHolds'
      BY <1>2, <2>1, <3>4 DEF SummaryHolds
    <3>7. QED
      BY <1>4, <1>8, <3>4, <3>5, <3>6 DEF WatchInv
  <2>4. QED
    BY Zenon, <1>15, <2>2, <2>3 DEF Judges
<1>16. CASE CountsFindings
  <2>1. exit = "none" /\ watcher.step = "findings" /\ watcher.job.status \in Ended
    BY <1>2, <1>16 DEF CountsFindings, WatchAt, SummaryHolds
  <2>2. PICK found : found = IF watcher.run \in DOMAIN watchedRuns
                             THEN watchedRuns[watcher.run].findings ELSE 0
    OBVIOUS
  <2>3. PICK sum : sum = Summary(found)
    OBVIOUS
  <2>4. view' = [view EXCEPT !.summary = <<sum>>]
    BY Zenon, <1>16, <2>2, <2>3 DEF CountsFindings
  <2>5. view' = [activities |-> view.activities, summary |-> <<sum>>]
    <3>1. PICK it : it = [activities |-> view.activities, summary |-> view.summary]
      OBVIOUS
    <3>2. view = it
      BY <1>2, <3>1 DEF WatcherShape
    <3>3. QED
      BY <2>4, <3>1, <3>2
  <2>6. view'.summary = <<sum>> /\ view'.summary # <<>> /\ view'.summary[1] = sum
    BY <2>5
  <2>7. PICK known : known = watcher.tail.available
    OBVIOUS
  <2>8. sum = [job |-> watcher.job.status, run |-> watcher.run, runStatus |-> watcher.seen,
               findings |-> found, available |-> known]
    BY Zenon, <2>3, <2>7 DEF Summary
  <2>9. watcher.run # NoRun /\ Len(watchedRuns) # 0 => found = watchedRuns[watcher.run].findings
    <3>1. SUFFICES ASSUME watcher.run # NoRun, Len(watchedRuns) # 0
                   PROVE  watcher.run \in DOMAIN watchedRuns
      BY <2>2
    <3>2. Len(watchedRuns) = Len(logs)
      BY Zenon, <1>2, <3>1 DEF WorldHolds
    <3>3. QED
      BY <1>2, <1>3, <3>1, <3>2 DEF RunIsRead, NoRun
  <2>10. ASSUME watcher'.job = watcher.job, watcher'.run = watcher.run, watcher'.seen = watcher.seen
         PROVE  SummaryTold(view.summary[1])'
    BY <1>1, <2>6, <2>8, <2>9, <2>10 DEF SummaryTold
  <2>11. CASE watcher.job.status = "completed" /\ watcher' = [watcher EXCEPT !.step = "result"] /\ exit' = exit
    <3>1. /\ watcher' = [step |-> "result", job |-> watcher.job, run |-> watcher.run,
                         seen |-> watcher.seen, tail |-> watcher.tail]
      BY <1>7, <2>11
    <3>2. WatcherShape'
      BY <1>2, <2>5, <3>1 DEF WatcherShape
    <3>3. /\ watcher'.step = "result" /\ watcher'.job = watcher.job /\ watcher'.run = watcher.run
          /\ watcher'.seen = watcher.seen /\ watcher'.tail = watcher.tail
      BY <3>1
    <3>4. JobIsRead' /\ RunIsRead'
      BY <1>1, <1>2, <2>1, <3>3 DEF JobIsRead, RunIsRead
    <3>5. SummaryHolds'
      BY <2>1, <2>6, <2>10, <2>11, <3>3 DEF SummaryHolds
    <3>6. QED
      BY <1>4, <1>8, <3>2, <3>3, <3>4, <3>5 DEF WatchInv
  <2>12. CASE exit' = "1" /\ watcher' = watcher
    <3>1. WatcherShape'
      BY <1>2, <2>5, <2>12 DEF WatcherShape
    <3>2. JobIsRead' /\ RunIsRead'
      BY <1>1, <1>2, <2>12 DEF JobIsRead, RunIsRead
    <3>3. TailHolds'
      BY Zenon, <1>8, <2>12
    <3>4. SummaryHolds'
      BY <2>1, <2>6, <2>10, <2>12 DEF SummaryHolds
    <3>5. QED
      BY <1>4, <3>1, <3>2, <3>3, <3>4 DEF WatchInv
  <2>13. QED
    BY <1>16, <2>11, <2>12 DEF CountsFindings
<1>17. CASE LoadsResult
  <2>1. exit = "none" /\ watcher.step = "result" /\ watcher' = watcher /\ view' = view
    BY <1>17 DEF LoadsResult, WatchAt, LeavesWith
  <2>2. CASE exit' = "0"
    BY <1>5, <2>1, <2>2
  <2>3. CASE /\ exit' = "error"
             /\ ~(watcher.run \in DOMAIN watchedRuns /\ watchedRuns[watcher.run].status = "completed")
    <3>1. /\ watcher.job.status = "completed" /\ watcher.job.status \in Ended
          /\ watcher.run = watcher.job.latest /\ watcher.run # NoRun
      BY <1>2, <2>1 DEF SummaryHolds, RunIsRead, JobIsRead, Ended
    <3>2. CASE watcher.run \notin DOMAIN watchedRuns
      <4>1. watcher.run \in 1 .. Len(logs) /\ watcher.run \notin 1 .. Len(watchedRuns)
        BY <1>2, <1>3, <3>1, <3>2 DEF RunIsRead, NoRun
      <4>2. Len(watchedRuns) # Len(logs)
        BY <4>1
      <4>3. Len(watchedRuns) = 0 /\ Gone
        BY Zenon, <1>2, <4>2 DEF WorldHolds
      <4>4. QED
        BY <1>5, <2>1, <2>3, <4>3
    <3>3. CASE watcher.run \in DOMAIN watchedRuns
      <4>1. watched.status = "removed"
        BY Zenon, <1>9, <2>3, <3>1, <3>3
      <4>2. QED
        BY <1>5, <2>1, <2>3, <4>1
    <3>4. QED
      BY <3>2, <3>3
  <2>4. QED
    BY <1>17, <2>2, <2>3 DEF LoadsResult, LeavesWith
<1>18. QED
  BY Zenon, <1>10, <1>11, <1>12, <1>13, <1>14, <1>15, <1>16, <1>17

LEMMA WatchNextKeeps == ASSUME WatchInv, [WatchNext]_watchVars PROVE WatchInv'
<1>1. CASE UNCHANGED watchVars
  <2>1. UNCHANGED <<watched, watchedRuns, logs, cut, watcher, view, exit>>
    BY <1>1 DEF watchVars
  <2>2. WorldHolds' /\ WorldMoves
    <3>1. WorldHolds /\ \A r \in 1 .. Len(logs) : logs[r] \in Nat
      <4>1. WorldHolds
        BY DEF WatchInv
      <4>2. logs \in Seq(Nat)
        BY <4>1 DEF WorldHolds
      <4>3. QED
        BY <4>1, <4>2
    <3>2. Len(logs) \in Nat
      BY <3>1 DEF WorldHolds
    <3>3. QED
      BY <2>1, <3>1, <3>2 DEF WorldHolds, WorldMoves, Gone
  <2>3. QED
    BY <2>1, <2>2, WatchRemembers
<1>2. CASE Worker
  <2>1. WorldHolds' /\ WorldMoves
    BY <1>2, WorkerSteps DEF WatchInv
  <2>2. UNCHANGED <<watcher, view, exit>>
    BY <1>2 DEF Worker, WorkerClaims, WorkerStartsRun, WorkerLogs, WorkerFinds, WorkerEndsRun,
                WorkerEndsJob, LeaseIsLost, JobTooOld, RunsReconciled, TenantGoes, LogIsCut, WatchStays
  <2>3. QED
    BY <2>1, <2>2, WatchRemembers
<1>3. CASE \/ Aborts \/ ReadsJob \/ ReadsRuns \/ TailsLog \/ LogUnavailable \/ Judges
           \/ CountsFindings \/ LoadsResult
  <2>1. WorldStays
    BY Zenon, <1>3 DEF Aborts, ReadsJob, ReadsRuns, TailsLog, LogUnavailable, Judges,
                CountsFindings, LoadsResult
  <2>2. QED
    BY Zenon, <1>3, <2>1, WatchSteps
<1>4. QED
  BY Zenon, <1>1, <1>2, <1>3 DEF WatchNext, Worker

\* Whatever the worker, the reconciliation, the removal of the tenant and the cutting
\* of logs do between the reads of a watch, the lines it shows are those of the log
\* of the run it follows, its summary is of the end of the job, and its exit is true.
THEOREM WatchersAreToldTruly == WatchSpec => []WatchTellsTheEnd
<1>1. ASSUME WatchInv, [WatchNext]_watchVars PROVE WatchInv'
  BY <1>1, WatchNextKeeps
<1>2. ASSUME WatchInv PROVE WatchTellsTheEnd
  <2>1. WorldHolds /\ JobIsRead /\ RunIsRead /\ TailHolds /\ SummaryHolds
    BY <1>2 DEF WatchInv
  <2>2. LinesInOrder
    <3>1. SUFFICES ASSUME ~cut PROVE LinesInOrder
      BY DEF LinesInOrder
    <3>2. PICK half \in Nat : half = watcher.tail.offset \div 2
      BY <2>1, <3>1 DEF TailHolds
    <3>3. watcher.tail.lines = [k \in 1 .. half |-> Line(k)]
      BY Zenon, <2>1, <3>1, <3>2 DEF TailHolds, LinesTo
    <3>4. /\ \A k \in DOMAIN watcher.tail.lines : watcher.tail.lines[k] = Line(k)
          /\ Len(watcher.tail.lines) = half
      BY <3>3
    <3>5. watcher.run \in DOMAIN logs => watcher.tail.offset <= logs[watcher.run]
      <4>1. SUFFICES ASSUME watcher.run \in DOMAIN logs PROVE watcher.tail.offset <= logs[watcher.run]
        OBVIOUS
      <4>2. logs \in Seq(Nat)
        BY <2>1 DEF WorldHolds
      <4>3. watcher.run # NoRun
        BY <4>1, <4>2 DEF NoRun
      <4>4. QED
        BY Zenon, <2>1, <3>1, <4>3 DEF TailHolds
    <3>6. QED
      BY Zenon, <3>2, <3>4, <3>5 DEF LinesInOrder
  <2>3. ASSUME view.summary # <<>>
        PROVE  /\ watcher.job.status \in Ended /\ watched \in {watcher.job, Removed}
               /\ watcher.run = watcher.job.latest /\ SummaryTold(view.summary[1])
               /\ watcher.job.status = "completed" => watcher.seen = "completed"
    BY <2>1, <2>3 DEF SummaryHolds, JobIsRead, RunIsRead
  <2>4. SummaryIsFinal
    <3>1. SUFFICES ASSUME view.summary # <<>> PROVE SummaryIsFinal
      BY DEF SummaryIsFinal
    <3>2. PICK sum : sum = view.summary[1]
      OBVIOUS
    <3>3. SummaryTold(sum)
      BY <2>3, <3>1, <3>2
    <3>4. watched.status \in {sum.job, "removed"} /\ watched.latest \in {sum.run, NoRun}
      <4>1. CASE watched = watcher.job
        BY <2>3, <3>1, <3>3, <4>1 DEF SummaryTold
      <4>2. CASE watched = Removed
        BY <4>2 DEF Removed, NoRun
      <4>3. QED
        BY <2>3, <3>1, <4>1, <4>2
    <3>5. sum.job = "completed" => sum.runStatus = "completed"
      BY <2>3, <3>1, <3>3 DEF SummaryTold
    <3>6. watchedRuns # <<>> /\ sum.run # NoRun => watchedRuns[sum.run].findings = sum.findings
      <4>1. watchedRuns # <<>> => Len(watchedRuns) # 0
        BY <2>1 DEF WorldHolds
      <4>2. QED
        BY <3>3, <4>1 DEF SummaryTold
    <3>7. QED
      BY Zenon, <3>2, <3>4, <3>5, <3>6 DEF SummaryIsFinal
  <2>5. exit = "0" => view.summary[1].job = "completed"
    BY <2>1 DEF SummaryHolds, SummaryTold
  <2>6. exit = "error" => watched.status = "removed" \/ watchedRuns = <<>>
    <3>1. watchedRuns \in Seq(WatchedRunType)
      BY <2>1 DEF WorldHolds, WatchedRunType
    <3>2. Len(watchedRuns) = 0 => watchedRuns = <<>>
      BY <3>1
    <3>3. QED
      BY <2>1, <3>2 DEF SummaryHolds
  <2>7. QED
    BY Zenon, <2>2, <2>4, <2>5, <2>6 DEF WatchTellsTheEnd
<1>3. QED
  BY <1>1, <1>2, WatchBegins, PTL DEF WatchSpec

-----------------------------------------------------------------------------
(* The types of the watch *)

WatchTypes ==
  /\ Len(logs) <= WatchRuns
  /\ watcher.step \in {"job", "runs", "tail", "judge", "findings", "result"}
  /\ exit \in {"none", "0", "1", "error", "aborted"}
  /\ watcher.tail.offset \in Nat /\ watcher.tail.buffer \in Seq(Nat)
  /\ view.activities \in Seq(Nat \X Nat) /\ Len(view.activities) <= Shown

\* Pieces are read as lines of two, and one may be left over.
LEMMA PiecesTyped ==
  ASSUME NEW text \in Seq(Nat)
  PROVE  LinesOf(text) \in Seq(Nat \X Nat) /\ RestOf(text) \in Seq(Nat)
<1>1. PICK n \in Nat : n = Len(text)
  OBVIOUS
<1>2. PICK half \in Nat : half = n \div 2 /\ 2 * half <= n
  OBVIOUS
<1>3. \A i \in 1 .. n : text[i] \in Nat
  BY <1>1
<1>4. ASSUME NEW k \in 1 .. half PROVE <<text[2*k - 1], text[2*k]>> \in Nat \X Nat
  <2>1. 2*k - 1 \in 1 .. n /\ 2*k \in 1 .. n
    BY <1>2
  <2>2. text[2*k - 1] \in Nat /\ text[2*k] \in Nat
    BY <1>3, <2>1
  <2>3. QED
    BY <2>2
<1>5. LinesOf(text) \in Seq(Nat \X Nat)
  <2>1. LinesOf(text) = [k \in 1 .. half |-> <<text[2*k - 1], text[2*k]>>]
    BY <1>1, <1>2 DEF LinesOf
  <2>2. QED
    BY <1>4, <2>1
<1>6. RestOf(text) \in Seq(Nat)
  <2>1. CASE n % 2 = 0
    <3>1. RestOf(text) = <<>>
      BY <1>1, <2>1 DEF RestOf
    <3>2. QED
      BY <3>1
  <2>2. CASE n % 2 # 0
    <3>1. n \in 1 .. n
      BY <2>2
    <3>2. text[n] \in Nat
      BY <1>3, <3>1
    <3>3. RestOf(text) = <<text[n]>>
      BY Zenon, <1>1, <2>2 DEF RestOf
    <3>4. QED
      BY <3>2, <3>3
  <2>3. QED
    BY <2>1, <2>2
<1>7. QED
  BY <1>5, <1>6

\* The dashboard keeps the last activities.
LEMMA LastShown ==
  ASSUME NEW S, NEW all \in Seq(S),
         NEW shown, shown = SubSeq(all, IF Len(all) > Shown THEN Len(all) - Shown + 1 ELSE 1, Len(all))
  PROVE  shown \in Seq(S) /\ Len(shown) <= Shown
<1>1. PICK n \in Nat : n = Len(all)
  OBVIOUS
<1>2. Shown \in Nat
  BY WatchAssumption
<1>3. PICK first : first = IF n > Shown THEN n - Shown + 1 ELSE 1
  OBVIOUS
<1>4. first \in Nat /\ first >= 1 /\ n - first + 1 <= Shown
  BY <1>2, <1>3
<1>5. shown = SubSeq(all, first, n)
  BY Zenon, <1>1, <1>3
<1>6. \A i \in first .. n : all[i] \in S
  BY <1>1, <1>4
<1>7. shown \in Seq(S) /\ Len(shown) = IF first <= n THEN n - first + 1 ELSE 0
  <2>1. first \in Int /\ n \in Int
    BY <1>4
  <2>2. QED
    <3>1. /\ SubSeq(all, first, n) \in Seq(S)
          /\ Len(SubSeq(all, first, n)) = IF first <= n THEN n - first + 1 ELSE 0
      BY <1>6, <2>1, SubSeqProperties
    <3>2. QED
      BY Zenon, <1>5, <3>1
<1>8. QED
  BY <1>2, <1>4, <1>7

LEMMA LogsStayFew ==
  ASSUME WorldHolds, Worker, Len(logs) <= WatchRuns
  PROVE  Len(logs') <= WatchRuns
<1>1. logs \in Seq(Nat) /\ Len(logs) \in Nat
  BY DEF WorldHolds
<1>2. CASE logs' = logs
  BY <1>2
<1>3. CASE WorkerStartsRun
  <2>1. /\ watched.status = "in_progress" /\ Len(watchedRuns) < WatchRuns
        /\ logs' = Append(logs, 0)
    BY <1>3 DEF WorkerStartsRun, Newest
  <2>2. Len(watchedRuns) = Len(logs)
    BY <2>1 DEF WorldHolds, Gone, Ended
  <2>3. Len(logs') = Len(logs) + 1
    BY <1>1, <2>1
  <2>4. QED
    BY <1>1, <2>1, <2>2, <2>3, WatchAssumption
<1>4. CASE WorkerLogs
  <2>1. PICK size, r : logs' = [logs EXCEPT ![r] = size]
    BY <1>4 DEF WorkerLogs
  <2>2. Len(logs') = Len(logs)
    BY <1>1, <2>1
  <2>3. QED
    BY <2>2
<1>5. CASE LogIsCut
  <2>1. PICK r : logs' = [logs EXCEPT ![r] = 0]
    BY <1>5 DEF LogIsCut
  <2>2. Len(logs') = Len(logs)
    BY <1>1, <2>1
  <2>3. QED
    BY <2>2
<1>6. QED
  BY Zenon, <1>2, <1>3, <1>4, <1>5 DEF Worker, WorkerClaims, WorkerFinds, WorkerEndsRun, WorkerEndsJob,
     LeaseIsLost, JobTooOld, RunsReconciled, TenantGoes

LEMMA ViewTyped ==
  ASSUME WatchInv, WatchTypes,
         \/ Aborts \/ ReadsJob \/ ReadsRuns \/ TailsLog \/ LogUnavailable \/ Judges
         \/ CountsFindings \/ LoadsResult
  PROVE  WatchTypes'
<1>1. WorldHolds /\ WatcherShape /\ RunIsRead
  BY DEF WatchInv
<1>2. logs' = logs
  BY Zenon DEF Aborts, ReadsJob, ReadsRuns, TailsLog, LogUnavailable, Judges, CountsFindings, LoadsResult, WorldStays
<1>3. PICK it : it = [step |-> watcher.step, job |-> watcher.job, run |-> watcher.run,
                      seen |-> watcher.seen, tail |-> watcher.tail]
  OBVIOUS
<1>4. watcher = it
  BY Zenon, <1>1, <1>3 DEF WatcherShape
<1>5. PICK seen : seen = [activities |-> view.activities, summary |-> view.summary]
  OBVIOUS
<1>6. view = seen
  BY Zenon, <1>1, <1>5 DEF WatcherShape
<1>7. ASSUME watcher'.tail = watcher.tail, view'.activities = view.activities,
             watcher'.step \in {"job", "runs", "tail", "judge", "findings", "result"},
             exit' \in {"none", "0", "1", "error", "aborted"}
      PROVE  WatchTypes'
  BY Zenon, <1>2, <1>7 DEF WatchTypes
<1>8. CASE Aborts \/ LoadsResult
  <2>1. watcher' = watcher /\ view' = view /\ exit' \in {"0", "error", "aborted"}
    BY <1>8 DEF Aborts, LoadsResult, LeavesWith
  <2>2. QED
    BY <1>7, <2>1 DEF WatchTypes
<1>9. CASE ReadsJob
  <2>1. CASE LeavesWith("error")
    BY <1>7, <2>1 DEF LeavesWith, WatchTypes
  <2>2. CASE view' = view /\ exit' = exit /\ watcher' = [watcher EXCEPT !.step = "runs", !.job = watched]
    <3>1. watcher'.step = "runs" /\ watcher'.tail = watcher.tail
      BY <1>3, <1>4, <2>2
    <3>2. QED
      BY <1>7, <2>2, <3>1 DEF WatchTypes
  <2>3. QED
    BY Zenon, <1>9, <2>1, <2>2 DEF ReadsJob
<1>10. CASE ReadsRuns
  <2>1. CASE LeavesWith("error")
    BY <1>7, <2>1 DEF LeavesWith, WatchTypes
  <2>2. CASE /\ view' = view /\ exit' = exit
             /\ \E run, status : Follows(run, status, TailFor(run))
    <3>1. PICK run, status : Follows(run, status, TailFor(run))
      BY <2>2
    <3>2. PICK step, tail : step = (IF run = NoRun THEN "judge" ELSE "tail") /\ tail = TailFor(run)
      OBVIOUS
    <3>3. watcher' = [watcher EXCEPT !.step = step, !.run = run, !.seen = status, !.tail = tail]
      BY Zenon, <3>1, <3>2 DEF Follows
    <3>4. watcher'.step = step /\ watcher'.tail = tail
      BY <1>3, <1>4, <3>3
    <3>5. tail.offset \in Nat /\ tail.buffer \in Seq(Nat)
      <4>1. CASE tail = watcher.tail
        BY Zenon, <4>1 DEF WatchTypes
      <4>2. CASE tail = NewTail
        <5>1. tail.offset = 0 /\ tail.buffer = <<>>
          BY Zenon, <4>2, NewTailIsEmpty
        <5>2. QED
          BY <5>1
      <4>3. QED
        BY Zenon, <3>2, <4>1, <4>2 DEF TailFor
    <3>6. step \in {"judge", "tail"}
      BY <3>2
    <3>7. QED
      BY <1>2, <2>2, <3>4, <3>5, <3>6 DEF WatchTypes
  <2>3. QED
    BY Zenon, <1>10, <2>1, <2>2 DEF ReadsRuns
<1>11. CASE TailsLog
  <2>1. watcher.step = "tail" /\ exit' = exit
    BY <1>11 DEF TailsLog, WatchAt
  <2>2. PICK run : run = watcher.run /\ run \in 1 .. Len(logs)
    BY <1>1, <2>1 DEF RunIsRead, NoRun, WorldHolds
  <2>3. PICK size \in Nat : size = logs[run]
    BY <1>1, <2>2 DEF WorldHolds
  <2>4. PICK tail : tail = watcher.tail
    OBVIOUS
  <2>5. PICK text : text = BufferOf(tail, size) \o Pieces(StartOf(tail, size), size)
    OBVIOUS
  <2>6. PICK yes : yes = TRUE
    OBVIOUS
  <2>7. PICK lines : lines = tail.lines \o LinesOf(text)
    OBVIOUS
  <2>8. PICK next : next = [offset |-> size, buffer |-> RestOf(text), lines |-> lines, available |-> yes]
    OBVIOUS
  <2>9. PICK all : all = view.activities \o LinesOf(text)
    OBVIOUS
  <2>10. PICK shown : shown = SubSeq(all, IF Len(all) > Shown THEN Len(all) - Shown + 1 ELSE 1, Len(all))
    OBVIOUS
  <2>11. watcher' = [watcher EXCEPT !.step = "judge", !.tail = next]
         /\ view' = [view EXCEPT !.activities = shown]
    <3>1. watcher' = [watcher EXCEPT !.step = "judge",
              !.tail = [offset |-> size, buffer |-> RestOf(text),
                        lines |-> watcher.tail.lines \o LinesOf(text), available |-> TRUE]]
          /\ view' = [view EXCEPT !.activities = shown]
      <4>1. it.tail = tail /\ seen.activities = view.activities
        BY <1>3, <1>5, <2>4
      <4>2. QED
        BY Zenon, <1>11, <2>2, <2>3, <2>4, <2>5, <2>9, <2>10 DEF TailsLog
    <3>2. QED
      BY Zenon, <2>4, <2>6, <2>7, <2>8, <3>1
  <2>12. watcher'.step = "judge" /\ watcher'.tail = next
    BY <1>3, <1>4, <2>11
  <2>13. view'.activities = shown
    BY <1>5, <1>6, <2>11
  <2>14. tail.offset \in Nat /\ tail.buffer \in Seq(Nat)
    BY Zenon, <2>4 DEF WatchTypes
  <2>15. text \in Seq(Nat)
    <3>1. BufferOf(tail, size) \in Seq(Nat) /\ StartOf(tail, size) \in Nat
      <4>1. <<>> \in Seq(Nat) /\ NewTail.offset \in Nat
        BY NewTailIsEmpty
      <4>2. QED
        BY Zenon, <2>14, <4>1 DEF BufferOf, StartOf
    <3>2. PICK from \in Nat : from = StartOf(tail, size)
      BY <3>1
    <3>3. from <= size
      <4>1. CASE size < tail.offset
        <5>1. from = 0
          BY Zenon, <3>2, <4>1, NewTailIsEmpty DEF StartOf
        <5>2. QED
          BY <5>1
      <4>2. CASE ~(size < tail.offset)
        <5>1. from = tail.offset
          BY Zenon, <3>2, <4>2 DEF StartOf
        <5>2. QED
          BY <2>14, <4>2, <5>1
      <4>3. QED
        BY <4>1, <4>2
    <3>4. PICK length \in Nat : length = size - from
      BY <3>3
    <3>5. Pieces(from, size) = [i \in 1 .. length |-> from + i]
      BY Zenon, <3>4 DEF Pieces
    <3>6. Pieces(from, size) \in Seq(Nat)
      BY <3>5
    <3>7. PICK left : left = BufferOf(tail, size) /\ left \in Seq(Nat)
      BY <3>1
    <3>8. left \o Pieces(from, size) \in Seq(Nat)
      BY <3>6, <3>7
    <3>9. QED
      BY Zenon, <2>5, <3>2, <3>7, <3>8
  <2>16. LinesOf(text) \in Seq(Nat \X Nat) /\ RestOf(text) \in Seq(Nat)
    BY <2>15, PiecesTyped
  <2>17. all \in Seq(Nat \X Nat)
    <3>1. PICK S : S = Nat \X Nat
      OBVIOUS
    <3>2. PICK told, whole : told = view.activities /\ whole = LinesOf(text)
      OBVIOUS
    <3>3. told \in Seq(S) /\ whole \in Seq(S)
      BY Zenon, <2>16, <3>1, <3>2 DEF WatchTypes
    <3>4. told \o whole \in Seq(S)
      BY <3>3
    <3>5. QED
      BY Zenon, <2>9, <3>1, <3>2, <3>4
  <2>18. shown \in Seq(Nat \X Nat) /\ Len(shown) <= Shown
    BY Zenon, <2>10, <2>17, LastShown
  <2>19. next.offset = size /\ next.buffer = RestOf(text)
    BY <2>8
  <2>20. watcher'.step \in {"job", "runs", "tail", "judge", "findings", "result"}
    BY <2>12
  <2>21. QED
    BY Zenon, <1>2, <2>1, <2>3, <2>12, <2>13, <2>16, <2>18, <2>19, <2>20 DEF WatchTypes
<1>12. CASE LogUnavailable \/ Judges
  <2>1. view' = view /\ exit' = exit
    BY <1>12 DEF LogUnavailable, Judges
  <2>2. watcher'.tail = watcher.tail /\ watcher'.step \in {"judge", "findings", "job"}
    <3>1. PICK gone : gone = Removed
      OBVIOUS
    <3>2. \/ watcher' = [watcher EXCEPT !.step = "judge"]
          \/ watcher' = [watcher EXCEPT !.step = "findings"]
          \/ watcher' = [watcher EXCEPT !.step = "job", !.job = gone]
      BY Zenon, <1>12, <3>1 DEF LogUnavailable, Judges
    <3>3. QED
      BY <1>3, <1>4, <3>2
  <2>3. QED
    BY <1>7, <2>1, <2>2 DEF WatchTypes
<1>13. CASE CountsFindings
  <2>1. PICK sum : view' = [view EXCEPT !.summary = sum]
    BY Zenon, <1>13 DEF CountsFindings
  <2>2. view'.activities = view.activities
    BY <1>5, <1>6, <2>1
  <2>3. \/ watcher' = [watcher EXCEPT !.step = "result"] /\ exit' = exit
        \/ watcher' = watcher /\ exit' = "1"
    BY <1>13 DEF CountsFindings
  <2>4. /\ watcher'.tail = watcher.tail
        /\ watcher'.step \in {watcher.step, "result"} /\ exit' \in {exit, "1"}
    BY <1>3, <1>4, <2>3
  <2>5. QED
    BY <1>7, <2>2, <2>4 DEF WatchTypes
<1>14. QED
  BY Zenon, <1>8, <1>9, <1>10, <1>11, <1>12, <1>13

WatchTyped == WatchInv /\ WatchTypes

LEMMA WatchTypesBegin == WatchInit => WatchTyped
<1> SUFFICES ASSUME WatchInit PROVE WatchTyped
  OBVIOUS
<1>1. logs = <<>> /\ Len(logs) = 0 /\ exit = "none"
  BY DEF WatchInit
<1>2. PICK job, tail : job = Removed /\ tail = NewTail
  OBVIOUS
<1>3. /\ watcher = [step |-> "job", job |-> job, run |-> NoRun, seen |-> "none", tail |-> tail]
      /\ view = [activities |-> <<>>, summary |-> <<>>]
  BY Zenon, <1>2 DEF WatchInit
<1>4. watcher.step = "job" /\ watcher.tail = tail /\ view.activities = <<>>
  BY <1>3
<1>5. tail.offset = 0 /\ tail.buffer = <<>>
  BY Zenon, <1>2, NewTailIsEmpty
<1>6. WatchTypes
  BY <1>1, <1>4, <1>5, WatchAssumption DEF WatchTypes
<1>7. QED
  BY <1>6, WatchBegins DEF WatchTyped

LEMMA WatchTypesStep == WatchTyped /\ [WatchNext]_watchVars => WatchTyped'
<1> SUFFICES ASSUME WatchTyped, [WatchNext]_watchVars PROVE WatchTyped'
  OBVIOUS
<1>1. WatchInv /\ WatchTypes /\ WatchInv' /\ WorldHolds
  BY WatchNextKeeps DEF WatchTyped, WatchInv
<1>2. CASE UNCHANGED watchVars
  BY Zenon, <1>1, <1>2 DEF WatchTyped, WatchTypes, watchVars
<1>3. CASE Worker
  <2>1. UNCHANGED <<watcher, view, exit>>
    BY <1>3 DEF Worker, WorkerClaims, WorkerStartsRun, WorkerLogs, WorkerFinds, WorkerEndsRun,
                WorkerEndsJob, LeaseIsLost, JobTooOld, RunsReconciled, TenantGoes, LogIsCut, WatchStays
  <2>2. Len(logs') <= WatchRuns
    BY Zenon, <1>1, <1>3, LogsStayFew DEF WatchTypes
  <2>3. watcher' = watcher /\ view' = view /\ exit' = exit
    BY <2>1
  <2>4. QED
    BY Zenon, <1>1, <2>2, <2>3 DEF WatchTyped, WatchTypes
<1>4. CASE \/ Aborts \/ ReadsJob \/ ReadsRuns \/ TailsLog \/ LogUnavailable \/ Judges
           \/ CountsFindings \/ LoadsResult
  BY Zenon, <1>1, <1>4, ViewTyped, WatchAssumption DEF WatchTyped
<1>5. QED
  BY Zenon, <1>2, <1>3, <1>4 DEF WatchNext, Worker

LEMMA WatchTypesSuffice == WatchTyped => WatchTypeOK
<1> SUFFICES ASSUME WatchTyped PROVE WatchTypeOK
  OBVIOUS
<1>1. WorldHolds /\ WatchTypes
  BY DEF WatchTyped, WatchInv
<1>2. /\ Len(logs) \in Nat /\ Len(logs) <= WatchRuns
      /\ watched.latest \in {0, Len(logs)} /\ Len(watchedRuns) \in {0, Len(logs)}
  BY <1>1 DEF WorldHolds, WatchTypes, NoRun
<1>3. watched.latest \in 0 .. WatchRuns /\ Len(watchedRuns) <= WatchRuns
  BY <1>2, WatchAssumption
<1>4. QED
  BY Zenon, <1>1, <1>3 DEF WatchTypes, WatchTypeOK

-----------------------------------------------------------------------------
(* The migrations of old databases *)

SchemaSpec == SchemaInit /\ [][SchemaNext]_schemaVars

\* What a migration has established once it was applied; nothing that is done
\* afterwards takes it back but a migration that comes too late, one of a.
Applied(id, d, a) ==
  /\ id = "s02" => \/ Has(d, "platform_connection_id") \/ "s06" \in a
                   \/ \A t \in OldTenants : d.tenants[t].json
  /\ id = "s06" => ~Has(d, "base_url")
  /\ id = "s08" => Has(d, "platform_connection_id") \/ "s06" \in a
  /\ id \in {"s09", "v003"} => \A j \in OldJobs : "trigger" \in d.jobs[j]
  /\ id \in {"s11", "v005"} => "s09" \in a \/ \A j \in OldJobs : "available" \in d.jobs[j]
  /\ id \in {"s12", "v006"} => \A m \in OldMetrics : "session" \in d.metrics[m]
  /\ id \in {"s13", "v007"} => OldJobs \subseteq d.requests
  /\ id \in {"s13", "v007"} => Has(d, "batch_kind") \/ {"s09", "s11"} \cap a # {}

\* The rows that are still to be changed are listed.
RowsListed(id, rows, d) ==
  /\ id = "v003" => \A j \in OldJobs : "trigger" \in d.jobs[j] \/ j \in rows
  /\ id = "v005" => \A j \in OldJobs : "available" \in d.jobs[j] \/ j \in rows
  /\ id = "v006" => \A m \in OldMetrics : "session" \in d.metrics[m] \/ m \in rows
  /\ id = "v007" => Has(d, "batch_kind") /\ \A j \in OldJobs : j \in d.requests \/ j \in rows
  /\ rows \subseteq IF id = "v006" THEN OldMetrics ELSE OldJobs
Defined(id, d) == id = "v007" => Has(d, "batch_kind")

DataShape(d) ==
  /\ d = [columns |-> d.columns, tenants |-> d.tenants, connections |-> d.connections,
          jobs |-> d.jobs, metrics |-> d.metrics, requests |-> d.requests]
  /\ d.jobs \in [OldJobs -> SUBSET {"trigger", "available"}]
  /\ d.metrics \in [OldMetrics -> SUBSET {"session"}]
  /\ d.requests \subseteq OldJobs
  /\ DOMAIN d.tenants = OldTenants
TenantShape(d) ==
  \A t \in OldTenants :
    d.tenants[t] = [secret |-> d.tenants[t].secret, columns |-> d.tenants[t].columns,
                    json |-> d.tenants[t].json, connection |-> d.tenants[t].connection]

\* On SQLite a column is a sign that its rows were rebuilt with it.
ColumnsTell(d) ==
  /\ Has(d, "note_id") \/ Has(d, "comment_id")
  /\ Has(d, "trigger_json") => Applied("s09", d, {})
  /\ Has(d, "available_at") => Applied("s11", d, {})
  /\ Has(d, "harness_session_key") => Applied("s12", d, {})
  /\ Has(d, "platform_connection_id") => ~Has(d, "base_url")
  /\ \A j \in OldJobs : "available" \in d.jobs[j] => Has(d, "available_at")

DataHolds(d) == DataShape(d) /\ TenantShape(d) /\ (adapter = "sqlite" => ColumnsTell(d))

\* Each tenant has a connection with its credentials, the same for the same.
JoinedUp(d) ==
  /\ \A t, u \in OldTenants :
       d.tenants[t].secret = d.tenants[u].secret /\ d.tenants[t].secret # "malformed"
         => d.tenants[t].connection = d.tenants[u].connection
  /\ \A t \in OldTenants :
       \E c \in d.connections :
         /\ d.tenants[t].connection = c.id /\ c.secret = d.tenants[t].secret
         /\ c.ready = (c.secret # "malformed")

\* Where a process stands.
StarterStands(p) ==
  /\ starter[p].known \subseteq recorded
  /\ starter[p].step \in {"record", "require"} => Applied(Current(p), data, repeated)
  /\ starter[p].step = "list" => adapter = "flotiq" /\ Defined(Current(p), data)
  /\ starter[p].step = "fill" => adapter = "flotiq" /\ RowsListed(Current(p), starter[p].pending, data)
  /\ starter[p].step = "ready" => \A i \in DOMAIN Order : Order[i] \in recorded

StarterShape ==
  /\ DOMAIN starter = Starters
  /\ \A p \in Starters : starter[p] = [step |-> starter[p].step, known |-> starter[p].known,
                                       pending |-> starter[p].pending]

SqliteHolds ==
  adapter = "sqlite" =>
    /\ ~Has(data, "base_url") => "s02" \in recorded
    /\ Has(data, "platform_connection_id") /\ {"s06", "s08"} \cap repeated = {} => JoinedUp(data)

SchemaInv ==
  /\ adapter \in {"sqlite", "flotiq"}
  /\ StarterShape /\ DataHolds(data) /\ SqliteHolds
  /\ \A id \in recorded : Applied(id, data, repeated)
  /\ adapter = "flotiq" => "s08" \notin recorded
  /\ \A p \in Starters : StarterStands(p)

\* What one step of a migration makes of the data, unless it makes a table anew.
DataGrows(d, e) ==
  /\ \A j \in OldJobs : d.jobs[j] \subseteq e.jobs[j]
  /\ \A m \in OldMetrics : d.metrics[m] \subseteq e.metrics[m]
  /\ d.requests \subseteq e.requests
  /\ ~Has(d, "base_url") => ~Has(e, "base_url")
  /\ Has(d, "platform_connection_id") => Has(e, "platform_connection_id")
  /\ Has(d, "batch_kind") => Has(e, "batch_kind")
  /\ Has(e, "platform_connection_id") \/ \A t \in OldTenants : d.tenants[t].json => e.tenants[t].json

LEMMA DoneStays ==
  ASSUME NEW d, NEW e, DataGrows(d, e), NEW id, NEW a, Applied(id, d, a)
  PROVE  Applied(id, e, a)
<1>1. id \in {"s09", "v003"} => \A j \in OldJobs : "trigger" \in e.jobs[j]
  BY DEF Applied, DataGrows
<1>2. id \in {"s11", "v005"} => "s09" \in a \/ \A j \in OldJobs : "available" \in e.jobs[j]
  BY DEF Applied, DataGrows
<1>3. id \in {"s12", "v006"} => \A m \in OldMetrics : "session" \in e.metrics[m]
  BY DEF Applied, DataGrows
<1>4. id \in {"s13", "v007"} => OldJobs \subseteq e.requests
  BY DEF Applied, DataGrows
<1>5. id = "s02" => \/ Has(e, "platform_connection_id") \/ "s06" \in a
                    \/ \A t \in OldTenants : e.tenants[t].json
  BY Zenon DEF Applied, DataGrows
<1>6. /\ id = "s06" => ~Has(e, "base_url")
      /\ id = "s08" => Has(e, "platform_connection_id") \/ "s06" \in a
      /\ id \in {"s13", "v007"} => Has(e, "batch_kind") \/ {"s09", "s11"} \cap a # {}
  BY Zenon DEF Applied, DataGrows
<1>7. QED
  BY Zenon, <1>1, <1>2, <1>3, <1>4, <1>5, <1>6 DEF Applied

LEMMA ListedStays ==
  ASSUME NEW d, NEW e, DataGrows(d, e), NEW id, NEW rows, RowsListed(id, rows, d)
  PROVE  RowsListed(id, rows, e)
<1>1. /\ \A j \in OldJobs : d.jobs[j] \subseteq e.jobs[j]
      /\ \A m \in OldMetrics : d.metrics[m] \subseteq e.metrics[m]
      /\ d.requests \subseteq e.requests
      /\ Has(d, "batch_kind") => Has(e, "batch_kind")
  BY DEF DataGrows
<1>2. QED
  BY <1>1 DEF RowsListed

\* What is not about connections leaves them and their tenants alone once they
\* are there.
Quiet(d, e) ==
  /\ DataHolds(e) /\ DataGrows(d, e)
  /\ Has(e, "platform_connection_id") <=> Has(d, "platform_connection_id")
  /\ Has(d, "platform_connection_id") => e.tenants = d.tenants /\ e.connections = d.connections

LEMMA QuietSame == ASSUME NEW d, DataHolds(d) PROVE Quiet(d, d)
  BY DEF Quiet, DataGrows

\* Only the columns of the tables change.
RowsKept(d, e) ==
  /\ e.tenants = d.tenants /\ e.connections = d.connections
  /\ e.jobs = d.jobs /\ e.metrics = d.metrics /\ e.requests = d.requests
LEMMA ColumnsChange ==
  ASSUME NEW d, DataHolds(d), NEW C, NEW e, e = [d EXCEPT !.columns = C],
         "base_url" \in C => Has(d, "base_url"),
         "platform_connection_id" \in C <=> Has(d, "platform_connection_id"),
         Has(d, "batch_kind") => "batch_kind" \in C,
         adapter = "sqlite" =>
           /\ Has(d, "available_at") => "available_at" \in C
           /\ "note_id" \in C \/ "comment_id" \in C
           /\ \A c \in {"trigger_json", "available_at", "harness_session_key"} : c \in C => Has(d, c)
  PROVE  Quiet(d, e) /\ e.columns = C /\ RowsKept(d, e)
<1>1. PICK it : it = [columns |-> d.columns, tenants |-> d.tenants, connections |-> d.connections,
                      jobs |-> d.jobs, metrics |-> d.metrics, requests |-> d.requests]
  OBVIOUS
<1>2. d = it
  BY Zenon, <1>1 DEF DataHolds, DataShape
<1>3. e = [columns |-> C, tenants |-> d.tenants, connections |-> d.connections,
           jobs |-> d.jobs, metrics |-> d.metrics, requests |-> d.requests]
  BY <1>1, <1>2
<1>4. e.columns = C /\ RowsKept(d, e)
  BY <1>3 DEF RowsKept
<1>5. DataShape(e)
  BY <1>3, <1>4 DEF DataHolds, DataShape, RowsKept
<1>6. TenantShape(e)
  BY Zenon, <1>4 DEF DataHolds, TenantShape, RowsKept
<1>7. adapter = "sqlite" => ColumnsTell(e)
  <2>1. \A id : Applied(id, d, {}) /\ id \in {"s09", "s11", "s12"} => Applied(id, e, {})
    BY <1>4 DEF Applied, RowsKept
  <2>2. \A j \in OldJobs : adapter = "sqlite" /\ "available" \in e.jobs[j] => Has(e, "available_at")
    BY <1>4 DEF DataHolds, ColumnsTell, Has, RowsKept
  <2>3. QED
    BY <1>4, <2>1, <2>2 DEF DataHolds, ColumnsTell, Has
<1>8. DataGrows(d, e)
  BY <1>4 DEF DataGrows, RowsKept, Has
<1>9. QED
  BY <1>4, <1>5, <1>6, <1>7, <1>8 DEF Quiet, DataHolds, RowsKept, Has

LEMMA Added ==
  ASSUME NEW d, DataHolds(d), NEW columns, {"base_url", "platform_connection_id"} \cap columns = {},
         adapter = "sqlite" => {"trigger_json", "available_at", "harness_session_key"} \cap columns = {}
  PROVE  Quiet(d, Add(d, columns)) /\ Add(d, columns).columns = d.columns \cup columns /\ RowsKept(d, Add(d, columns))
<1>1. PICK C : C = d.columns \cup columns
  OBVIOUS
<1>2. PICK e : e = [d EXCEPT !.columns = C]
  OBVIOUS
<1>3. Add(d, columns) = e
  BY Zenon, <1>1, <1>2 DEF Add
<1>4. adapter = "sqlite" => Has(d, "note_id") \/ Has(d, "comment_id")
  BY DEF DataHolds, ColumnsTell
<1>5. Quiet(d, e) /\ e.columns = C /\ RowsKept(d, e)
  BY <1>1, <1>2, <1>4, ColumnsChange DEF Has
<1>6. QED
  BY Zenon, <1>1, <1>3, <1>5

LEMMA Dropped ==
  ASSUME NEW d, DataHolds(d), NEW column, 
         column \notin {"platform_connection_id", "note_id", "comment_id", "available_at", "batch_kind"}
  PROVE  Quiet(d, Drop(d, {column})) /\ Drop(d, {column}).columns = d.columns \ {column} /\ RowsKept(d, Drop(d, {column}))
<1>1. PICK C : C = d.columns \ {column}
  OBVIOUS
<1>2. PICK e : e = [d EXCEPT !.columns = C]
  OBVIOUS
<1>3. Drop(d, {column}) = e
  BY Zenon, <1>1, <1>2 DEF Drop
<1>4. adapter = "sqlite" => Has(d, "note_id") \/ Has(d, "comment_id")
  BY DEF DataHolds, ColumnsTell
<1>5. Quiet(d, e) /\ e.columns = C /\ RowsKept(d, e)
  BY <1>1, <1>2, <1>4, ColumnsChange DEF Has
<1>6. QED
  BY Zenon, <1>1, <1>3, <1>5

LEMMA Renamed ==
  ASSUME NEW d, DataHolds(d), NEW old, NEW new,
         old \notin {"base_url", "platform_connection_id", "available_at", "batch_kind"},
         new \notin {"base_url", "platform_connection_id", "trigger_json", "available_at", "harness_session_key"},
         old \in {"note_id", "comment_id"} => new = "comment_id"
  PROVE  Quiet(d, Rename(d, old, new)) /\ (Has(d, "base_url") => Has(Rename(d, old, new), "base_url"))
<1>1. CASE ~(Has(d, old) /\ ~Has(d, new))
  <2>1. Rename(d, old, new) = d
    BY Zenon, <1>1 DEF Rename
  <2>2. QED
    BY Zenon, <2>1, QuietSame
<1>2. CASE Has(d, old) /\ ~Has(d, new)
  <2>1. PICK C : C = (d.columns \ {old}) \cup {new}
    OBVIOUS
  <2>2. PICK e : e = [d EXCEPT !.columns = C]
    OBVIOUS
  <2>3. Rename(d, old, new) = e
    BY Zenon, <1>2, <2>1, <2>2 DEF Rename
  <2>4. adapter = "sqlite" => Has(d, "note_id") \/ Has(d, "comment_id")
    BY DEF DataHolds, ColumnsTell
  <2>5. Quiet(d, e) /\ e.columns = C /\ RowsKept(d, e)
    BY <2>1, <2>2, <2>4, ColumnsChange DEF Has
  <2>6. Has(d, "base_url") => Has(e, "base_url")
    BY <2>1, <2>5 DEF Has
  <2>7. QED
    BY Zenon, <2>3, <2>5, <2>6
<1>3. QED
  BY <1>1, <1>2

\* Only the rows of one table change.
LEMMA JobsChange ==
  ASSUME NEW d, DataHolds(d), adapter # "sqlite", NEW J \in [OldJobs -> SUBSET {"trigger", "available"}],
         \A j \in OldJobs : d.jobs[j] \subseteq J[j], NEW e, e = [d EXCEPT !.jobs = J]
  PROVE  Quiet(d, e) /\ e.jobs = J /\ e.columns = d.columns
<1>1. PICK it : it = [columns |-> d.columns, tenants |-> d.tenants, connections |-> d.connections,
                      jobs |-> d.jobs, metrics |-> d.metrics, requests |-> d.requests]
  OBVIOUS
<1>2. d = it
  BY Zenon, <1>1 DEF DataHolds, DataShape
<1>3. e = [columns |-> d.columns, tenants |-> d.tenants, connections |-> d.connections,
           jobs |-> J, metrics |-> d.metrics, requests |-> d.requests]
  BY <1>1, <1>2
<1>4. /\ e.columns = d.columns /\ e.tenants = d.tenants /\ e.connections = d.connections
      /\ e.jobs = J /\ e.metrics = d.metrics /\ e.requests = d.requests
  BY <1>3
<1>5. DataShape(e)
  BY <1>3, <1>4 DEF DataHolds, DataShape
<1>6. TenantShape(e)
  BY Zenon, <1>4 DEF DataHolds, TenantShape
<1>7. DataGrows(d, e)
  BY <1>4 DEF DataGrows, Has
<1>8. adapter = "sqlite" => ColumnsTell(e)
  OBVIOUS
<1>9. QED
  BY <1>4, <1>5, <1>6, <1>7, <1>8 DEF Quiet, DataHolds, Has

LEMMA MetricsChange ==
  ASSUME NEW d, DataHolds(d), NEW M \in [OldMetrics -> SUBSET {"session"}],
         \A m \in OldMetrics : d.metrics[m] \subseteq M[m], NEW e, e = [d EXCEPT !.metrics = M]
  PROVE  Quiet(d, e) /\ e.metrics = M /\ e.columns = d.columns
<1>1. PICK it : it = [columns |-> d.columns, tenants |-> d.tenants, connections |-> d.connections,
                      jobs |-> d.jobs, metrics |-> d.metrics, requests |-> d.requests]
  OBVIOUS
<1>2. d = it
  BY Zenon, <1>1 DEF DataHolds, DataShape
<1>3. e = [columns |-> d.columns, tenants |-> d.tenants, connections |-> d.connections,
           jobs |-> d.jobs, metrics |-> M, requests |-> d.requests]
  BY <1>1, <1>2
<1>4. /\ e.columns = d.columns /\ e.tenants = d.tenants /\ e.connections = d.connections
      /\ e.jobs = d.jobs /\ e.metrics = M /\ e.requests = d.requests
  BY <1>3
<1>5. DataShape(e)
  BY <1>3, <1>4 DEF DataHolds, DataShape
<1>6. TenantShape(e)
  BY Zenon, <1>4 DEF DataHolds, TenantShape
<1>7. DataGrows(d, e)
  BY <1>4 DEF DataGrows, Has
<1>8. adapter = "sqlite" => ColumnsTell(e)
  <2>1. \A column : Has(e, column) <=> Has(d, column)
    BY Zenon, <1>4 DEF Has
  <2>2. \A id : Applied(id, d, {}) => Applied(id, e, {})
    BY Zenon, <1>7, DoneStays
  <2>3. QED
    BY Zenon, <1>4, <2>1, <2>2 DEF DataHolds, ColumnsTell
<1>9. QED
  BY <1>4, <1>5, <1>6, <1>7, <1>8 DEF Quiet, DataHolds, Has

LEMMA RequestsChange ==
  ASSUME NEW d, DataHolds(d), NEW R \in SUBSET OldJobs, d.requests \subseteq R,
         NEW e, e = [d EXCEPT !.requests = R]
  PROVE  Quiet(d, e) /\ e.requests = R /\ e.columns = d.columns
<1>1. PICK it : it = [columns |-> d.columns, tenants |-> d.tenants, connections |-> d.connections,
                      jobs |-> d.jobs, metrics |-> d.metrics, requests |-> d.requests]
  OBVIOUS
<1>2. d = it
  BY Zenon, <1>1 DEF DataHolds, DataShape
<1>3. e = [columns |-> d.columns, tenants |-> d.tenants, connections |-> d.connections,
           jobs |-> d.jobs, metrics |-> d.metrics, requests |-> R]
  BY <1>1, <1>2
<1>4. /\ e.columns = d.columns /\ e.tenants = d.tenants /\ e.connections = d.connections
      /\ e.jobs = d.jobs /\ e.metrics = d.metrics /\ e.requests = R
  BY <1>3
<1>5. DataShape(e)
  BY <1>3, <1>4 DEF DataHolds, DataShape
<1>6. TenantShape(e)
  BY Zenon, <1>4 DEF DataHolds, TenantShape
<1>7. DataGrows(d, e)
  BY <1>4 DEF DataGrows, Has
<1>8. adapter = "sqlite" => ColumnsTell(e)
  <2>1. \A column : Has(e, column) <=> Has(d, column)
    BY Zenon, <1>4 DEF Has
  <2>2. \A id : Applied(id, d, {}) => Applied(id, e, {})
    BY Zenon, <1>7, DoneStays
  <2>3. QED
    BY Zenon, <1>4, <2>1, <2>2 DEF DataHolds, ColumnsTell
<1>9. QED
  BY <1>4, <1>5, <1>6, <1>7, <1>8 DEF Quiet, DataHolds, Has

\* Before there are connections the tenants may be rewritten.
Rewritten(T, d) ==
  /\ DOMAIN T = OldTenants
  /\ \A t \in OldTenants :
       /\ T[t] = [secret |-> T[t].secret, columns |-> T[t].columns, json |-> T[t].json,
                  connection |-> T[t].connection]
       /\ d.tenants[t].json => T[t].json
LEMMA TenantsChange ==
  ASSUME NEW d, DataHolds(d), ~Has(d, "platform_connection_id"), NEW T, Rewritten(T, d),
         NEW e, e = [d EXCEPT !.tenants = T]
  PROVE  Quiet(d, e) /\ e.tenants = T /\ e.columns = d.columns
<1>1. PICK it : it = [columns |-> d.columns, tenants |-> d.tenants, connections |-> d.connections,
                      jobs |-> d.jobs, metrics |-> d.metrics, requests |-> d.requests]
  OBVIOUS
<1>2. d = it
  BY Zenon, <1>1 DEF DataHolds, DataShape
<1>3. e = [columns |-> d.columns, tenants |-> T, connections |-> d.connections,
           jobs |-> d.jobs, metrics |-> d.metrics, requests |-> d.requests]
  BY <1>1, <1>2
<1>4. /\ e.columns = d.columns /\ e.tenants = T /\ e.connections = d.connections
      /\ e.jobs = d.jobs /\ e.metrics = d.metrics /\ e.requests = d.requests
  BY <1>3
<1>5. DataShape(e)
  BY <1>3, <1>4 DEF DataHolds, DataShape, Rewritten
<1>6. TenantShape(e)
  BY Zenon, <1>4 DEF TenantShape, Rewritten
<1>7. DataGrows(d, e)
  <2>1. \A t \in OldTenants : d.tenants[t].json => e.tenants[t].json
    BY Zenon, <1>4 DEF Rewritten
  <2>2. QED
    BY <1>4, <2>1 DEF DataGrows, Has
<1>8. adapter = "sqlite" => ColumnsTell(e)
  <2>1. \A column : Has(e, column) <=> Has(d, column)
    BY Zenon, <1>4 DEF Has
  <2>2. \A id : Applied(id, d, {}) => Applied(id, e, {})
    BY Zenon, <1>7, DoneStays
  <2>3. QED
    BY Zenon, <1>4, <2>1, <2>2 DEF DataHolds, ColumnsTell
<1>9. QED
  BY <1>4, <1>5, <1>6, <1>7, <1>8 DEF Quiet, DataHolds, Has

LEMMA QuietQuiet ==
  ASSUME NEW d, NEW e, NEW f, Quiet(d, e), Quiet(e, f)
  PROVE  Quiet(d, f)
<1>1. DataGrows(d, f)
  <2>1. \A t \in OldTenants : Has(f, "platform_connection_id") \/ (d.tenants[t].json => f.tenants[t].json)
    BY Zenon DEF Quiet, DataGrows
  <2>2. QED
    BY <2>1 DEF Quiet, DataGrows
<1>2. QED
  BY <1>1 DEF Quiet

\* The credentials of every tenant are written to its configuration.
LEMMA Platformed ==
  ASSUME NEW d, DataHolds(d), adapter = "sqlite"
  PROVE  /\ Quiet(d, PlatformTenants(d))
         /\ Has(d, "base_url") => /\ Has(PlatformTenants(d), "base_url")
                                  /\ \A t \in OldTenants : PlatformTenants(d).tenants[t].json
<1>1. CASE ~Has(d, "base_url")
  <2>1. PlatformTenants(d) = d
    BY Zenon, <1>1 DEF PlatformTenants
  <2>2. QED
    BY Zenon, <1>1, <2>1, QuietSame
<1>2. CASE Has(d, "base_url")
  <2>1. PICK f : f = Add(d, {"platform"})
    OBVIOUS
  <2>2. Quiet(d, f) /\ f.columns = d.columns \cup {"platform"} /\ RowsKept(d, f)
    <3>1. /\ {"base_url", "platform_connection_id"} \cap {"platform"} = {}
          /\ {"trigger_json", "available_at", "harness_session_key"} \cap {"platform"} = {}
      OBVIOUS
    <3>2. QED
      BY Zenon, <2>1, <3>1, Added
  <2>3. DataHolds(f) /\ ~Has(f, "platform_connection_id") /\ Has(f, "base_url")
    <3>1. ~Has(d, "platform_connection_id")
      BY <1>2 DEF DataHolds, ColumnsTell
    <3>2. QED
      BY <1>2, <2>2, <3>1 DEF Quiet, Has
  <2>4. PICK yes : yes = TRUE
    OBVIOUS
  <2>5. PICK T : T = [t \in OldTenants |-> [f.tenants[t] EXCEPT !.json = yes]]
    OBVIOUS
  <2>6. PICK e : e = [f EXCEPT !.tenants = T]
    OBVIOUS
  <2>7. PlatformTenants(d) = e
    <3>1. DOMAIN f.tenants = OldTenants
      BY <2>3 DEF DataHolds, DataShape
    <3>2. WithJson(f) = [f EXCEPT !.tenants = [t \in OldTenants |-> [f.tenants[t] EXCEPT !.json = TRUE]]]
      BY <3>1 DEF WithJson
    <3>3. PlatformTenants(d) = WithJson(f)
      BY Zenon, <1>2, <2>1 DEF PlatformTenants
    <3>4. QED
      BY Zenon, <2>4, <2>5, <2>6, <3>2, <3>3
  <2>8. \A t \in OldTenants :
          /\ T[t] = [secret |-> T[t].secret, columns |-> T[t].columns, json |-> T[t].json,
                     connection |-> T[t].connection]
          /\ T[t].json = yes
    <3>1. SUFFICES ASSUME NEW t \in OldTenants
                   PROVE  /\ T[t] = [secret |-> T[t].secret, columns |-> T[t].columns, json |-> T[t].json,
                                     connection |-> T[t].connection]
                          /\ T[t].json = yes
      OBVIOUS
    <3>2. PICK was : was = f.tenants[t]
      OBVIOUS
    <3>3. was = [secret |-> was.secret, columns |-> was.columns, json |-> was.json, connection |-> was.connection]
      BY Zenon, <2>3, <3>2 DEF DataHolds, TenantShape
    <3>4. PICK now : now = [was EXCEPT !.json = yes]
      OBVIOUS
    <3>5. /\ now = [secret |-> now.secret, columns |-> now.columns, json |-> now.json, connection |-> now.connection]
          /\ now.json = yes
      BY <3>3, <3>4
    <3>6. T[t] = now
      BY <2>5, <3>2, <3>4
    <3>7. QED
      BY Zenon, <3>5, <3>6
  <2>9. DOMAIN T = OldTenants
    BY <2>5
  <2>10. Rewritten(T, f)
    BY Zenon, <2>4, <2>8, <2>9 DEF Rewritten
  <2>11. Quiet(f, e) /\ e.tenants = T /\ e.columns = f.columns
    BY <2>3, <2>6, <2>10, TenantsChange
  <2>12. Quiet(d, e)
    BY Zenon, <2>2, <2>11, QuietQuiet
  <2>13. Has(e, "base_url") /\ \A t \in OldTenants : e.tenants[t].json
    BY Zenon, <2>3, <2>4, <2>8, <2>11 DEF Has
  <2>14. QED
    BY Zenon, <2>7, <2>12, <2>13
<1>3. QED
  BY <1>1, <1>2

\* The old columns go, and the newer one if the rebuild comes late.
LEMMA LegacyDropped ==
  ASSUME NEW d, DataHolds(d), adapter = "sqlite", NEW e, e = DropLegacyColumns(d)
  PROVE  /\ DataHolds(e) /\ ~Has(e, "base_url") /\ ~Has(e, "platform_connection_id")
         /\ \A c : c \notin {"base_url", "platform_connection_id"} => (Has(e, c) <=> Has(d, c))
         /\ e.jobs = d.jobs /\ e.metrics = d.metrics /\ e.requests = d.requests
         /\ \A t \in OldTenants : e.tenants[t].json = d.tenants[t].json
<1>1. PICK C : C = d.columns \ {"base_url", "platform_connection_id"}
  OBVIOUS
<1>2. PICK f : f = [d EXCEPT !.columns = C]
  OBVIOUS
<1>3. PICK no, none : no = FALSE /\ none = "none"
  OBVIOUS
<1>4. PICK T : T = [t \in OldTenants |-> [d.tenants[t] EXCEPT !.columns = no, !.connection = none]]
  OBVIOUS
<1>5. PICK it : it = [columns |-> d.columns, tenants |-> d.tenants, connections |-> d.connections,
                      jobs |-> d.jobs, metrics |-> d.metrics, requests |-> d.requests]
  OBVIOUS
<1>6. d = it /\ DOMAIN d.tenants = OldTenants
  BY Zenon, <1>5 DEF DataHolds, DataShape
<1>7. f = [columns |-> C, tenants |-> d.tenants, connections |-> d.connections,
           jobs |-> d.jobs, metrics |-> d.metrics, requests |-> d.requests]
  BY <1>2, <1>5, <1>6
<1>8. f.tenants = d.tenants
  BY <1>7
<1>9. e = [f EXCEPT !.tenants = T]
  <2>1. Drop(d, {"base_url", "platform_connection_id"}) = f
    BY Zenon, <1>1, <1>2 DEF Drop
  <2>2. e = [f EXCEPT !.tenants = [t \in DOMAIN d.tenants |->
                                     [f.tenants[t] EXCEPT !.columns = FALSE, !.connection = "none"]]]
    BY Zenon, <2>1 DEF DropLegacyColumns
  <2>3. QED
    BY Zenon, <1>3, <1>4, <1>6, <1>8, <2>2
<1>10. e = [columns |-> C, tenants |-> T, connections |-> d.connections,
            jobs |-> d.jobs, metrics |-> d.metrics, requests |-> d.requests]
  BY ONLY <1>7, <1>9
<1>11. /\ e.columns = C /\ e.tenants = T /\ e.connections = d.connections
       /\ e.jobs = d.jobs /\ e.metrics = d.metrics /\ e.requests = d.requests
  BY ONLY <1>10
<1>12. ASSUME NEW t \in OldTenants
       PROVE  /\ T[t] = [secret |-> T[t].secret, columns |-> T[t].columns, json |-> T[t].json,
                         connection |-> T[t].connection]
              /\ T[t].json = d.tenants[t].json
  <2>1. PICK was : was = d.tenants[t]
    OBVIOUS
  <2>2. was = [secret |-> was.secret, columns |-> was.columns, json |-> was.json, connection |-> was.connection]
    BY Zenon, <2>1 DEF DataHolds, TenantShape
  <2>3. PICK mid : mid = [was EXCEPT !.columns = no]
    OBVIOUS
  <2>4. mid = [secret |-> was.secret, columns |-> no, json |-> was.json, connection |-> was.connection]
    BY ONLY <2>2, <2>3
  <2>5. PICK now : now = [was EXCEPT !.columns = no, !.connection = none]
    OBVIOUS
  <2>6. now = [mid EXCEPT !.connection = none]
    BY ONLY <2>3, <2>5
  <2>7. now = [secret |-> was.secret, columns |-> no, json |-> was.json, connection |-> none]
    BY ONLY <2>4, <2>6
  <2>8. /\ now = [secret |-> now.secret, columns |-> now.columns, json |-> now.json, connection |-> now.connection]
        /\ now.json = was.json
    BY ONLY <2>7
  <2>9. T[t] = now
    BY Zenon, <1>4, <1>12, <2>1, <2>5
  <2>10. QED
    BY Zenon, <2>1, <2>8, <2>9
<1>13. DataShape(e) /\ TenantShape(e)
  <2>1. DOMAIN T = OldTenants
    BY <1>4
  <2>2. e = [columns |-> e.columns, tenants |-> e.tenants, connections |-> e.connections,
             jobs |-> e.jobs, metrics |-> e.metrics, requests |-> e.requests]
    BY Zenon, <1>10, <1>11
  <2>3. DataShape(e)
    BY Zenon, <1>11, <2>1, <2>2 DEF DataHolds, DataShape
  <2>4. TenantShape(e)
    BY Zenon, <1>11, <1>12 DEF TenantShape
  <2>5. QED
    BY <2>3, <2>4
<1>14. \A c : Has(e, c) <=> Has(d, c) /\ c \notin {"base_url", "platform_connection_id"}
  BY <1>1, <1>11 DEF Has
<1>15. ColumnsTell(e)
  <2>1. \A i : i \in {"s09", "s11", "s12"} /\ Applied(i, d, {}) => Applied(i, e, {})
    BY <1>11 DEF Applied
  <2>2. ColumnsTell(d)
    BY DEF DataHolds
  <2>3. QED
    BY ONLY <1>11, <1>14, <2>1, <2>2 DEF ColumnsTell
<1>16. QED
  BY <1>11, <1>12, <1>13, <1>14, <1>15 DEF DataHolds

\* What else was applied stays so, or the connections are gone.
LEMMA LegacyLasts ==
  ASSUME NEW d, DataHolds(d), adapter = "sqlite", NEW e, e = DropLegacyColumns(d), NEW a, NEW b,
         a \subseteq b, Has(d, "platform_connection_id") => "s06" \in b, NEW id, Applied(id, d, a)
  PROVE  Applied(id, e, b)
<1>1. /\ ~Has(e, "base_url") /\ (Has(e, "batch_kind") <=> Has(d, "batch_kind"))
      /\ e.jobs = d.jobs /\ e.metrics = d.metrics /\ e.requests = d.requests
      /\ \A t \in OldTenants : e.tenants[t].json = d.tenants[t].json
  <2>1. "batch_kind" \notin {"base_url", "platform_connection_id"}
    OBVIOUS
  <2>2. QED
    BY Zenon, <2>1, LegacyDropped
<1>2. id = "s02" => \/ Has(e, "platform_connection_id") \/ "s06" \in b
                    \/ \A t \in OldTenants : e.tenants[t].json
  BY Zenon, <1>1 DEF Applied
<1>3. QED
  BY ONLY <1>1, <1>2, a \subseteq b, Has(d, "platform_connection_id") => "s06" \in b, Applied(id, d, a) DEF Applied

\* A table of jobs is made anew, with some columns and without others.
Anew(now, J) == [now EXCEPT !.jobs = J]
JobTable(e, d, columns, J) ==
  /\ e.columns = columns /\ e.jobs = J /\ e.tenants = d.tenants
  /\ e.connections = d.connections /\ e.metrics = d.metrics /\ e.requests = d.requests
  /\ DataShape(e) /\ TenantShape(e)
LEMMA JobsRebuilt ==
  ASSUME NEW d, DataHolds(d), NEW A, NEW D, NEW J, J \in [OldJobs -> SUBSET {"trigger", "available"}],
         NEW now, now = Drop(Add(d, A), D), NEW e, e = Anew(now, J)
  PROVE  JobTable(e, d, (d.columns \cup A) \ D, J)
<1>1. PICK B : B = d.columns \cup A
  OBVIOUS
<1>2. PICK C : C = B \ D
  OBVIOUS
<1>3. PICK it : it = [columns |-> d.columns, tenants |-> d.tenants, connections |-> d.connections,
                      jobs |-> d.jobs, metrics |-> d.metrics, requests |-> d.requests]
  OBVIOUS
<1>4. d = it
  BY Zenon, <1>3 DEF DataHolds, DataShape
<1>5. PICK f : f = [d EXCEPT !.columns = B]
  OBVIOUS
<1>6. f = [columns |-> B, tenants |-> d.tenants, connections |-> d.connections,
           jobs |-> d.jobs, metrics |-> d.metrics, requests |-> d.requests]
  BY ONLY <1>3, <1>4, <1>5
<1>7. PICK g : g = [f EXCEPT !.columns = C]
  OBVIOUS
<1>8. g = [columns |-> C, tenants |-> d.tenants, connections |-> d.connections,
           jobs |-> d.jobs, metrics |-> d.metrics, requests |-> d.requests]
  BY ONLY <1>6, <1>7
<1>9. f.columns = B
  BY ONLY <1>6
<1>10. now = g
  <2>1. Add(d, A) = f
    BY Zenon, <1>1, <1>5 DEF Add
  <2>2. Drop(f, D) = g
    BY Zenon, <1>2, <1>7, <1>9 DEF Drop
  <2>3. QED
    BY Zenon, <2>1, <2>2
<1>11. e = [g EXCEPT !.jobs = J]
  BY Zenon, <1>10 DEF Anew
<1>12. e = [columns |-> C, tenants |-> d.tenants, connections |-> d.connections,
            jobs |-> J, metrics |-> d.metrics, requests |-> d.requests]
  BY ONLY <1>8, <1>11
<1>13. /\ e.columns = C /\ e.tenants = d.tenants /\ e.connections = d.connections
       /\ e.jobs = J /\ e.metrics = d.metrics /\ e.requests = d.requests
  BY ONLY <1>12
<1>14. DataShape(e)
  <2>1. e = [columns |-> e.columns, tenants |-> e.tenants, connections |-> e.connections,
             jobs |-> e.jobs, metrics |-> e.metrics, requests |-> e.requests]
    BY Zenon, <1>12, <1>13
  <2>2. QED
    BY Zenon, <1>13, <2>1 DEF DataHolds, DataShape
<1>15. TenantShape(e)
  BY Zenon, <1>13 DEF DataHolds, TenantShape
<1>16. QED
  BY Zenon, <1>1, <1>2, <1>13, <1>14, <1>15 DEF JobTable

LEMMA JobsStay ==
  ASSUME NEW d, DataHolds(d), NEW A, NEW D
  PROVE  Drop(Add(d, A), D).jobs = d.jobs
<1>1. PICK it : it = [columns |-> d.columns, tenants |-> d.tenants, connections |-> d.connections,
                      jobs |-> d.jobs, metrics |-> d.metrics, requests |-> d.requests]
  OBVIOUS
<1>2. d = it
  BY Zenon, <1>1 DEF DataHolds, DataShape
<1>3. PICK f : f = Add(d, A)
  OBVIOUS
<1>4. f = [columns |-> f.columns, tenants |-> d.tenants, connections |-> d.connections,
           jobs |-> d.jobs, metrics |-> d.metrics, requests |-> d.requests]
  BY ONLY <1>1, <1>2, <1>3 DEF Add
<1>5. Drop(f, D).jobs = d.jobs
  BY ONLY <1>4 DEF Drop
<1>6. QED
  BY Zenon, <1>3, <1>5

\* Migration 0009 gives every job its trigger, and takes the newer columns away.
LEMMA TriggersMade ==
  ASSUME NEW d, DataHolds(d), adapter = "sqlite", NEW a, NEW b, a \subseteq b,
         Has(d, "available_at") \/ Has(d, "batch_kind") => "s09" \in b
  PROVE  /\ DataHolds(ProviderTriggers(d)) /\ Applied("s09", ProviderTriggers(d), b)
         /\ \A id : Applied(id, d, a) => Applied(id, ProviderTriggers(d), b)
         /\ \A c \in {"base_url", "platform_connection_id"} : Has(ProviderTriggers(d), c) <=> Has(d, c)
         /\ ProviderTriggers(d).tenants = d.tenants /\ ProviderTriggers(d).connections = d.connections
<1>1. PICK J : J = [j \in OldJobs |-> {"trigger"}]
  OBVIOUS
<1>2. PICK A : A = {"trigger_json"}
  OBVIOUS
<1>3. PICK D : D = {"available_at", "batch_kind"}
  OBVIOUS
<1>4. PICK e : e = ProviderTriggers(d)
  OBVIOUS
<1>5. DOMAIN d.jobs = OldJobs
  BY DEF DataHolds, DataShape
<1>0. PICK now : now = Drop(Add(d, A), D)
  OBVIOUS
<1>6. e = Anew(now, J)
  BY Zenon, <1>0, <1>1, <1>2, <1>3, <1>4, <1>5 DEF ProviderTriggers, Anew
<1>7. J \in [OldJobs -> SUBSET {"trigger", "available"}] /\ \A j \in OldJobs : J[j] = {"trigger"}
  BY <1>1
<1>8. /\ e.columns = (d.columns \cup A) \ D /\ e.jobs = J /\ e.tenants = d.tenants
      /\ e.connections = d.connections /\ e.metrics = d.metrics /\ e.requests = d.requests
      /\ DataShape(e) /\ TenantShape(e)
  <2>1. J \in [OldJobs -> SUBSET {"trigger", "available"}]
    BY <1>7
  <2>2. JobTable(e, d, (d.columns \cup A) \ D, J)
    BY Zenon, <1>0, <1>6, <2>1, JobsRebuilt
  <2>3. QED
    BY Zenon, <2>2 DEF JobTable
<1>9. /\ \A c : c \notin {"trigger_json", "available_at", "batch_kind"} => (Has(e, c) <=> Has(d, c))
      /\ ~Has(e, "available_at")
  BY ONLY <1>2, <1>3, <1>8 DEF Has
<1>10. \A j \in OldJobs : "trigger" \in e.jobs[j] /\ "available" \notin e.jobs[j]
  BY <1>7, <1>8
<1>11. \A s : Applied("s09", e, s)
  BY ONLY <1>10 DEF Applied
<1>12. ColumnsTell(d)
  BY DEF DataHolds
<1>13. ColumnsTell(e)
  <2>1. Applied("s12", d, {}) => Applied("s12", e, {})
    BY ONLY <1>8 DEF Applied
  <2>2. QED
    BY ONLY <1>9, <1>10, <1>11, <1>12, <2>1 DEF ColumnsTell
<1>14. \A j \in OldJobs : "available" \in d.jobs[j] => "s09" \in b
  BY <1>12 DEF ColumnsTell
<1>15. ASSUME NEW id, Applied(id, d, a)
       PROVE  Applied(id, e, b)
  <2>1. Applied(id, d, a) /\ a \subseteq b
    BY <1>15
  <2>2. id = "s02" => \/ Has(e, "platform_connection_id") \/ "s06" \in b
                      \/ \A t \in OldTenants : e.tenants[t].json
    BY Zenon, <1>8, <1>9, <2>1 DEF Applied
  <2>3. id \in {"s11", "v005"} => "s09" \in b \/ \A j \in OldJobs : "available" \in e.jobs[j]
    <3>1. SUFFICES ASSUME id \in {"s11", "v005"}, "s09" \notin b, NEW j \in OldJobs PROVE FALSE
      OBVIOUS
    <3>2. "available" \in d.jobs[j]
      BY <2>1, <3>1 DEF Applied
    <3>3. QED
      BY <1>14, <3>1, <3>2
  <2>4. id \in {"s13", "v007"} => Has(e, "batch_kind") \/ {"s09", "s11"} \cap b # {}
    BY <1>15, <2>1 DEF Applied
  <2>5. QED
    BY ONLY <1>8, <1>9, <1>10, <2>1, <2>2, <2>3, <2>4 DEF Applied
<1>16. QED
  BY Zenon, <1>4, <1>8, <1>9, <1>11, <1>13, <1>15 DEF DataHolds

\* Migration 0011 gives every job its time, and takes the kind of a batch away.
LEMMA TimesMade ==
  ASSUME NEW d, DataHolds(d), adapter = "sqlite", NEW a, NEW b, a \subseteq b,
         Has(d, "batch_kind") => "s11" \in b
  PROVE  /\ DataHolds(AvailableAt(d)) /\ Applied("s11", AvailableAt(d), b)
         /\ \A id : Applied(id, d, a) => Applied(id, AvailableAt(d), b)
         /\ \A c \in {"base_url", "platform_connection_id"} : Has(AvailableAt(d), c) <=> Has(d, c)
         /\ AvailableAt(d).tenants = d.tenants /\ AvailableAt(d).connections = d.connections
<1>1. PICK J : J = [j \in OldJobs |-> d.jobs[j] \cup {"available"}]
  OBVIOUS
<1>2. PICK A : A = {"available_at"}
  OBVIOUS
<1>3. PICK D : D = {"batch_kind"}
  OBVIOUS
<1>4. PICK e : e = AvailableAt(d)
  OBVIOUS
<1>5. d.jobs \in [OldJobs -> SUBSET {"trigger", "available"}]
  BY DEF DataHolds, DataShape
<1>0. PICK now : now = Drop(Add(d, A), D)
  OBVIOUS
<1>6. e = Anew(now, J)
  <2>2. now.jobs = d.jobs
    BY Zenon, <1>0, JobsStay
  <2>3. e = [now EXCEPT !.jobs = [j \in DOMAIN d.jobs |-> now.jobs[j] \cup {"available"}]]
    BY Zenon, <1>0, <1>2, <1>3, <1>4 DEF AvailableAt
  <2>4. DOMAIN d.jobs = OldJobs
    BY <1>5
  <2>5. QED
    BY Zenon, <1>1, <2>2, <2>3, <2>4 DEF Anew
<1>7. /\ J \in [OldJobs -> SUBSET {"trigger", "available"}]
      /\ \A j \in OldJobs : d.jobs[j] \subseteq J[j] /\ "available" \in J[j]
  BY <1>1, <1>5
<1>8. /\ e.columns = (d.columns \cup A) \ D /\ e.jobs = J /\ e.tenants = d.tenants
      /\ e.connections = d.connections /\ e.metrics = d.metrics /\ e.requests = d.requests
      /\ DataShape(e) /\ TenantShape(e)
  <2>1. J \in [OldJobs -> SUBSET {"trigger", "available"}]
    BY <1>7
  <2>2. JobTable(e, d, (d.columns \cup A) \ D, J)
    BY Zenon, <1>0, <1>6, <2>1, JobsRebuilt
  <2>3. QED
    BY Zenon, <2>2 DEF JobTable
<1>9. /\ \A c : c \notin {"available_at", "batch_kind"} => (Has(e, c) <=> Has(d, c))
      /\ Has(e, "available_at")
  BY ONLY <1>2, <1>3, <1>8 DEF Has
<1>10. \A j \in OldJobs : d.jobs[j] \subseteq e.jobs[j] /\ "available" \in e.jobs[j]
  BY <1>7, <1>8
<1>11. \A s : Applied("s11", e, s)
  BY ONLY <1>10 DEF Applied
<1>12. ColumnsTell(d)
  BY DEF DataHolds
<1>13. ColumnsTell(e)
  <2>1. /\ Applied("s12", d, {}) => Applied("s12", e, {})
        /\ Applied("s09", d, {}) => Applied("s09", e, {})
    BY ONLY <1>8, <1>10 DEF Applied
  <2>2. QED
    BY ONLY <1>9, <1>11, <1>12, <2>1 DEF ColumnsTell
<1>14. ASSUME NEW id, Applied(id, d, a) PROVE Applied(id, e, b)
  <2>1. Applied(id, d, a) /\ a \subseteq b
    BY <1>14
  <2>2. id = "s02" => \/ Has(e, "platform_connection_id") \/ "s06" \in b
                      \/ \A t \in OldTenants : e.tenants[t].json
    BY Zenon, <1>8, <1>9, <2>1 DEF Applied
  <2>3. id \in {"s13", "v007"} => Has(e, "batch_kind") \/ {"s09", "s11"} \cap b # {}
    BY <2>1 DEF Applied
  <2>4. QED
    BY ONLY <1>8, <1>9, <1>10, <2>1, <2>2, <2>3 DEF Applied
<1>15. QED
  BY Zenon, <1>4, <1>8, <1>9, <1>11, <1>13, <1>14 DEF DataHolds

\* What does not make a table anew leaves the columns of the old credentials.
Calm(d, e) == Quiet(d, e) /\ (Has(d, "base_url") => Has(e, "base_url"))

LEMMA CalmSteps ==
  ASSUME NEW d, DataHolds(d), adapter = "sqlite"
  PROVE  /\ Calm(d, Baseline(d)) /\ Calm(d, PlatformTenants(d)) /\ Calm(d, ReviewEntityIds(d))
         /\ Calm(d, TenantScopedReviews(d)) /\ Calm(d, CodeReviewSnapshots(d))
         /\ Calm(d, GenericNames(d)) /\ Calm(d, ProjectMemories(d)) /\ Calm(d, ClaimColumns(d))
<1>1. Calm(d, Baseline(d))
  <2>1. d.columns # {}
    BY DEF DataHolds, ColumnsTell, Has
  <2>2. Baseline(d) = d
    BY Zenon, <2>1 DEF Baseline
  <2>3. QED
    BY Zenon, <2>2, QuietSame DEF Calm
<1>2. Calm(d, PlatformTenants(d))
  BY Zenon, Platformed DEF Calm
<1>3. Calm(d, ReviewEntityIds(d))
  <2>1. PICK e : e = Rename(d, "project_id", "repository_id")
    OBVIOUS
  <2>2. Quiet(d, e) /\ (Has(d, "base_url") => Has(e, "base_url"))
    BY <2>1, Renamed
  <2>3. DataHolds(e)
    BY Zenon, <2>2 DEF Quiet
  <2>4. PICK f : f = Rename(e, "merge_request_iid", "code_review_id")
    OBVIOUS
  <2>5. Quiet(e, f) /\ (Has(e, "base_url") => Has(f, "base_url"))
    BY <2>3, <2>4, Renamed
  <2>6. ReviewEntityIds(d) = f
    BY Zenon, <2>1, <2>4 DEF ReviewEntityIds
  <2>7. Quiet(d, f)
    BY Zenon, <2>2, <2>5, QuietQuiet
  <2>8. QED
    BY Zenon, <2>2, <2>5, <2>6, <2>7 DEF Calm
<1>4. Calm(d, TenantScopedReviews(d))
  <2>1. PICK e : e = Drop(d, {"repository_id"})
    OBVIOUS
  <2>2. Quiet(d, e) /\ e.columns = d.columns \ {"repository_id"}
    BY <2>1, Dropped
  <2>3. Has(d, "base_url") => Has(e, "base_url")
    BY <2>2 DEF Has
  <2>4. QED
    BY Zenon, <2>1, <2>2, <2>3 DEF TenantScopedReviews, Calm
<1>5. Calm(d, CodeReviewSnapshots(d))
  <2>1. PICK e : e = Rename(d, "merge_request_snapshots", "code_review_snapshots")
    OBVIOUS
  <2>2. Quiet(d, e) /\ (Has(d, "base_url") => Has(e, "base_url"))
    BY <2>1, Renamed
  <2>3. QED
    BY Zenon, <2>1, <2>2 DEF CodeReviewSnapshots, Calm
<1>6. Calm(d, GenericNames(d))
  <2>1. PICK e : e = Rename(d, "note_id", "comment_id")
    OBVIOUS
  <2>2. Quiet(d, e) /\ (Has(d, "base_url") => Has(e, "base_url"))
    BY <2>1, Renamed
  <2>3. QED
    BY Zenon, <2>1, <2>2 DEF GenericNames, Calm
<1>7. ASSUME NEW columns, {"base_url", "platform_connection_id"} \cap columns = {},
             {"trigger_json", "available_at", "harness_session_key"} \cap columns = {}
      PROVE  Calm(d, Add(d, columns))
  <2>1. PICK e : e = Add(d, columns)
    OBVIOUS
  <2>2. Quiet(d, e) /\ e.columns = d.columns \cup columns
    BY <1>7, <2>1, Added
  <2>3. Has(d, "base_url") => Has(e, "base_url")
    BY <2>2 DEF Has
  <2>4. QED
    BY Zenon, <2>1, <2>2, <2>3 DEF Calm
<1>8. Calm(d, ProjectMemories(d))
  <2>1. /\ {"base_url", "platform_connection_id"} \cap {"project_memories"} = {}
        /\ {"trigger_json", "available_at", "harness_session_key"} \cap {"project_memories"} = {}
    OBVIOUS
  <2>2. QED
    BY Zenon, <1>7, <2>1 DEF ProjectMemories
<1>9. Calm(d, ClaimColumns(d))
  <2>1. PICK columns : columns = {"reasoning_effort", "claim_token", "snapshot_run_id"}
    OBVIOUS
  <2>2. /\ {"base_url", "platform_connection_id"} \cap columns = {}
        /\ {"trigger_json", "available_at", "harness_session_key"} \cap columns = {}
    BY <2>1
  <2>3. QED
    BY Zenon, <1>7, <2>1, <2>2 DEF ClaimColumns
<1>10. QED
  BY Zenon, <1>1, <1>2, <1>3, <1>4, <1>5, <1>6, <1>8, <1>9

LEMMA SessionsAdded ==
  ASSUME NEW d, DataHolds(d), adapter = "sqlite", NEW a
  PROVE  Calm(d, SessionMetrics(d)) /\ Applied("s12", SessionMetrics(d), a)
<1>1. PICK C : C = d.columns \cup {"harness_session_key"}
  OBVIOUS
<1>2. PICK f : f = [d EXCEPT !.columns = C]
  OBVIOUS
<1>3. PICK M : M = [m \in OldMetrics |-> {"session"}]
  OBVIOUS
<1>4. PICK e : e = [f EXCEPT !.metrics = M]
  OBVIOUS
<1>5. PICK it : it = [columns |-> d.columns, tenants |-> d.tenants, connections |-> d.connections,
                      jobs |-> d.jobs, metrics |-> d.metrics, requests |-> d.requests]
  OBVIOUS
<1>6. d = it /\ d.metrics \in [OldMetrics -> SUBSET {"session"}]
  BY Zenon, <1>5 DEF DataHolds, DataShape
<1>7. f = [columns |-> C, tenants |-> d.tenants, connections |-> d.connections,
           jobs |-> d.jobs, metrics |-> d.metrics, requests |-> d.requests]
  BY <1>2, <1>5, <1>6
<1>8. e = [columns |-> C, tenants |-> d.tenants, connections |-> d.connections,
           jobs |-> d.jobs, metrics |-> M, requests |-> d.requests]
  BY <1>4, <1>7
<1>9. /\ e.columns = C /\ e.tenants = d.tenants /\ e.connections = d.connections
      /\ e.jobs = d.jobs /\ e.metrics = M /\ e.requests = d.requests
  BY <1>8
<1>10. SessionMetrics(d) = e
  <2>1. f.metrics = d.metrics /\ DOMAIN d.metrics = OldMetrics
    BY <1>6, <1>7
  <2>2. Add(d, {"harness_session_key"}) = f
    BY Zenon, <1>1, <1>2 DEF Add
  <2>3. QED
    BY Zenon, <1>3, <1>4, <2>1, <2>2 DEF SessionMetrics
<1>11. M \in [OldMetrics -> SUBSET {"session"}] /\ \A m \in OldMetrics : d.metrics[m] \subseteq M[m] /\ "session" \in M[m]
  BY <1>3, <1>6
<1>12. DataShape(e)
  BY <1>8, <1>9, <1>11 DEF DataHolds, DataShape
<1>13. TenantShape(e)
  BY Zenon, <1>9 DEF DataHolds, TenantShape
<1>14. DataGrows(d, e)
  BY <1>1, <1>9, <1>11 DEF DataGrows, Has
<1>15. Applied("s12", e, {}) /\ Applied("s12", e, a)
  BY <1>9, <1>11 DEF Applied
<1>16. ColumnsTell(e)
  <2>1. \A i : Applied(i, d, {}) => Applied(i, e, {})
    BY Zenon, <1>14, DoneStays
  <2>2. \A c : c # "harness_session_key" => (Has(e, c) <=> Has(d, c))
    BY <1>1, <1>9 DEF Has
  <2>3. QED
    BY <1>9, <1>15, <2>1, <2>2 DEF DataHolds, ColumnsTell
<1>17. QED
  BY <1>1, <1>9, <1>10, <1>12, <1>13, <1>14, <1>15, <1>16 DEF Calm, Quiet, DataHolds, Has

LEMMA RequestsMade ==
  ASSUME NEW d, DataHolds(d), adapter = "sqlite", NEW a
  PROVE  Calm(d, InteractionRequests(d)) /\ Applied("s13", InteractionRequests(d), a)
<1>1. PICK f : f = Add(d, {"batch_kind"})
  OBVIOUS
<1>2. Quiet(d, f) /\ f.columns = d.columns \cup {"batch_kind"} /\ RowsKept(d, f)
  <2>1. /\ {"base_url", "platform_connection_id"} \cap {"batch_kind"} = {}
        /\ {"trigger_json", "available_at", "harness_session_key"} \cap {"batch_kind"} = {}
    OBVIOUS
  <2>2. QED
    BY Zenon, <1>1, <2>1, Added
<1>3. DataHolds(f) /\ DOMAIN d.jobs = OldJobs /\ f.requests \subseteq OldJobs
  BY <1>2 DEF Quiet, DataHolds, DataShape
<1>4. PICK e : e = [f EXCEPT !.requests = OldJobs]
  OBVIOUS
<1>5. InteractionRequests(d) = e
  BY Zenon, <1>1, <1>3, <1>4 DEF InteractionRequests
<1>6. Quiet(f, e) /\ e.requests = OldJobs /\ e.columns = f.columns
  BY <1>3, <1>4, RequestsChange
<1>7. Quiet(d, e)
  BY Zenon, <1>2, <1>6, QuietQuiet
<1>8. Has(d, "base_url") => Has(e, "base_url")
  BY <1>2, <1>6 DEF Has
<1>9. Applied("s13", e, a)
  BY <1>2, <1>6 DEF Applied, Has
<1>10. QED
  BY Zenon, <1>5, <1>7, <1>8, <1>9 DEF Calm

LEMMA ConnectionsMade ==
  ASSUME NEW d, DataHolds(d), adapter = "sqlite", ~Has(d, "base_url"), NEW a
  PROVE  /\ DataHolds(Connections(d)) /\ DataGrows(d, Connections(d)) /\ Applied("s08", Connections(d), a)
         /\ (\A t \in OldTenants : d.tenants[t].json) => JoinedUp(Connections(d))
<1> DEFINE valid(t) == d.tenants[t].json /\ d.tenants[t].secret # "malformed"
           id(t) == IF valid(t) THEN d.tenants[t].secret ELSE t
           row(t) == [id |-> id(t), secret |-> IF d.tenants[t].json THEN d.tenants[t].secret ELSE "none",
                      ready |-> valid(t)]
           brought == {row(t) : t \in DOMAIN d.tenants}
<1>1. PICK C : C = d.columns \cup {"platform_connection_id"}
  OBVIOUS
<1>2. PICK no : no = FALSE
  OBVIOUS
<1>3. PICK T : T = [t \in OldTenants |-> [d.tenants[t] EXCEPT !.json = no, !.connection = id(t)]]
  OBVIOUS
<1>4. PICK K : K = d.connections \cup brought
  OBVIOUS
<1>5. PICK it : it = [columns |-> d.columns, tenants |-> d.tenants, connections |-> d.connections,
                      jobs |-> d.jobs, metrics |-> d.metrics, requests |-> d.requests]
  OBVIOUS
<1>6. d = it /\ DOMAIN d.tenants = OldTenants
  BY Zenon, <1>5 DEF DataHolds, DataShape
<1>7. PICK f : f = [d EXCEPT !.columns = C]
  OBVIOUS
<1>8. f = [columns |-> C, tenants |-> d.tenants, connections |-> d.connections,
           jobs |-> d.jobs, metrics |-> d.metrics, requests |-> d.requests]
  BY <1>5, <1>6, <1>7
<1>9. f.tenants = d.tenants /\ f.connections = d.connections
  BY <1>8
<1>10. PICK e : e = [f EXCEPT !.tenants = T, !.connections = K]
  OBVIOUS
<1>11. e = [columns |-> C, tenants |-> T, connections |-> K,
            jobs |-> d.jobs, metrics |-> d.metrics, requests |-> d.requests]
  <2>1. PICK g : g = [f EXCEPT !.tenants = T]
    OBVIOUS
  <2>2. g = [columns |-> C, tenants |-> T, connections |-> d.connections,
             jobs |-> d.jobs, metrics |-> d.metrics, requests |-> d.requests]
    BY <1>8, <2>1
  <2>3. e = [g EXCEPT !.connections = K]
    BY <1>10, <2>1
  <2>4. QED
    BY <2>2, <2>3
<1>12. Connections(d) = e
  <2>1. Add(d, {"platform_connection_id"}) = f
    BY Zenon, <1>1, <1>7 DEF Add
  <2>2. Connections(d) =
          [f EXCEPT !.tenants = [t \in DOMAIN d.tenants |-> [f.tenants[t] EXCEPT !.json = FALSE, !.connection = id(t)]],
                    !.connections = f.connections \cup brought]
    BY Zenon, <2>1 DEF Connections
  <2>3. QED
    BY Zenon, <1>2, <1>3, <1>4, <1>6, <1>9, <1>10, <2>2
<1>13. /\ e.columns = C /\ e.tenants = T /\ e.connections = K
       /\ e.jobs = d.jobs /\ e.metrics = d.metrics /\ e.requests = d.requests
  BY <1>11
<1>14. ASSUME NEW t \in OldTenants
       PROVE  /\ T[t] = [secret |-> T[t].secret, columns |-> T[t].columns, json |-> T[t].json,
                         connection |-> T[t].connection]
              /\ T[t].secret = d.tenants[t].secret /\ T[t].connection = id(t)
  <2>1. PICK was : was = d.tenants[t]
    OBVIOUS
  <2>2. was = [secret |-> was.secret, columns |-> was.columns, json |-> was.json, connection |-> was.connection]
    BY Zenon, <2>1 DEF DataHolds, TenantShape
  <2>3. PICK i : i = id(t)
    OBVIOUS
  <2>4. PICK mid : mid = [was EXCEPT !.json = no]
    OBVIOUS
  <2>5. mid = [secret |-> was.secret, columns |-> was.columns, json |-> no, connection |-> was.connection]
    BY <2>2, <2>4
  <2>6. PICK now : now = [was EXCEPT !.json = no, !.connection = i]
    OBVIOUS
  <2>7. now = [mid EXCEPT !.connection = i]
    BY <2>4, <2>6
  <2>8. now = [secret |-> was.secret, columns |-> was.columns, json |-> no, connection |-> i]
    BY <2>5, <2>7
  <2>9. /\ now = [secret |-> now.secret, columns |-> now.columns, json |-> now.json, connection |-> now.connection]
        /\ now.secret = was.secret /\ now.connection = i
    BY <2>8
  <2>10. T[t] = now
    BY Zenon, <1>3, <1>14, <2>1, <2>3, <2>6
  <2>11. QED
    BY Zenon, <2>1, <2>3, <2>9, <2>10
<1>15. DataShape(e) /\ TenantShape(e)
  <2>1. DOMAIN T = OldTenants
    BY <1>3
  <2>2. DataShape(e)
    BY <1>11, <1>13, <2>1 DEF DataHolds, DataShape
  <2>3. TenantShape(e)
    BY Zenon, <1>13, <1>14 DEF TenantShape
  <2>4. QED
    BY <2>2, <2>3
<1>16. Has(e, "platform_connection_id") /\ ~Has(e, "base_url")
  BY <1>1, <1>13 DEF Has
<1>17. DataGrows(d, e)
  <2>1. Has(d, "batch_kind") => Has(e, "batch_kind")
    BY <1>1, <1>13 DEF Has
  <2>2. QED
    BY <1>13, <1>16, <2>1 DEF DataGrows
<1>18. ColumnsTell(e)
  <2>1. \A i : Applied(i, d, {}) => Applied(i, e, {})
    BY Zenon, <1>17, DoneStays
  <2>2. \A c : c # "platform_connection_id" => (Has(e, c) <=> Has(d, c))
    BY <1>1, <1>13 DEF Has
  <2>3. QED
    BY <1>13, <1>16, <2>1, <2>2 DEF DataHolds, ColumnsTell
<1>19. (\A t \in OldTenants : d.tenants[t].json) => JoinedUp(e)
  <2>2. SUFFICES ASSUME \A t \in OldTenants : d.tenants[t].json PROVE JoinedUp(e)
    OBVIOUS
  <2>3. ASSUME NEW t \in OldTenants, NEW u \in OldTenants,
               T[t].secret = T[u].secret, T[t].secret # "malformed"
        PROVE  T[t].connection = T[u].connection
    <3>1. d.tenants[t].secret = d.tenants[u].secret /\ d.tenants[t].secret # "malformed"
      BY Zenon, <1>14, <2>3
    <3>2. id(t) = d.tenants[t].secret /\ id(u) = d.tenants[u].secret
      BY Zenon, <2>2, <3>1
    <3>3. QED
      BY Zenon, <1>14, <3>1, <3>2
  <2>4. ASSUME NEW t \in OldTenants
        PROVE  \E c \in K : /\ T[t].connection = c.id /\ c.secret = T[t].secret
                            /\ c.ready = (c.secret # "malformed")
    <3>1. PICK secret : secret = d.tenants[t].secret
      OBVIOUS
    <3>2. PICK i : i = id(t)
      OBVIOUS
    <3>3. PICK good : good = (secret # "malformed")
      OBVIOUS
    <3>4. PICK v : v = valid(t)
      OBVIOUS
    <3>5. v = good
      BY Zenon, <2>2, <3>1, <3>3, <3>4
    <3>6. PICK c : c = [id |-> i, secret |-> secret, ready |-> v]
      OBVIOUS
    <3>7. c = row(t)
      BY Zenon, <2>2, <3>1, <3>2, <3>4, <3>6
    <3>8. c \in K
      BY Zenon, <1>4, <1>6, <3>7
    <3>9. c.id = i /\ c.secret = secret /\ c.ready = v
      BY <3>6
    <3>10. T[t].connection = c.id /\ c.secret = T[t].secret
      BY Zenon, <1>14, <3>1, <3>2, <3>9
    <3>11. c.ready = (c.secret # "malformed")
      BY Zenon, <3>3, <3>5, <3>9
    <3>12. QED
      BY Zenon, <3>8, <3>10, <3>11
  <2>5. QED
    BY Zenon, <1>13, <2>3, <2>4 DEF JoinedUp
<1>20. Applied("s08", e, a)
  BY <1>16 DEF Applied
<1>21. QED
  BY Zenon, <1>12, <1>15, <1>17, <1>18, <1>19, <1>20 DEF DataHolds

LEMMA OrderOfMigrations ==
  /\ adapter = "sqlite" =>
       /\ DOMAIN Order = 1 .. 13
       /\ Order[2] = "s02" /\ Order[6] = "s06" /\ Order[8] = "s08" /\ Order[9] = "s09"
       /\ Order[11] = "s11" /\ Order[12] = "s12" /\ Order[13] = "s13"
       /\ \A n \in 1 .. 13 : /\ Order[n] # "none"
                             /\ Order[n] = "s06" => n = 6
                             /\ Order[n] = "s08" => n = 8
  /\ adapter = "flotiq" =>
       /\ DOMAIN Order = 1 .. 6
       /\ Order[2] = "v003" /\ Order[4] = "v005" /\ Order[5] = "v006" /\ Order[6] = "v007"
       /\ \A n \in 1 .. 6 : Order[n] # "none" /\ Order[n] # "s08"
<1>1. SUFFICES ASSUME TRUE
      PROVE  /\ DOMAIN SqliteOrder = 1 .. 13
             /\ SqliteOrder[2] = "s02" /\ SqliteOrder[6] = "s06" /\ SqliteOrder[8] = "s08"
             /\ SqliteOrder[9] = "s09" /\ SqliteOrder[11] = "s11" /\ SqliteOrder[12] = "s12"
             /\ SqliteOrder[13] = "s13"
             /\ \A n \in 1 .. 13 : /\ SqliteOrder[n] # "none"
                                   /\ SqliteOrder[n] = "s06" => n = 6
                                   /\ SqliteOrder[n] = "s08" => n = 8
             /\ DOMAIN FlotiqOrder = 1 .. 6
             /\ FlotiqOrder[2] = "v003" /\ FlotiqOrder[4] = "v005" /\ FlotiqOrder[5] = "v006"
             /\ FlotiqOrder[6] = "v007"
             /\ \A n \in 1 .. 6 : FlotiqOrder[n] # "none" /\ FlotiqOrder[n] # "s08"
  BY DEF Order
<1>2. DOMAIN SqliteOrder = 1 .. 13 /\ DOMAIN FlotiqOrder = 1 .. 6
  BY DEF SqliteOrder, FlotiqOrder
<1>3. /\ SqliteOrder[1] = "s01" /\ SqliteOrder[2] = "s02" /\ SqliteOrder[3] = "s03"
      /\ SqliteOrder[4] = "s04" /\ SqliteOrder[5] = "s05" /\ SqliteOrder[6] = "s06"
      /\ SqliteOrder[7] = "s07" /\ SqliteOrder[8] = "s08" /\ SqliteOrder[9] = "s09"
      /\ SqliteOrder[10] = "s10" /\ SqliteOrder[11] = "s11" /\ SqliteOrder[12] = "s12"
      /\ SqliteOrder[13] = "s13"
  BY DEF SqliteOrder
<1>4. /\ FlotiqOrder[1] = "v002" /\ FlotiqOrder[2] = "v003" /\ FlotiqOrder[3] = "v004"
      /\ FlotiqOrder[4] = "v005" /\ FlotiqOrder[5] = "v006" /\ FlotiqOrder[6] = "v007"
  BY DEF FlotiqOrder
<1>5. ASSUME NEW n \in 1 .. 13
      PROVE  /\ SqliteOrder[n] # "none"
             /\ SqliteOrder[n] = "s06" => n = 6
             /\ SqliteOrder[n] = "s08" => n = 8
  <2>1. \/ n = 1 \/ n = 2 \/ n = 3 \/ n = 4 \/ n = 5 \/ n = 6 \/ n = 7
        \/ n = 8 \/ n = 9 \/ n = 10 \/ n = 11 \/ n = 12 \/ n = 13
    OBVIOUS
  <2>2. QED
    BY <1>3, <2>1
<1>6. ASSUME NEW n \in 1 .. 6 PROVE FlotiqOrder[n] # "none" /\ FlotiqOrder[n] # "s08"
  <2>1. n = 1 \/ n = 2 \/ n = 3 \/ n = 4 \/ n = 5 \/ n = 6
    OBVIOUS
  <2>2. QED
    BY <1>4, <2>1
<1>7. QED
  BY Zenon, <1>2, <1>3, <1>4, <1>5, <1>6

\* The migration that a process which knows these is about to apply.
Outside(known) == {i \in DOMAIN Order : Order[i] \notin known}
FirstOutside(known) ==
  IF Outside(known) = {} THEN "none"
  ELSE Order[CHOOSE i \in Outside(known) : \A k \in Outside(known) : i <= k]

LEMMA CurrentIs == ASSUME NEW p PROVE Current(p) = FirstOutside(starter[p].known)
<1>1. Pending(p) = Outside(starter[p].known)
  BY Zenon DEF Pending, Outside
<1>2. QED
  BY <1>1 DEF Current, FirstOutside

LEMMA FirstIsNext ==
  ASSUME adapter \in {"sqlite", "flotiq"}, NEW known, FirstOutside(known) # "none"
  PROVE  \E n \in DOMAIN Order :
           /\ FirstOutside(known) = Order[n] /\ Order[n] \notin known
           /\ \A k \in DOMAIN Order : k < n => Order[k] \in known
<1>1. Outside(known) # {}
  BY Zenon DEF FirstOutside
<1>2. \A i \in DOMAIN Order : i \in Nat
  BY OrderOfMigrations
<1>3. Outside(known) \in SUBSET Nat
  BY <1>2 DEF Outside
<1>4. \E i \in Outside(known) : \A k \in Outside(known) : i <= k
  BY <1>1, <1>3, FirstNumber
<1>5. PICK n : n = CHOOSE i \in Outside(known) : \A k \in Outside(known) : i <= k
  OBVIOUS
<1>6. n \in Outside(known) /\ \A k \in Outside(known) : n <= k
  BY Zenon, <1>4, <1>5
<1>7. FirstOutside(known) = Order[n]
  BY Zenon, <1>1, <1>5 DEF FirstOutside
<1>8. ASSUME NEW k \in DOMAIN Order, k < n PROVE Order[k] \in known
  <2>1. SUFFICES ASSUME Order[k] \notin known PROVE FALSE
    OBVIOUS
  <2>2. n <= k
    BY <1>6, <2>1 DEF Outside
  <2>3. QED
    BY <1>2, <1>3, <1>6, <1>8, <2>2
<1>9. QED
  BY Zenon, <1>6, <1>7, <1>8 DEF Outside

LEMMA NoneIsAll ==
  ASSUME adapter \in {"sqlite", "flotiq"}, NEW known, FirstOutside(known) = "none"
  PROVE  \A i \in DOMAIN Order : Order[i] \in known
<1>1. Outside(known) = {}
  <2>1. SUFFICES ASSUME Outside(known) # {} PROVE FALSE
    OBVIOUS
  <2>2. \A i \in DOMAIN Order : i \in Nat
    BY OrderOfMigrations
  <2>3. Outside(known) \in SUBSET Nat
    BY <2>2 DEF Outside
  <2>4. \E i \in Outside(known) : \A k \in Outside(known) : i <= k
    BY <2>1, <2>3, FirstNumber
  <2>5. PICK n : n = CHOOSE i \in Outside(known) : \A k \in Outside(known) : i <= k
    OBVIOUS
  <2>6. n \in DOMAIN Order /\ Order[n] = "none"
    BY Zenon, <2>1, <2>4, <2>5 DEF FirstOutside, Outside
  <2>7. ASSUME NEW i \in DOMAIN Order PROVE Order[i] # "none"
    <3>1. CASE adapter = "sqlite"
      BY <2>7, <3>1, OrderOfMigrations
    <3>2. CASE adapter = "flotiq"
      BY <2>7, <3>2, OrderOfMigrations
    <3>3. QED
      BY <3>1, <3>2
  <2>8. QED
    BY Zenon, <2>6, <2>7
<1>2. QED
  BY Zenon, <1>1 DEF Outside

\* The process p is at this step, and the others are where they were.
Placed(p, st, kn, pe) ==
  /\ DOMAIN starter' = Starters
  /\ starter'[p] = [step |-> st, known |-> kn, pending |-> pe]
  /\ \A q \in Starters : q = p \/ starter'[q] = starter[q]

LEMMA Places ==
  ASSUME StarterShape, NEW p \in Starters, NEW st, NEW kn, NEW pe
  PROVE  /\ starter' = [starter EXCEPT ![p] = [step |-> st, known |-> kn, pending |-> pe]]
              => Placed(p, st, kn, pe)
         /\ starter' = [starter EXCEPT ![p].step = st, ![p].pending = pe]
              => Placed(p, st, starter[p].known, pe)
         /\ starter' = [starter EXCEPT ![p].pending = pe]
              => Placed(p, starter[p].step, starter[p].known, pe)
         /\ starter' = [starter EXCEPT ![p].step = st, ![p].known = kn, ![p].pending = pe]
              => Placed(p, st, kn, pe)
<1>1. DOMAIN starter = Starters
  BY DEF StarterShape
<1>2. PICK s0, k0, p0 : starter[p] = [step |-> s0, known |-> k0, pending |-> p0]
  BY DEF StarterShape
<1>3. starter' = [starter EXCEPT ![p].step = st, ![p].pending = pe] => Placed(p, st, starter[p].known, pe)
  BY <1>1, <1>2 DEF Placed
<1>4. starter' = [starter EXCEPT ![p].pending = pe] => Placed(p, starter[p].step, starter[p].known, pe)
  BY <1>1, <1>2 DEF Placed
<1>5. starter' = [starter EXCEPT ![p].step = st, ![p].known = kn, ![p].pending = pe] => Placed(p, st, kn, pe)
  BY <1>1, <1>2 DEF Placed
<1>6. starter' = [starter EXCEPT ![p] = [step |-> st, known |-> kn, pending |-> pe]] => Placed(p, st, kn, pe)
  BY <1>1 DEF Placed
<1>7. QED
  BY Zenon, <1>3, <1>4, <1>5, <1>6

\* Whatever was applied stays so, but for what is noted as repeated.
Lasting ==
  /\ \A id : Applied(id, data, repeated) => Applied(id, data', repeated')
  /\ adapter = "flotiq" => DataGrows(data, data')
LEMMA GrowthLasts == ASSUME DataGrows(data, data'), repeated' = repeated PROVE Lasting
  BY Zenon, DoneStays DEF Lasting

LEMMA SchemaMoves ==
  ASSUME SchemaInv, NEW p \in Starters, NEW st, NEW kn, NEW pe, Placed(p, st, kn, pe),
         adapter' = adapter, DataHolds(data'), Lasting, recorded \subseteq recorded',
         \A id \in recorded' : id \in recorded \/ Applied(id, data', repeated'),
         adapter = "flotiq" => "s08" \notin recorded',
         kn \subseteq recorded',
         st \in {"record", "require"} => Applied(FirstOutside(kn), data', repeated'),
         st = "list" => adapter = "flotiq" /\ Defined(FirstOutside(kn), data'),
         st = "fill" => adapter = "flotiq" /\ RowsListed(FirstOutside(kn), pe, data'),
         st = "ready" => \A i \in DOMAIN Order : Order[i] \in recorded',
         SqliteHolds'
  PROVE  SchemaInv'
<1>1. adapter' \in {"sqlite", "flotiq"} /\ (adapter' = "flotiq" => "s08" \notin recorded')
  BY DEF SchemaInv
<1>2. StarterShape'
  <2>1. ASSUME NEW q \in Starters
        PROVE  starter'[q] = [step |-> starter'[q].step, known |-> starter'[q].known,
                              pending |-> starter'[q].pending]
    <3>1. CASE q = p
      BY <3>1 DEF Placed
    <3>2. CASE q # p
      BY <3>2 DEF Placed, SchemaInv, StarterShape
    <3>3. QED
      BY <3>1, <3>2
  <2>2. QED
    BY Zenon, <2>1 DEF StarterShape, Placed
<1>3. DataHolds(data)'
  BY DEF DataHolds, DataShape, TenantShape, ColumnsTell, Applied, Has
<1>4. \A id \in recorded' : Applied(id, data', repeated')
  BY Zenon DEF SchemaInv, Lasting
<1>5. Order' = Order
  BY DEF Order
<1>6. ASSUME NEW q \in Starters PROVE Current(q)' = FirstOutside(starter'[q].known)
  BY <1>5 DEF Current, Pending, FirstOutside, Outside
<1>7. ASSUME NEW q \in Starters PROVE StarterStands(q)'
  <2>1. CASE q = p
    <3>1. starter'[p].step = st /\ starter'[p].known = kn /\ starter'[p].pending = pe
      BY DEF Placed
    <3>2. Current(p)' = FirstOutside(kn)
      BY Zenon, <1>6, <3>1
    <3>3. QED
      BY Zenon, <1>5, <2>1, <3>1, <3>2 DEF StarterStands
  <2>2. CASE q # p
    <3>1. starter'[q] = starter[q] /\ StarterStands(q)
      BY Zenon, <2>2 DEF Placed, SchemaInv
    <3>2. Current(q)' = Current(q)
      BY Zenon, <1>6, <3>1, CurrentIs
    <3>3. starter'[q].step \in {"record", "require"} => Applied(Current(q), data', repeated')
      BY Zenon, <3>1 DEF StarterStands, Lasting
    <3>4. /\ starter'[q].step = "fill" => adapter = "flotiq" /\ RowsListed(Current(q), starter'[q].pending, data')
          /\ starter'[q].step = "list" => adapter = "flotiq" /\ Defined(Current(q), data')
      <4>1. starter'[q].step = "fill" => adapter = "flotiq" /\ RowsListed(Current(q), starter'[q].pending, data')
        BY Zenon, <3>1, ListedStays DEF StarterStands, Lasting
      <4>2. starter'[q].step = "list" => adapter = "flotiq" /\ Defined(Current(q), data')
        BY Zenon, <3>1 DEF StarterStands, Lasting, DataGrows, Defined
      <4>3. QED
        BY Zenon, <4>1, <4>2
    <3>5. starter'[q].known \subseteq recorded'
      BY <3>1 DEF StarterStands
    <3>6. starter'[q].step = "ready" => \A i \in DOMAIN Order : Order[i] \in recorded'
      BY <3>1 DEF StarterStands
    <3>7. QED
      BY Zenon, <1>5, <3>2, <3>3, <3>4, <3>5, <3>6 DEF StarterStands
  <2>3. QED
    BY <2>1, <2>2
<1>8. QED
  BY Zenon, <1>1, <1>2, <1>3, <1>4, <1>7 DEF SchemaInv

\* The same where a process comes to no step at which something is to hold.
LEMMA PlainMoves ==
  ASSUME SchemaInv, NEW p \in Starters, NEW st, NEW kn, NEW pe, Placed(p, st, kn, pe),
         adapter' = adapter, DataHolds(data'), Lasting, recorded \subseteq recorded',
         \A id \in recorded' : id \in recorded \/ Applied(id, data', repeated'),
         adapter = "flotiq" => "s08" \notin recorded',
         kn \subseteq recorded', st \notin {"record", "require"}, st \notin {"list", "fill", "ready"},
         SqliteHolds'
  PROVE  SchemaInv'
<1>1. st # "list" /\ st # "fill" /\ st # "ready"
  OBVIOUS
<1>2. QED
  BY Zenon, <1>1, SchemaMoves

\* What is known of the connections stays true.
LEMMA SqliteStays ==
  ASSUME SqliteHolds, adapter' = adapter, Quiet(data, data'), recorded \subseteq recorded',
         repeated' = repeated,
         Has(data, "base_url") => Has(data', "base_url") \/ "s02" \in recorded
  PROVE  SqliteHolds'
<1>1. SUFFICES ASSUME adapter = "sqlite"
      PROVE  /\ ~Has(data', "base_url") => "s02" \in recorded'
             /\ Has(data', "platform_connection_id") /\ {"s06", "s08"} \cap repeated' = {} => JoinedUp(data')
  BY DEF SqliteHolds, Has, JoinedUp
<1>2. ~Has(data', "base_url") => "s02" \in recorded'
  BY <1>1 DEF SqliteHolds
<1>3. ASSUME Has(data', "platform_connection_id"), {"s06", "s08"} \cap repeated' = {} PROVE JoinedUp(data')
  <2>1. JoinedUp(data) /\ data'.tenants = data.tenants /\ data'.connections = data.connections
    BY <1>1, <1>3 DEF SqliteHolds, Quiet
  <2>2. QED
    BY Zenon, <2>1 DEF JoinedUp
<1>4. QED
  BY Zenon, <1>2, <1>3

LEMMA FlotiqHasNoConnections ==
  ASSUME NEW p, adapter = "flotiq" PROVE Current(p) # "s08"
<1>1. Current(p) = FirstOutside(starter[p].known)
  BY Zenon, CurrentIs
<1>2. CASE FirstOutside(starter[p].known) = "none"
  BY <1>1, <1>2
<1>3. CASE FirstOutside(starter[p].known) # "none"
  <2>1. PICK n \in DOMAIN Order : FirstOutside(starter[p].known) = Order[n]
    <3>1. PICK known : known = starter[p].known
      OBVIOUS
    <3>2. adapter \in {"sqlite", "flotiq"}
      OBVIOUS
    <3>3. QED
      BY Zenon, <1>3, <3>1, <3>2, FirstIsNext
  <2>2. QED
    BY <1>1, <2>1, OrderOfMigrations
<1>4. QED
  BY <1>2, <1>3

\* A migration is recorded, or its process fails because it already was.
LEMMA RecordingStep ==
  ASSUME SchemaInv, NEW p \in Starters, Recording(p), adapter' = adapter,
         DataHolds(data'), DataGrows(data, data'), repeated' = repeated,
         Current(p) \in recorded \/ Applied(Current(p), data', repeated),
         SqliteHolds'
  PROVE  SchemaInv'
<1>0. Lasting
  BY Zenon, GrowthLasts
<1>1. StarterShape
  BY DEF SchemaInv
<1>2. CASE Current(p) \in recorded
  <2>1. starter' = [starter EXCEPT ![p] = [step |-> "down", known |-> {}, pending |-> {}]] /\ recorded' = recorded
    BY Zenon, <1>2 DEF Recording, Fails, Down
  <2>2. Placed(p, "down", {}, {})
    BY Zenon, <1>1, <2>1, Places
  <2>3. PICK st : st = "down"
    OBVIOUS
  <2>4. PICK kn : kn = {}
    OBVIOUS
  <2>5. Placed(p, st, kn, kn)
    BY Zenon, <2>2, <2>3, <2>4
  <2>6. /\ recorded \subseteq recorded' /\ kn \subseteq recorded'
        /\ \A id \in recorded' : id \in recorded \/ Applied(id, data', repeated')
        /\ adapter = "flotiq" => "s08" \notin recorded'
        /\ st \notin {"record", "require"} /\ st \notin {"list", "fill", "ready"}
    BY <2>1, <2>3, <2>4 DEF SchemaInv
  <2>7. QED
    BY Zenon, <1>0, <2>5, <2>6, PlainMoves
<1>3. CASE Current(p) \notin recorded
  <2>1. PICK kn : kn = starter[p].known \cup {Current(p)}
    OBVIOUS
  <2>2. recorded' = recorded \cup {Current(p)}
    BY Zenon, <1>3 DEF Recording
  <2>3. starter' = [starter EXCEPT ![p].step = "apply", ![p].known = kn, ![p].pending = {}]
    BY <1>3, <2>1 DEF Recording
  <2>4. Placed(p, "apply", kn, {})
    BY Zenon, <1>1, <2>3, Places
  <2>5. starter[p].known \subseteq recorded
    BY DEF SchemaInv, StarterStands
  <2>6. PICK st : st = "apply"
    OBVIOUS
  <2>7. Placed(p, st, kn, {})
    BY Zenon, <2>4, <2>6
  <2>8. /\ recorded \subseteq recorded' /\ kn \subseteq recorded'
        /\ st \notin {"record", "require"} /\ st \notin {"list", "fill", "ready"}
    BY <2>1, <2>2, <2>5, <2>6
  <2>9. \A id \in recorded' : id \in recorded \/ Applied(id, data', repeated')
    BY Zenon, <1>3, <2>2
  <2>10. adapter = "flotiq" => "s08" \notin recorded'
    BY Zenon, <2>2, FlotiqHasNoConnections DEF SchemaInv
  <2>11. QED
    BY Zenon, <1>0, <2>7, <2>8, <2>9, <2>10, PlainMoves
<1>4. QED
  BY <1>2, <1>3

LEMMA TransactionStep ==
  ASSUME SchemaInv, adapter = "sqlite", NEW p \in Starters, NEW id, NEW d, Transaction(p, id, d),
         Calm(data, d), id \in recorded \/ Applied(id, d, repeated)
  PROVE  SchemaInv'
<1>1. Calm(data, data')
  <2>1. CASE id \in recorded
    <3>1. data' = data /\ DataHolds(data)
      BY Zenon, <2>1 DEF Transaction, SchemaInv
    <3>2. QED
      BY Zenon, <3>1, QuietSame DEF Calm
  <2>2. CASE id \notin recorded
    BY Zenon, <2>2 DEF Transaction
  <2>3. QED
    BY <2>1, <2>2
<1>2. Current(p) = id /\ adapter' = adapter /\ repeated' = repeated /\ Recording(p)
  BY DEF Transaction
<1>3. recorded \subseteq recorded'
  BY <1>2 DEF Recording
<1>4. SqliteHolds /\ Quiet(data, data') /\ (Has(data, "base_url") => Has(data', "base_url"))
  BY Zenon, <1>1 DEF Calm, SchemaInv
<1>5. SqliteHolds'
  BY Zenon, <1>2, <1>3, <1>4, SqliteStays
<1>6. Current(p) \in recorded \/ Applied(Current(p), data', repeated)
  BY Zenon, <1>2 DEF Transaction
<1>7. DataHolds(data') /\ DataGrows(data, data')
  BY Zenon, <1>4 DEF Quiet
<1>8. QED
  BY Zenon, <1>2, <1>5, <1>6, <1>7, RecordingStep

LEMMA RecordStep ==
  ASSUME SchemaInv, NEW p \in Starters, Record(p) PROVE SchemaInv'
<1>1. /\ data' = data /\ adapter' = adapter /\ repeated' = repeated
      /\ Recording(p) /\ starter[p].step = "record"
  BY DEF Record
<1>2. SqliteHolds /\ DataHolds(data) /\ Applied(Current(p), data, repeated)
  BY <1>1 DEF SchemaInv, StarterStands
<1>3. Quiet(data, data')
  BY Zenon, <1>1, <1>2, QuietSame
<1>4. recorded \subseteq recorded'
  BY <1>1 DEF Recording
<1>5. SqliteHolds'
  BY Zenon, <1>1, <1>2, <1>3, <1>4, SqliteStays
<1>6. DataHolds(data') /\ DataGrows(data, data') /\ Applied(Current(p), data', repeated)
  BY Zenon, <1>1, <1>2, <1>3 DEF Quiet
<1>7. QED
  BY Zenon, <1>1, <1>5, <1>6, RecordingStep

LEMMA CommitStep ==
  ASSUME SchemaInv, NEW p \in Starters, NEW id, NEW from, NEW to, NEW d, Commit(p, id, from, to, d),
         DataHolds(d), Lasting, to \in {"record", "require"} => Applied(id, d, repeated'),
         to = "list" => adapter = "flotiq" /\ Defined(id, d), to # "fill", to # "ready", SqliteHolds'
  PROVE  SchemaInv'
<1>1. StarterShape
  BY DEF SchemaInv
<1>2. PICK kn : kn = starter[p].known
  OBVIOUS
<1>3. /\ data' = d /\ adapter' = adapter /\ recorded' = recorded /\ Current(p) = id
      /\ starter' = [starter EXCEPT ![p].step = to, ![p].pending = {}]
  BY DEF Commit, To
<1>4. Placed(p, to, kn, {})
  BY Zenon, <1>1, <1>2, <1>3, Places
<1>5. FirstOutside(kn) = id
  BY Zenon, <1>2, <1>3, CurrentIs
<1>6. kn \subseteq recorded'
  BY <1>2, <1>3 DEF SchemaInv, StarterStands
<1>7. /\ recorded \subseteq recorded' /\ DataHolds(data')
      /\ \A i \in recorded' : i \in recorded \/ Applied(i, data', repeated')
      /\ adapter = "flotiq" => "s08" \notin recorded'
  BY Zenon, <1>3 DEF SchemaInv
<1>8. /\ to \in {"record", "require"} => Applied(FirstOutside(kn), data', repeated')
      /\ to = "list" => adapter = "flotiq" /\ Defined(FirstOutside(kn), data')
  BY Zenon, <1>3, <1>5
<1>9. QED
  BY Zenon, <1>3, <1>4, <1>6, <1>7, <1>8, SchemaMoves

LEMMA QuietCommit ==
  ASSUME SchemaInv, NEW p \in Starters, NEW id, NEW from, NEW to, NEW d, Commit(p, id, from, to, d),
         repeated' = repeated, Quiet(data, d), to \in {"record", "require"} => Applied(id, d, repeated),
         to = "list" => adapter = "flotiq" /\ Defined(id, d), to # "fill", to # "ready",
         Has(data, "base_url") => Has(d, "base_url") \/ "s02" \in recorded
  PROVE  SchemaInv'
<1>1. data' = d /\ adapter' = adapter /\ recorded \subseteq recorded' /\ SqliteHolds
  BY DEF Commit, SchemaInv
<1>2. SqliteHolds'
  BY Zenon, <1>1, SqliteStays
<1>3. DataHolds(d) /\ Lasting
  BY Zenon, <1>1, GrowthLasts DEF Quiet
<1>4. QED
  BY Zenon, <1>2, <1>3, CommitStep

\* A process gives up.
LEMMA FailedStep ==
  ASSUME SchemaInv, NEW p \in Starters, Fails(p), UNCHANGED <<adapter, data, recorded, repeated>>
  PROVE  SchemaInv'
<1>1. StarterShape /\ DataHolds(data) /\ SqliteHolds
  BY DEF SchemaInv
<1>2. PICK st : st = "down"
  OBVIOUS
<1>3. PICK kn : kn = {}
  OBVIOUS
<1>4. starter' = [starter EXCEPT ![p] = [step |-> st, known |-> kn, pending |-> kn]]
  BY Zenon, <1>2, <1>3 DEF Fails, Down
<1>5. Placed(p, st, kn, kn)
  BY Zenon, <1>1, <1>4, Places
<1>6. adapter' = adapter /\ data' = data /\ recorded' = recorded /\ repeated' = repeated
  OBVIOUS
<1>7. /\ recorded \subseteq recorded' /\ kn \subseteq recorded'
      /\ \A id \in recorded' : id \in recorded \/ Applied(id, data', repeated')
      /\ adapter = "flotiq" => "s08" \notin recorded'
      /\ st \notin {"record", "require"} /\ st \notin {"list", "fill", "ready"}
  BY <1>2, <1>3, <1>6 DEF SchemaInv
<1>8. Quiet(data, data')
  BY Zenon, <1>1, <1>6, QuietSame
<1>9. DataHolds(data') /\ Lasting
  BY Zenon, <1>6, <1>8, GrowthLasts DEF Quiet
<1>10. SqliteHolds'
  BY Zenon, <1>1, <1>6, <1>7, <1>8, SqliteStays
<1>11. QED
  BY Zenon, <1>5, <1>6, <1>7, <1>9, <1>10, PlainMoves

\* A table is made anew: what is lost is noted.
LEMMA RebuildStep ==
  ASSUME SchemaInv, adapter = "sqlite", NEW p \in Starters, NEW id, NEW from, NEW newer, NEW d,
         Rebuild(p, id, from, newer, d), DataHolds(d), Applied(id, d, repeated'),
         \A i : Applied(i, data, repeated) => Applied(i, d, repeated'), SqliteHolds'
  PROVE  SchemaInv'
<1>1. PICK to : to = "record"
  OBVIOUS
<1>2. Commit(p, id, from, to, d) /\ to # "list" /\ to # "fill" /\ to # "ready"
  BY <1>1 DEF Rebuild
<1>3. data' = d /\ adapter # "flotiq"
  BY <1>2 DEF Commit
<1>4. Lasting
  BY Zenon, <1>3 DEF Lasting
<1>5. QED
  BY Zenon, <1>2, <1>4, CommitStep

\* What comes before a process's migration has been applied.
LEMMA EarlierIsRecorded ==
  ASSUME SchemaInv, adapter = "sqlite", NEW p \in Starters
  PROVE  /\ Current(p) = "s06" => "s02" \in recorded
         /\ Current(p) = "s08" => "s02" \in recorded /\ "s06" \in recorded
<1>1. PICK kn : kn = starter[p].known
  OBVIOUS
<1>2. Current(p) = FirstOutside(kn) /\ kn \subseteq recorded
  <2>1. Current(p) = FirstOutside(kn)
    BY Zenon, <1>1, CurrentIs
  <2>2. QED
    BY <1>1, <2>1 DEF SchemaInv, StarterStands
<1>3. SUFFICES ASSUME Current(p) \in {"s06", "s08"}
      PROVE  "s02" \in kn /\ (Current(p) = "s08" => "s06" \in kn)
  BY <1>2
<1>4. FirstOutside(kn) # "none"
  BY <1>2, <1>3
<1>5. adapter \in {"sqlite", "flotiq"}
  OBVIOUS
<1>6. PICK n \in DOMAIN Order : /\ FirstOutside(kn) = Order[n]
                                /\ \A k \in DOMAIN Order : k < n => Order[k] \in kn
  BY Zenon, <1>4, <1>5, FirstIsNext
<1>7. (Current(p) = "s06" => n = 6) /\ (Current(p) = "s08" => n = 8)
  BY <1>2, <1>6, OrderOfMigrations
<1>8. 2 \in DOMAIN Order /\ 6 \in DOMAIN Order /\ Order[2] = "s02" /\ Order[6] = "s06"
  BY OrderOfMigrations
<1>9. n = 6 \/ n = 8
  BY <1>3, <1>7
<1>10. 2 < n /\ (n = 8 => 6 < n)
  BY <1>9
<1>11. Order[2] \in kn /\ (n = 8 => Order[6] \in kn)
  BY <1>6, <1>8, <1>10
<1>12. QED
  BY <1>7, <1>8, <1>11

LEMMA LegacyStep ==
  ASSUME SchemaInv, adapter = "sqlite", NEW p \in Starters,
         Rebuild(p, "s06", "rebuild", {"platform_connection_id"}, DropLegacyColumns(data))
  PROVE  SchemaInv'
<1>1. /\ Current(p) = "s06" /\ data' = DropLegacyColumns(data) /\ recorded' = recorded /\ adapter' = adapter
      /\ repeated \subseteq repeated' /\ (Has(data, "platform_connection_id") => "s06" \in repeated')
  BY DEF Rebuild, Commit
<1>2. "s02" \in recorded /\ DataHolds(data)
  BY Zenon, <1>1, EarlierIsRecorded DEF SchemaInv
<1>3. PICK e : e = DropLegacyColumns(data)
  OBVIOUS
<1>4. DataHolds(e) /\ ~Has(e, "base_url") /\ ~Has(e, "platform_connection_id")
  BY Zenon, <1>2, <1>3, LegacyDropped
<1>5. \A i : Applied(i, data, repeated) => Applied(i, e, repeated')
  BY Zenon, <1>1, <1>2, <1>3, LegacyLasts
<1>6. Applied("s06", e, repeated')
  BY <1>4 DEF Applied
<1>7. SqliteHolds'
  <2>1. ~Has(data', "platform_connection_id")
    BY Zenon, <1>1, <1>3, <1>4
  <2>2. QED
    BY <1>1, <1>2, <2>1 DEF SqliteHolds, Has
<1>8. QED
  BY Zenon, <1>3, <1>4, <1>5, <1>6, <1>7, RebuildStep

LEMMA ConnectionsStep ==
  ASSUME SchemaInv, adapter = "sqlite", NEW p \in Starters,
         Rebuild(p, "s08", "apply", {"platform_connection_id"}, Connections(data))
  PROVE  SchemaInv'
<1>1. /\ Current(p) = "s08" /\ data' = Connections(data) /\ recorded' = recorded /\ adapter' = adapter
      /\ repeated \subseteq repeated' /\ (Has(data, "platform_connection_id") => "s08" \in repeated')
  BY DEF Rebuild, Commit
<1>2. "s02" \in recorded /\ "s06" \in recorded
  BY Zenon, <1>1, EarlierIsRecorded
<1>3. DataHolds(data) /\ Applied("s02", data, repeated) /\ Applied("s06", data, repeated)
  BY Zenon, <1>2 DEF SchemaInv
<1>4. ~Has(data, "base_url")
  BY <1>3 DEF Applied
<1>5. PICK e : e = Connections(data)
  OBVIOUS
<1>6. /\ DataHolds(e) /\ DataGrows(data, e) /\ Applied("s08", e, repeated')
      /\ (\A t \in OldTenants : data.tenants[t].json) => JoinedUp(e)
  BY Zenon, <1>3, <1>4, <1>5, ConnectionsMade
<1>7. SqliteHolds'
  <2>1. ASSUME {"s06", "s08"} \cap repeated' = {} PROVE JoinedUp(data')
    <3>1. "s06" \notin repeated /\ ~Has(data, "platform_connection_id")
      BY <1>1, <2>1
    <3>2. \A t \in OldTenants : data.tenants[t].json
      BY Zenon, <1>3, <3>1 DEF Applied
    <3>3. QED
      BY Zenon, <1>1, <1>5, <1>6, <3>2
  <2>2. JoinedUp(data') => JoinedUp(data)'
    BY DEF JoinedUp
  <2>3. QED
    BY Zenon, <1>1, <1>2, <2>1, <2>2 DEF SqliteHolds
<1>8. \A i : Applied(i, data, repeated) => Applied(i, e, repeated')
  <2>1. \A i : Applied(i, e, repeated) => Applied(i, e, repeated')
    <3>1. repeated \subseteq repeated'
      BY Zenon, <1>1
    <3>2. QED
      BY ONLY <3>1 DEF Applied
  <2>2. QED
    BY Zenon, <1>6, <2>1, DoneStays
<1>9. QED
  BY Zenon, <1>5, <1>6, <1>7, <1>8, RebuildStep

\* The tables of jobs are no concern of the connections.
LEMMA ApartFromConnections ==
  ASSUME SqliteHolds, adapter' = adapter, recorded' = recorded, repeated \subseteq repeated',
         \A c \in {"base_url", "platform_connection_id"} : Has(data', c) <=> Has(data, c),
         data'.tenants = data.tenants, data'.connections = data.connections
  PROVE  SqliteHolds'
<1>1. SUFFICES ASSUME adapter = "sqlite"
      PROVE  /\ ~Has(data', "base_url") => "s02" \in recorded'
             /\ Has(data', "platform_connection_id") /\ {"s06", "s08"} \cap repeated' = {} => JoinedUp(data')
  BY DEF SqliteHolds, Has, JoinedUp
<1>2. /\ Has(data', "base_url") <=> Has(data, "base_url")
      /\ Has(data', "platform_connection_id") <=> Has(data, "platform_connection_id")
  OBVIOUS
<1>3. JoinedUp(data) => JoinedUp(data')
  BY Zenon DEF JoinedUp
<1>4. {"s06", "s08"} \cap repeated' = {} => {"s06", "s08"} \cap repeated = {}
  OBVIOUS
<1>5. QED
  BY Zenon, <1>1, <1>2, <1>3, <1>4 DEF SqliteHolds

LEMMA JobTableSteps ==
  ASSUME SchemaInv, adapter = "sqlite", NEW p \in Starters,
         \/ Rebuild(p, "s09", "rebuild", {"available_at", "batch_kind"}, ProviderTriggers(data))
         \/ Rebuild(p, "s11", "rebuild", {"batch_kind"}, AvailableAt(data))
  PROVE  SchemaInv'
<1>1. DataHolds(data) /\ SqliteHolds
  BY DEF SchemaInv
<1>2. CASE Rebuild(p, "s09", "rebuild", {"available_at", "batch_kind"}, ProviderTriggers(data))
  <2>1. /\ data' = ProviderTriggers(data) /\ recorded' = recorded /\ adapter' = adapter
        /\ repeated \subseteq repeated'
        /\ Has(data, "available_at") \/ Has(data, "batch_kind") => "s09" \in repeated'
    BY <1>2 DEF Rebuild, Commit
  <2>2. PICK e : e = ProviderTriggers(data)
    OBVIOUS
  <2>3. /\ DataHolds(e) /\ Applied("s09", e, repeated')
        /\ \A id : Applied(id, data, repeated) => Applied(id, e, repeated')
        /\ \A c \in {"base_url", "platform_connection_id"} : Has(e, c) <=> Has(data, c)
        /\ e.tenants = data.tenants /\ e.connections = data.connections
    BY Zenon, <1>1, <2>1, <2>2, TriggersMade
  <2>4. SqliteHolds'
    BY Zenon, <1>1, <2>1, <2>2, <2>3, ApartFromConnections
  <2>5. QED
    BY Zenon, <1>2, <2>2, <2>3, <2>4, RebuildStep
<1>3. CASE Rebuild(p, "s11", "rebuild", {"batch_kind"}, AvailableAt(data))
  <2>1. /\ data' = AvailableAt(data) /\ recorded' = recorded /\ adapter' = adapter
        /\ repeated \subseteq repeated' /\ (Has(data, "batch_kind") => "s11" \in repeated')
    BY <1>3 DEF Rebuild, Commit
  <2>2. PICK e : e = AvailableAt(data)
    OBVIOUS
  <2>3. /\ DataHolds(e) /\ Applied("s11", e, repeated')
        /\ \A id : Applied(id, data, repeated) => Applied(id, e, repeated')
        /\ \A c \in {"base_url", "platform_connection_id"} : Has(e, c) <=> Has(data, c)
        /\ e.tenants = data.tenants /\ e.connections = data.connections
    BY Zenon, <1>1, <2>1, <2>2, TimesMade
  <2>4. SqliteHolds'
    BY Zenon, <1>1, <2>1, <2>2, <2>3, ApartFromConnections
  <2>5. QED
    BY Zenon, <1>3, <2>2, <2>3, <2>4, RebuildStep
<1>4. QED
  BY <1>2, <1>3

LEMMA NothingToShow ==
  ASSUME NEW id, NEW d, NEW a,
         id \notin {"s02", "s06", "s08", "s09", "s11", "s12", "s13", "v003", "v005", "v006", "v007"}
  PROVE  Applied(id, d, a)
  BY DEF Applied

\* A process looks at the columns, and finds its migration done or goes on.
LEMMA LookStep ==
  ASSUME SchemaInv, NEW p \in Starters, NEW id, NEW from, NEW to \in {"record", "update", "rebuild"},
         Commit(p, id, from, to, data), UNCHANGED repeated, to = "record" => Applied(id, data, repeated)
  PROVE  SchemaInv'
<1>1. DataHolds(data)
  BY DEF SchemaInv
<1>2. Quiet(data, data)
  BY Zenon, <1>1, QuietSame
<1>3. to # "require" /\ to # "list" /\ to # "fill" /\ to # "ready"
  OBVIOUS
<1>4. to \in {"record", "require"} => Applied(id, data, repeated)
  BY <1>3
<1>5. QED
  BY Zenon, <1>2, <1>3, <1>4, QuietCommit

LEMMA LookSteps ==
  ASSUME SchemaInv, adapter = "sqlite", NEW p \in Starters,
         \/ Look(p, "s06", "base_url", "update", "record")
         \/ Look(p, "s09", "trigger_json", "record", "rebuild")
         \/ /\ Commit(p, "s11", "look", IF Has(data, "available_at") THEN "record" ELSE "rebuild", data)
            /\ UNCHANGED repeated
         \/ Look(p, "s12", "harness_session_key", "record", "rebuild")
  PROVE  SchemaInv'
<1>1. ColumnsTell(data)
  BY DEF SchemaInv, DataHolds
<1>2. /\ ~Has(data, "base_url") => Applied("s06", data, repeated)
      /\ Has(data, "trigger_json") => Applied("s09", data, repeated)
      /\ Has(data, "available_at") => Applied("s11", data, repeated)
      /\ Has(data, "harness_session_key") => Applied("s12", data, repeated)
  BY <1>1 DEF ColumnsTell, Applied
<1>3. CASE Look(p, "s06", "base_url", "update", "record")
  <2>1. PICK to \in {"record", "update", "rebuild"} : to = IF Has(data, "base_url") THEN "update" ELSE "record"
    OBVIOUS
  <2>2. to = "record" => Applied("s06", data, repeated)
    BY <1>2, <2>1
  <2>3. QED
    BY Zenon, <1>3, <2>1, <2>2, LookStep DEF Look
<1>4. CASE Look(p, "s09", "trigger_json", "record", "rebuild")
  <2>1. PICK to \in {"record", "update", "rebuild"} : to = IF Has(data, "trigger_json") THEN "record" ELSE "rebuild"
    OBVIOUS
  <2>2. to = "record" => Applied("s09", data, repeated)
    BY <1>2, <2>1
  <2>3. QED
    BY Zenon, <1>4, <2>1, <2>2, LookStep DEF Look
<1>5. CASE /\ Commit(p, "s11", "look", IF Has(data, "available_at") THEN "record" ELSE "rebuild", data)
           /\ UNCHANGED repeated
  <2>1. PICK to \in {"record", "update", "rebuild"} : to = IF Has(data, "available_at") THEN "record" ELSE "rebuild"
    OBVIOUS
  <2>2. to = "record" => Applied("s11", data, repeated)
    BY <1>2, <2>1
  <2>3. QED
    BY Zenon, <1>5, <2>1, <2>2, LookStep
<1>6. CASE Look(p, "s12", "harness_session_key", "record", "rebuild")
  <2>1. PICK to \in {"record", "update", "rebuild"} : to = IF Has(data, "harness_session_key") THEN "record" ELSE "rebuild"
    OBVIOUS
  <2>2. to = "record" => Applied("s12", data, repeated)
    BY <1>2, <2>1
  <2>3. QED
    BY Zenon, <1>6, <2>1, <2>2, LookStep DEF Look
<1>7. QED
  BY <1>3, <1>4, <1>5, <1>6

LEMMA RefusedStep ==
  ASSUME SchemaInv, NEW p \in Starters, NEW id, NEW at, ColumnGone(p, id, at)
  PROVE  SchemaInv'
  BY Zenon, FailedStep DEF ColumnGone

LEMMA SqliteSteps ==
  ASSUME SchemaInv, adapter = "sqlite", NEW p \in Starters, SqliteStep(p)
  PROVE  SchemaInv'
<1>0. DataHolds(data)
  BY DEF SchemaInv
<1>1. ASSUME NEW id, NEW d, Transaction(p, id, d), Calm(data, d), id \in recorded \/ Applied(id, d, repeated)
      PROVE  SchemaInv'
  BY Zenon, <1>1, TransactionStep
<1>2. ASSUME NEW id, NEW from, NEW to, NEW d, Commit(p, id, from, to, d), UNCHANGED repeated,
             Calm(data, d), to \in {"rebuild", "look"} \/ (to = "record" /\ Applied(id, d, repeated))
      PROVE  SchemaInv'
  <2>1. Quiet(data, d) /\ (Has(data, "base_url") => Has(d, "base_url"))
    BY Zenon, <1>2 DEF Calm
  <2>2. /\ to # "list" /\ to # "fill" /\ to # "ready"
        /\ to \in {"record", "require"} => Applied(id, d, repeated)
    BY <1>2
  <2>3. QED
    BY Zenon, <1>2, <2>1, <2>2, QuietCommit
<1>3. \A d : /\ Applied("s01", d, repeated) /\ Applied("s03", d, repeated) /\ Applied("s04", d, repeated)
             /\ Applied("s05", d, repeated) /\ Applied("s07", d, repeated) /\ Applied("s10", d, repeated)
  BY DEF Applied
<1>4. CASE Transaction(p, "s01", Baseline(data))
  BY Zenon, <1>0, <1>1, <1>3, <1>4, CalmSteps
<1>5. CASE Transaction(p, "s02", PlatformTenants(data))
  <2>1. CASE Has(data, "base_url")
    <3>1. \A t \in OldTenants : PlatformTenants(data).tenants[t].json
      BY Zenon, <1>0, <2>1, Platformed
    <3>2. Applied("s02", PlatformTenants(data), repeated)
      BY <3>1 DEF Applied
    <3>3. QED
      BY Zenon, <1>0, <1>1, <1>5, <3>2, CalmSteps
  <2>2. CASE ~Has(data, "base_url")
    <3>1. "s02" \in recorded
      BY Zenon, <2>2 DEF SchemaInv, SqliteHolds
    <3>2. QED
      BY Zenon, <1>0, <1>1, <1>5, <3>1, CalmSteps
  <2>3. QED
    BY <2>1, <2>2
<1>6. CASE Transaction(p, "s03", ReviewEntityIds(data))
  BY Zenon, <1>0, <1>1, <1>3, <1>6, CalmSteps
<1>7. CASE Transaction(p, "s04", TenantScopedReviews(data))
  BY Zenon, <1>0, <1>1, <1>3, <1>7, CalmSteps
<1>8. CASE Transaction(p, "s05", CodeReviewSnapshots(data))
  BY Zenon, <1>0, <1>1, <1>3, <1>8, CalmSteps
<1>9. CASE \/ Look(p, "s06", "base_url", "update", "record")
           \/ Look(p, "s09", "trigger_json", "record", "rebuild")
           \/ /\ Commit(p, "s11", "look", IF Has(data, "available_at") THEN "record" ELSE "rebuild", data)
              /\ UNCHANGED repeated
           \/ Look(p, "s12", "harness_session_key", "record", "rebuild")
  BY Zenon, <1>9, LookSteps
<1>10. CASE UpdateTenants(p)
  <2>1. CASE Has(data, "base_url")
    <3>1. PICK to : to = "rebuild"
      OBVIOUS
    <3>2. Commit(p, "s06", "update", to, PlatformTenants(data)) /\ UNCHANGED repeated
      BY Zenon, <1>10, <2>1, <3>1 DEF UpdateTenants
    <3>3. to \in {"rebuild", "look"}
      BY <3>1
    <3>4. QED
      BY Zenon, <1>0, <1>2, <3>2, <3>3, CalmSteps
  <2>2. CASE ~Has(data, "base_url")
    BY Zenon, <1>10, <2>2, RefusedStep DEF UpdateTenants
  <2>3. QED
    BY <2>1, <2>2
<1>11. CASE Rebuild(p, "s06", "rebuild", {"platform_connection_id"}, DropLegacyColumns(data))
  BY Zenon, <1>11, LegacyStep
<1>12. CASE Transaction(p, "s07", GenericNames(data))
  BY Zenon, <1>0, <1>1, <1>3, <1>12, CalmSteps
<1>13. CASE Rebuild(p, "s08", "apply", {"platform_connection_id"}, Connections(data))
  BY Zenon, <1>13, ConnectionsStep
<1>14. CASE \/ Rebuild(p, "s09", "rebuild", {"available_at", "batch_kind"}, ProviderTriggers(data))
            \/ Rebuild(p, "s11", "rebuild", {"batch_kind"}, AvailableAt(data))
  BY Zenon, <1>14, JobTableSteps
<1>15. CASE Transaction(p, "s10", ProjectMemories(data))
  BY Zenon, <1>0, <1>1, <1>3, <1>15, CalmSteps
<1>16. CASE Commit(p, "s11", "apply", "look", ClaimColumns(data)) /\ UNCHANGED repeated
  <2>1. PICK to : to = "look"
    OBVIOUS
  <2>2. to \in {"rebuild", "look"}
    BY <2>1
  <2>3. QED
    BY Zenon, <1>0, <1>2, <1>16, <2>1, <2>2, CalmSteps
<1>17. CASE RebuildMetrics(p)
  <2>1. CASE Has(data, "harness_session_key")
    BY Zenon, <1>17, <2>1, RefusedStep DEF RebuildMetrics
  <2>2. CASE ~Has(data, "harness_session_key")
    BY Zenon, <1>0, <1>2, <1>17, <2>2, SessionsAdded DEF RebuildMetrics
  <2>3. QED
    BY <2>1, <2>2
<1>18. CASE Transaction(p, "s13", InteractionRequests(data))
  BY Zenon, <1>0, <1>1, <1>18, RequestsMade
<1>19. QED
  BY Zenon, <1>4, <1>5, <1>6, <1>7, <1>8, <1>9, <1>10, <1>11, <1>12, <1>13, <1>14, <1>15, <1>16, <1>17, <1>18
     DEF SqliteStep

LEMMA JobFilled ==
  ASSUME NEW d, DataHolds(d), adapter # "sqlite", NEW j \in OldJobs, NEW field \in {"trigger", "available"}
  PROVE  LET e == [d EXCEPT !.jobs[j] = @ \cup {field}] IN Quiet(d, e) /\ field \in e.jobs[j]
<1>1. PICK J : J = [d.jobs EXCEPT ![j] = @ \cup {field}]
  OBVIOUS
<1>2. PICK e : e = [d EXCEPT !.jobs = J]
  OBVIOUS
<1>3. d.jobs \in [OldJobs -> SUBSET {"trigger", "available"}]
  BY DEF DataHolds, DataShape
<1>4. J \in [OldJobs -> SUBSET {"trigger", "available"}] /\ field \in J[j]
  BY <1>1, <1>3
<1>5. \A k \in OldJobs : d.jobs[k] \subseteq J[k]
  BY <1>1, <1>3
<1>6. Quiet(d, e) /\ e.jobs = J
  BY <1>2, <1>4, <1>5, JobsChange
<1>7. [d EXCEPT !.jobs[j] = @ \cup {field}] = e
  BY <1>1, <1>2
<1>8. QED
  BY Zenon, <1>4, <1>6, <1>7

LEMMA MetricFilled ==
  ASSUME NEW d, DataHolds(d), NEW m \in OldMetrics
  PROVE  LET e == [d EXCEPT !.metrics[m] = {"session"}] IN Quiet(d, e) /\ "session" \in e.metrics[m]
<1>1. PICK M : M = [d.metrics EXCEPT ![m] = {"session"}]
  OBVIOUS
<1>2. PICK e : e = [d EXCEPT !.metrics = M]
  OBVIOUS
<1>3. d.metrics \in [OldMetrics -> SUBSET {"session"}]
  BY DEF DataHolds, DataShape
<1>4. M \in [OldMetrics -> SUBSET {"session"}] /\ "session" \in M[m]
  BY <1>1, <1>3
<1>5. \A k \in OldMetrics : d.metrics[k] \subseteq M[k]
  BY <1>1, <1>3
<1>6. Quiet(d, e) /\ e.metrics = M
  BY <1>2, <1>4, <1>5, MetricsChange
<1>7. [d EXCEPT !.metrics[m] = {"session"}] = e
  BY <1>1, <1>2
<1>8. QED
  BY Zenon, <1>4, <1>6, <1>7

LEMMA RequestFilled ==
  ASSUME NEW d, DataHolds(d), NEW j \in OldJobs
  PROVE  LET e == [d EXCEPT !.requests = @ \cup {j}] IN Quiet(d, e) /\ j \in e.requests
<1>1. PICK R : R = d.requests \cup {j}
  OBVIOUS
<1>2. PICK e : e = [d EXCEPT !.requests = R]
  OBVIOUS
<1>3. R \in SUBSET OldJobs /\ d.requests \subseteq R /\ j \in R
  BY <1>1 DEF DataHolds, DataShape
<1>4. Quiet(d, e) /\ e.requests = R
  BY <1>2, <1>3, RequestsChange
<1>5. [d EXCEPT !.requests = @ \cup {j}] = e
  BY <1>1, <1>2
<1>6. QED
  BY Zenon, <1>3, <1>4, <1>5

\* A listed row is brought up to date, and is no longer on the list.
Fills(id, changed) ==
  \A r \in IF id = "v006" THEN OldMetrics ELSE OldJobs :
    /\ Quiet(data, changed[r])
    /\ id = "v003" => "trigger" \in changed[r].jobs[r]
    /\ id = "v005" => "available" \in changed[r].jobs[r]
    /\ id = "v006" => "session" \in changed[r].metrics[r]
    /\ id = "v007" => r \in changed[r].requests

LEMMA FillStep ==
  ASSUME SchemaInv, adapter = "flotiq", NEW p \in Starters, NEW to \in {"require", "record"},
         NEW id \in {"v003", "v005", "v006", "v007"}, NEW changed, Fills(id, changed),
         Backfill(p, id, to, changed)
  PROVE  SchemaInv'
<1>1. /\ starter[p].step = "fill" /\ Current(p) = id
      /\ adapter' = adapter /\ recorded' = recorded
  BY DEF Backfill
<1>2. StarterShape /\ DataHolds(data) /\ RowsListed(id, starter[p].pending, data)
  BY <1>1 DEF SchemaInv, StarterStands
<1>3. PICK kn : kn = starter[p].known
  OBVIOUS
<1>4. FirstOutside(kn) = id /\ kn \subseteq recorded'
  <2>1. FirstOutside(kn) = id
    BY Zenon, <1>1, <1>3, CurrentIs
  <2>2. QED
    BY <1>1, <1>3, <2>1 DEF SchemaInv, StarterStands
<1>5. /\ SqliteHolds' /\ (adapter = "flotiq" => "s08" \notin recorded')
      /\ repeated' = repeated /\ to # "list"
  BY <1>1 DEF SqliteHolds, SchemaInv, Backfill
<1>6. CASE starter[p].pending = {}
  <2>1. data' = data /\ starter' = [starter EXCEPT ![p].step = to, ![p].pending = {}]
    BY <1>6 DEF Backfill, To
  <2>2. Placed(p, to, kn, {})
    BY Zenon, <1>2, <1>3, <2>1, Places
  <2>3. RowsListed(id, {}, data)
    BY Zenon, <1>2, <1>6
  <2>4. Applied(id, data, repeated')
    BY <2>3 DEF RowsListed, Applied
  <2>5. Quiet(data, data')
    BY Zenon, <1>2, <2>1, QuietSame
  <2>6. DataHolds(data') /\ Lasting /\ Applied(FirstOutside(kn), data', repeated')
    BY Zenon, <1>4, <1>5, <2>1, <2>4, <2>5, GrowthLasts DEF Quiet
  <2>7. to # "fill" /\ to # "ready" /\ recorded \subseteq recorded' /\ \A i \in recorded' : i \in recorded
    BY <1>1
  <2>8. QED
    BY Zenon, <1>1, <1>4, <1>5, <2>2, <2>6, <2>7, SchemaMoves
<1>7. CASE starter[p].pending # {}
  <2>1. PICK r \in starter[p].pending :
          data' = changed[r] /\ starter' = [starter EXCEPT ![p].pending = starter[p].pending \ {r}]
    BY <1>7 DEF Backfill
  <2>2. PICK rows : rows = starter[p].pending \ {r}
    OBVIOUS
  <2>3. Placed(p, starter[p].step, starter[p].known, rows)
    BY Zenon, <1>2, <2>1, <2>2, Places
  <2>4. PICK st : st = "fill"
    OBVIOUS
  <2>5. Placed(p, st, kn, rows)
    BY Zenon, <1>1, <1>3, <2>3, <2>4
  <2>6. r \in IF id = "v006" THEN OldMetrics ELSE OldJobs
    BY <1>2 DEF RowsListed
  <2>7. /\ Quiet(data, data')
        /\ id = "v003" => "trigger" \in data'.jobs[r]
        /\ id = "v005" => "available" \in data'.jobs[r]
        /\ id = "v006" => "session" \in data'.metrics[r]
        /\ id = "v007" => r \in data'.requests
    BY Zenon, <2>1, <2>6 DEF Fills
  <2>8. DataHolds(data') /\ DataGrows(data, data')
    BY Zenon, <2>7 DEF Quiet
  <2>9. RowsListed(id, starter[p].pending, data')
    BY Zenon, <1>2, <2>8, ListedStays
  <2>10. RowsListed(id, rows, data')
    BY <2>2, <2>7, <2>9 DEF RowsListed
  <2>11. /\ st \notin {"record", "require"} /\ st # "ready" /\ st # "list" /\ recorded \subseteq recorded'
         /\ \A i \in recorded' : i \in recorded
    BY <1>1, <2>4
  <2>12. Lasting
    BY Zenon, <1>5, <2>8, GrowthLasts
  <2>13. QED
    BY Zenon, <1>1, <1>4, <1>5, <2>5, <2>8, <2>10, <2>11, <2>12, SchemaMoves
<1>8. QED
  BY <1>6, <1>7

LEMMA ListStep ==
  ASSUME SchemaInv, adapter = "flotiq", NEW p \in Starters, NEW id, NEW rows,
         ListRows(p, id, "fill", rows), RowsListed(id, rows, data)
  PROVE  SchemaInv'
<1>1. /\ Current(p) = id /\ data' = data /\ adapter' = adapter /\ recorded' = recorded /\ repeated' = repeated
      /\ starter' = [starter EXCEPT ![p].step = "fill", ![p].pending = rows]
  BY DEF ListRows
<1>2. StarterShape /\ DataHolds(data) /\ SqliteHolds
  BY DEF SchemaInv
<1>3. PICK kn : kn = starter[p].known
  OBVIOUS
<1>4. FirstOutside(kn) = id
  BY Zenon, <1>1, <1>3, CurrentIs
<1>5. kn \subseteq recorded' /\ recorded \subseteq recorded'
  BY <1>1, <1>3 DEF SchemaInv, StarterStands
<1>6. PICK st : st = "fill"
  OBVIOUS
<1>7. Placed(p, st, kn, rows)
  BY Zenon, <1>1, <1>2, <1>3, <1>6, Places
<1>8. Quiet(data, data')
  BY Zenon, <1>1, <1>2, QuietSame
<1>9. SqliteHolds'
  BY Zenon, <1>1, <1>2, <1>5, <1>8, SqliteStays
<1>10. DataHolds(data') /\ Lasting /\ RowsListed(FirstOutside(kn), rows, data')
  BY Zenon, <1>1, <1>4, <1>8, GrowthLasts DEF Quiet
<1>11. /\ st \notin {"record", "require"} /\ st # "ready" /\ st # "list" /\ \A i \in recorded' : i \in recorded
       /\ adapter = "flotiq" => "s08" \notin recorded'
  BY <1>1, <1>6 DEF SchemaInv
<1>12. QED
  BY Zenon, <1>1, <1>5, <1>7, <1>9, <1>10, <1>11, SchemaMoves

LEMMA DefineStep ==
  ASSUME SchemaInv, adapter = "flotiq", NEW p \in Starters, NEW id, NEW from, NEW to, NEW column,
         Define(p, id, from, to, column), column \notin {"base_url", "platform_connection_id"},
         to = "list" \/ (to = "record" /\ id \in {"v002", "v004"}), id = "v007" => column = "batch_kind"
  PROVE  SchemaInv'
<1>1. PICK C : C = {column}
  OBVIOUS
<1>2. PICK e : e = Add(data, C)
  OBVIOUS
<1>3. DataHolds(data)
  BY DEF SchemaInv
<1>4. {"base_url", "platform_connection_id"} \cap C = {} /\ adapter # "sqlite"
  BY <1>1
<1>5. Quiet(data, e) /\ e.columns = data.columns \cup C
  BY Zenon, <1>2, <1>3, <1>4, Added
<1>6. Has(data, "base_url") => Has(e, "base_url")
  BY <1>5 DEF Has
<1>7. /\ to # "fill" /\ to # "ready" /\ (to \in {"record", "require"} => Applied(id, e, repeated))
      /\ to = "list" => adapter = "flotiq" /\ Defined(id, e)
  <2>1. to # "fill" /\ to # "ready" /\ (to \in {"record", "require"} => Applied(id, e, repeated))
    BY DEF Applied
  <2>2. to = "list" => Defined(id, e)
    BY <1>1, <1>5 DEF Defined, Has
  <2>3. QED
    BY <2>1, <2>2
<1>8. Commit(p, id, from, to, e) /\ repeated' = repeated
  BY Zenon, <1>1, <1>2 DEF Define
<1>9. QED
  BY Zenon, <1>5, <1>6, <1>7, <1>8, QuietCommit

LEMMA RequireStep ==
  ASSUME SchemaInv, NEW p \in Starters, NEW id, Require(p, id)
  PROVE  SchemaInv'
<1>1. PICK to : to = "record"
  OBVIOUS
<1>2. /\ Commit(p, id, "require", to, data) /\ repeated' = repeated
      /\ to # "list" /\ to # "fill" /\ to # "ready"
  BY <1>1 DEF Require
<1>3. DataHolds(data) /\ Applied(id, data, repeated)
  BY <1>2 DEF Commit, SchemaInv, StarterStands
<1>4. Quiet(data, data)
  BY Zenon, <1>3, QuietSame
<1>5. QED
  BY Zenon, <1>2, <1>3, <1>4, QuietCommit

LEMMA FlotiqSteps ==
  ASSUME SchemaInv, adapter = "flotiq", NEW p \in Starters, FlotiqStep(p)
  PROVE  SchemaInv'
<1>1. /\ DataHolds(data) /\ DOMAIN data.jobs = OldJobs /\ DOMAIN data.metrics = OldMetrics
  BY DEF SchemaInv, DataHolds, DataShape
<1>2. ASSUME NEW id, NEW from, NEW to, NEW column, Define(p, id, from, to, column),
             column \notin {"base_url", "platform_connection_id"},
             to = "list" \/ (to = "record" /\ id \in {"v002", "v004"}), id = "v007" => column = "batch_kind"
      PROVE  SchemaInv'
  BY Zenon, <1>2, DefineStep
<1>3. CASE \/ Define(p, "v002", "apply", "record", "v002 definitions")
           \/ Define(p, "v003", "apply", "list", "trigger_json")
           \/ Define(p, "v004", "apply", "record", "project_memories")
           \/ Define(p, "v005", "apply", "list", "available_at")
           \/ Define(p, "v006", "apply", "list", "harness_session_key")
           \/ Define(p, "v007", "apply", "list", "batch_kind")
  <2>1. CASE Define(p, "v002", "apply", "record", "v002 definitions")
    <3>1. /\ "v002 definitions" \notin {"base_url", "platform_connection_id"}
          /\ "v002" \in {"v002", "v004"}
      BY Zenon
    <3>2. QED
      BY Zenon, <1>2, <2>1, <3>1
  <2>2. CASE Define(p, "v003", "apply", "list", "trigger_json")
    BY <1>2, <2>2
  <2>3. CASE Define(p, "v004", "apply", "record", "project_memories")
    BY <1>2, <2>3
  <2>4. CASE Define(p, "v005", "apply", "list", "available_at")
    BY <1>2, <2>4
  <2>5. CASE Define(p, "v006", "apply", "list", "harness_session_key")
    BY <1>2, <2>5
  <2>6. CASE Define(p, "v007", "apply", "list", "batch_kind")
    BY <1>2, <2>6
  <2>7. QED
    BY <1>3, <2>1, <2>2, <2>3, <2>4, <2>5, <2>6
<1>4. CASE ListRows(p, "v003", "fill", Without(data.jobs, "trigger"))
  <2>1. RowsListed("v003", Without(data.jobs, "trigger"), data)
    BY <1>1 DEF RowsListed, Without
  <2>2. QED
    BY Zenon, <1>4, <2>1, ListStep
<1>5. CASE ListRows(p, "v005", "fill", Without(data.jobs, "available"))
  <2>1. RowsListed("v005", Without(data.jobs, "available"), data)
    BY <1>1 DEF RowsListed, Without
  <2>2. QED
    BY Zenon, <1>5, <2>1, ListStep
<1>6. CASE ListRows(p, "v006", "fill", Without(data.metrics, "session"))
  <2>1. RowsListed("v006", Without(data.metrics, "session"), data)
    BY <1>1 DEF RowsListed, Without
  <2>2. QED
    BY Zenon, <1>6, <2>1, ListStep
<1>7. CASE ListRows(p, "v007", "fill", DOMAIN data.jobs)
  <2>1. RowsListed("v007", DOMAIN data.jobs, data)
    <3>1. Defined("v007", data)
      BY Zenon, <1>7 DEF SchemaInv, StarterStands, ListRows
    <3>2. Has(data, "batch_kind")
      BY <3>1 DEF Defined
    <3>3. QED
      BY <1>1, <3>2 DEF RowsListed
  <2>2. QED
    BY Zenon, <1>7, <2>1, ListStep
<1>8. CASE Require(p, "v003") \/ Require(p, "v005") \/ Require(p, "v006")
  BY Zenon, <1>8, RequireStep
<1>9. ASSUME NEW id \in {"v003", "v005"}, NEW field \in {"trigger", "available"},
             id = "v003" => field = "trigger", id = "v005" => field = "available"
      PROVE  Fills(id, [j \in OldJobs |-> [data EXCEPT !.jobs[j] = @ \cup {field}]])
  <2>1. ASSUME NEW j \in OldJobs
        PROVE  LET e == [data EXCEPT !.jobs[j] = @ \cup {field}] IN Quiet(data, e) /\ field \in e.jobs[j]
    BY Zenon, <1>1, JobFilled
  <2>2. PICK changed : changed = [j \in OldJobs |-> [data EXCEPT !.jobs[j] = @ \cup {field}]]
    OBVIOUS
  <2>3. \A j \in OldJobs : Quiet(data, changed[j]) /\ field \in changed[j].jobs[j]
    BY Zenon, <2>1, <2>2
  <2>4. Fills(id, changed)
    BY <1>9, <2>3 DEF Fills
  <2>5. QED
    BY Zenon, <2>2, <2>4
<1>10. CASE FillTrigger(p)
  <2>1. Fills("v003", [j \in OldJobs |-> [data EXCEPT !.jobs[j] = @ \cup {"trigger"}]])
    BY <1>9
  <2>2. QED
    BY Zenon, <1>10, <2>1, FillStep DEF FillTrigger
<1>11. CASE FillAvailable(p)
  <2>1. Fills("v005", [j \in OldJobs |-> [data EXCEPT !.jobs[j] = @ \cup {"available"}]])
    BY <1>9
  <2>2. QED
    BY Zenon, <1>11, <2>1, FillStep DEF FillAvailable
<1>12. CASE FillMetrics(p)
  <2>1. PICK changed : changed = [m \in OldMetrics |-> [data EXCEPT !.metrics[m] = {"session"}]]
    OBVIOUS
  <2>2. ASSUME NEW m \in OldMetrics
        PROVE  LET e == [data EXCEPT !.metrics[m] = {"session"}] IN Quiet(data, e) /\ "session" \in e.metrics[m]
    BY Zenon, <1>1, MetricFilled
  <2>3. \A m \in OldMetrics : Quiet(data, changed[m]) /\ "session" \in changed[m].metrics[m]
    BY Zenon, <2>1, <2>2
  <2>4. Fills("v006", changed)
    BY <2>3 DEF Fills
  <2>5. QED
    BY Zenon, <1>12, <2>1, <2>4, FillStep DEF FillMetrics
<1>13. CASE FillRequests(p)
  <2>1. PICK changed : changed = [j \in OldJobs |-> [data EXCEPT !.requests = @ \cup {j}]]
    OBVIOUS
  <2>2. ASSUME NEW j \in OldJobs
        PROVE  LET e == [data EXCEPT !.requests = @ \cup {j}] IN Quiet(data, e) /\ j \in e.requests
    BY Zenon, <1>1, RequestFilled
  <2>3. \A j \in OldJobs : Quiet(data, changed[j]) /\ j \in changed[j].requests
    BY Zenon, <2>1, <2>2
  <2>4. Fills("v007", changed)
    BY <2>3 DEF Fills
  <2>5. QED
    BY Zenon, <1>13, <2>1, <2>4, FillStep DEF FillRequests
<1>14. QED
  BY Zenon, <1>3, <1>4, <1>5, <1>6, <1>7, <1>8, <1>10, <1>11, <1>12, <1>13
     DEF FlotiqStep, V002, V003, V004, V005, V006, V007

LEMMA ProcessSteps ==
  ASSUME SchemaInv, NEW p \in Starters, Launch(p) \/ Die(p) \/ Ready(p)
  PROVE  SchemaInv'
<1>1. /\ data' = data /\ adapter' = adapter /\ recorded' = recorded /\ repeated' = repeated
  BY DEF Launch, Die, Ready
<1>2. StarterShape /\ DataHolds(data) /\ SqliteHolds /\ recorded \subseteq recorded'
  BY <1>1 DEF SchemaInv
<1>3. Quiet(data, data')
  BY Zenon, <1>1, <1>2, QuietSame
<1>4. SqliteHolds'
  BY Zenon, <1>1, <1>2, <1>3, SqliteStays
<1>5. /\ DataHolds(data') /\ Lasting /\ \A i \in recorded' : i \in recorded
      /\ adapter = "flotiq" => "s08" \notin recorded'
  BY Zenon, <1>1, <1>3, GrowthLasts DEF Quiet, SchemaInv
<1>6. ASSUME NEW st \in {"down", "apply"}, NEW kn, Placed(p, st, kn, {}), kn \subseteq recorded
      PROVE  SchemaInv'
  <2>1. /\ st \notin {"record", "require"} /\ st # "list" /\ st # "fill" /\ st # "ready"
        /\ kn \subseteq recorded'
    BY <1>1, <1>6
  <2>2. QED
    BY Zenon, <1>1, <1>2, <1>4, <1>5, <1>6, <2>1, SchemaMoves
<1>7. CASE Launch(p)
  <2>1. starter' = [starter EXCEPT ![p] = [step |-> "apply", known |-> recorded, pending |-> {}]]
    BY Zenon, <1>7 DEF Launch
  <2>2. Placed(p, "apply", recorded, {})
    BY Zenon, <1>2, <2>1, Places
  <2>3. QED
    BY <1>6, <2>2
<1>8. CASE Die(p)
  <2>1. starter' = [starter EXCEPT ![p] = [step |-> "down", known |-> {}, pending |-> {}]]
    BY Zenon, <1>8 DEF Die, Fails, Down
  <2>2. Placed(p, "down", {}, {})
    BY Zenon, <1>2, <2>1, Places
  <2>3. QED
    BY <1>6, <2>2
<1>9. CASE Ready(p)
  <2>1. PICK kn : kn = starter[p].known
    OBVIOUS
  <2>2. PICK st : st = "ready"
    OBVIOUS
  <2>3. starter' = [starter EXCEPT ![p].step = st, ![p].pending = {}]
    BY <1>9, <2>2 DEF Ready, To
  <2>4. Placed(p, st, kn, {})
    BY Zenon, <1>2, <2>1, <2>3, Places
  <2>5. FirstOutside(kn) = "none"
    BY Zenon, <1>9, <2>1, CurrentIs DEF Ready
  <2>6. adapter \in {"sqlite", "flotiq"} /\ kn \subseteq recorded
    BY <2>1 DEF SchemaInv, StarterStands
  <2>7. \A i \in DOMAIN Order : Order[i] \in kn
    BY Zenon, <2>5, <2>6, NoneIsAll
  <2>8. /\ \A i \in DOMAIN Order : Order[i] \in recorded'
        /\ st \notin {"record", "require"} /\ st # "list" /\ st # "fill" /\ kn \subseteq recorded'
    BY <1>1, <2>2, <2>6, <2>7
  <2>9. QED
    BY Zenon, <1>1, <1>2, <1>4, <1>5, <2>4, <2>8, SchemaMoves
<1>10. QED
  BY <1>7, <1>8, <1>9

LEMMA SchemaStarts == SchemaInit => SchemaInv
<1>1. SUFFICES ASSUME SchemaInit PROVE SchemaInv
  OBVIOUS
<1>2. PICK secrets \in [OldTenants -> {"a", "b", "malformed"}] :
        data = [columns |-> IF adapter = "sqlite" THEN {"base_url", "project_id", "merge_request_iid", "note_id"}
                            ELSE {"interaction_job"},
                tenants |-> [t \in OldTenants |-> Tenant0(secrets[t])], connections |-> {},
                jobs |-> [j \in OldJobs |-> {}], metrics |-> [m \in OldMetrics |-> {}], requests |-> {}]
  BY Zenon, <1>1 DEF SchemaInit
<1>3. PICK C : C = IF adapter = "sqlite" THEN {"base_url", "project_id", "merge_request_iid", "note_id"}
                   ELSE {"interaction_job"}
  OBVIOUS
<1>4. PICK T : T = [t \in OldTenants |-> Tenant0(secrets[t])]
  OBVIOUS
<1>5. PICK J : J = [j \in OldJobs |-> {}]
  OBVIOUS
<1>6. PICK M : M = [m \in OldMetrics |-> {}]
  OBVIOUS
<1>7. data = [columns |-> C, tenants |-> T, connections |-> {}, jobs |-> J, metrics |-> M, requests |-> {}]
  BY Zenon, <1>2, <1>3, <1>4, <1>5, <1>6
<1>8. /\ data.columns = C /\ data.tenants = T /\ data.connections = {}
      /\ data.jobs = J /\ data.metrics = M /\ data.requests = {}
  BY <1>7
<1>9. DataShape(data)
  <2>1. J \in [OldJobs -> SUBSET {"trigger", "available"}] /\ M \in [OldMetrics -> SUBSET {"session"}]
    BY <1>5, <1>6
  <2>2. DOMAIN T = OldTenants
    BY <1>4
  <2>3. QED
    BY <1>7, <1>8, <2>1, <2>2 DEF DataShape
<1>10. TenantShape(data)
  <2>1. PICK yes : yes = TRUE
    OBVIOUS
  <2>2. PICK no : no = FALSE
    OBVIOUS
  <2>3. ASSUME NEW t \in OldTenants
        PROVE  T[t] = [secret |-> secrets[t], columns |-> yes, json |-> no, connection |-> "none"]
    BY Zenon, <1>4, <2>1, <2>2 DEF Tenant0
  <2>4. QED
    BY <1>8, <2>3 DEF TenantShape
<1>11. /\ "base_url" \in C <=> adapter = "sqlite"
       /\ adapter = "sqlite" => "note_id" \in C
       /\ {"trigger_json", "available_at", "harness_session_key", "platform_connection_id"} \cap C = {}
  BY <1>3
<1>12. DataHolds(data)
  <2>1. \A j \in OldJobs : "available" \notin data.jobs[j]
    BY <1>5, <1>8
  <2>2. QED
    BY <1>8, <1>9, <1>10, <1>11, <2>1 DEF DataHolds, ColumnsTell, Has
<1>13. SqliteHolds
  BY <1>8, <1>11 DEF SqliteHolds, Has
<1>14. adapter \in {"sqlite", "flotiq"} /\ recorded = {} /\ starter = [p \in Starters |-> Down]
  BY <1>1 DEF SchemaInit
<1>15. StarterShape
  BY <1>14 DEF StarterShape, Down
<1>16. \A p \in Starters : StarterStands(p)
  BY <1>14 DEF StarterStands, Down
<1>17. QED
  BY Zenon, <1>12, <1>13, <1>14, <1>15, <1>16 DEF SchemaInv

LEMMA SchemaNextKeeps == SchemaInv /\ [SchemaNext]_schemaVars => SchemaInv'
<1>1. SUFFICES ASSUME SchemaInv, [SchemaNext]_schemaVars PROVE SchemaInv'
  OBVIOUS
<1>2. CASE UNCHANGED schemaVars
  <2>1. /\ data' = data /\ adapter' = adapter /\ recorded' = recorded /\ repeated' = repeated
        /\ starter' = starter
    BY <1>2 DEF schemaVars
  <2>2. /\ SqliteHolds' <=> SqliteHolds
        /\ StarterShape' <=> StarterShape
    BY Zenon, <2>1 DEF SqliteHolds, StarterShape, Has, JoinedUp
  <2>3. DataHolds(data)' <=> DataHolds(data)
    BY Zenon, <2>1 DEF DataHolds, DataShape, TenantShape, ColumnsTell, Has, Applied
  <2>4. Order' = Order
    BY Zenon, <2>1 DEF Order
  <2>5. ASSUME NEW p PROVE Current(p)' = Current(p)
    <3>1. Pending(p)' = Pending(p)
      BY Zenon, <2>1, <2>4 DEF Pending
    <3>2. QED
      BY <2>4, <3>1 DEF Current
  <2>6. \A p : StarterStands(p)' <=> StarterStands(p)
    BY Zenon, <2>1, <2>4, <2>5 DEF StarterStands
  <2>7. QED
    BY Zenon, <1>1, <2>1, <2>2, <2>3, <2>6 DEF SchemaInv
<1>3. ASSUME NEW p \in Starters,
             \/ Launch(p) \/ Die(p) \/ Ready(p) \/ Record(p)
             \/ adapter = "sqlite" /\ SqliteStep(p)
             \/ adapter = "flotiq" /\ FlotiqStep(p)
      PROVE  SchemaInv'
  BY Zenon, <1>1, <1>3, ProcessSteps, RecordStep, SqliteSteps, FlotiqSteps
<1>4. QED
  BY Zenon, <1>1, <1>2, <1>3 DEF SchemaNext

LEMMA EveryOneApplied ==
  ASSUME SchemaInv, NEW p \in Starters, starter[p].step = "ready"
  PROVE  \/ /\ Applied("s09", data, repeated) /\ Applied("s11", data, repeated)
            /\ Applied("s12", data, repeated) /\ Applied("s13", data, repeated)
         \/ /\ Applied("v003", data, repeated) /\ Applied("v005", data, repeated)
            /\ Applied("v006", data, repeated) /\ Applied("v007", data, repeated)
<1>1. \A i \in DOMAIN Order : Applied(Order[i], data, repeated)
  BY Zenon DEF SchemaInv, StarterStands
<1>2. CASE adapter = "sqlite"
  BY <1>1, <1>2, OrderOfMigrations
<1>3. CASE adapter = "flotiq"
  BY <1>1, <1>3, OrderOfMigrations
<1>4. QED
  BY <1>2, <1>3 DEF SchemaInv

LEMMA ReadyIsUpToDate == SchemaInv => RowsAreUpToDate
<1>1. SUFFICES ASSUME SchemaInv, NEW p \in Starters, starter[p].step = "ready"
      PROVE  /\ \A j \in OldJobs : "trigger" \in data.jobs[j] /\ j \in data.requests
             /\ \A m \in OldMetrics : data.metrics[m] = {"session"}
  BY DEF RowsAreUpToDate, Started
<1>2. /\ \A j \in OldJobs : "trigger" \in data.jobs[j]
      /\ OldJobs \subseteq data.requests /\ \A m \in OldMetrics : "session" \in data.metrics[m]
  BY <1>1, EveryOneApplied DEF Applied
<1>3. data.metrics \in [OldMetrics -> SUBSET {"session"}]
  BY <1>1 DEF SchemaInv, DataHolds, DataShape
<1>4. QED
  BY <1>2, <1>3

LEMMA ReadyIsClaimable == SchemaInv /\ repeated \cap {"s09", "s11"} = {} => JobsAreClaimable
<1>1. SUFFICES ASSUME SchemaInv, repeated \cap {"s09", "s11"} = {}, NEW p \in Starters, starter[p].step = "ready"
      PROVE  Has(data, "batch_kind") /\ \A j \in OldJobs : "available" \in data.jobs[j]
  BY DEF JobsAreClaimable, Started
<1>2. "s09" \notin repeated /\ {"s09", "s11"} \cap repeated = {}
  BY <1>1
<1>3. QED
  BY <1>1, <1>2, EveryOneApplied DEF Applied

LEMMA RecordedIsConnected == SchemaInv /\ repeated \cap {"s06", "s08"} = {} => TenantsConnected
<1>1. SUFFICES ASSUME SchemaInv, repeated \cap {"s06", "s08"} = {}, "s08" \in recorded
      PROVE  SharedRightly /\ \A t \in OldTenants : Connected(t)
  BY Zenon DEF TenantsConnected
<1>2. adapter = "sqlite" /\ Applied("s08", data, repeated) /\ SqliteHolds
  BY <1>1 DEF SchemaInv
<1>3. "s06" \notin repeated /\ {"s06", "s08"} \cap repeated = {}
  BY <1>1
<1>4. JoinedUp(data)
  BY Zenon, <1>2, <1>3 DEF SqliteHolds, Applied
<1>5. QED
  BY Zenon, <1>4 DEF JoinedUp, SharedRightly, Connected

\* An old database is brought up to date whole, however many processes start
\* on it at once and wherever they die: a process that is ready finds every
\* job with its trigger, its time and its request, and every metric with its
\* session, and on SQLite every tenant has kept its credentials in a
\* connection.  What a migration takes away that a late process runs on a newer
\* table is named: the times of the jobs and the kinds of their batches, or the
\* connections.
THEOREM OldRowsSurvive == SchemaSpec => []OldDataSurvives
<1>1. SchemaInv => OldDataSurvives
  BY Zenon, ReadyIsUpToDate, ReadyIsClaimable, RecordedIsConnected DEF OldDataSurvives
<1>2. QED
  BY <1>1, SchemaStarts, SchemaNextKeeps, PTL DEF SchemaSpec

-----------------------------------------------------------------------------
(* The types of the migrations *)

Known == {Order[i] : i \in DOMAIN Order}
AtRest == {"down", "apply", "ready"}

\* Only migrations are recorded, and a process is at one of them whenever it is
\* in the middle of a migration.
SchemaTypes ==
  /\ recorded \subseteq Known
  /\ \A p \in Starters : starter[p].step \notin AtRest => Current(p) # "none"

LEMMA NextIsKnown ==
  ASSUME adapter \in {"sqlite", "flotiq"}, NEW p, Current(p) # "none" PROVE Current(p) \in Known
<1>1. PICK known : known = starter[p].known
  OBVIOUS
<1>2. Current(p) = FirstOutside(known)
  BY Zenon, <1>1, CurrentIs
<1>3. PICK n \in DOMAIN Order : FirstOutside(known) = Order[n]
  BY Zenon, <1>2, FirstIsNext
<1>4. QED
  BY <1>2, <1>3 DEF Known

\* The next migration of a process depends on what it knows.
LEMMA NextStays ==
  ASSUME adapter' = adapter, NEW q, starter'[q].known = starter[q].known
  PROVE  Current(q)' = Current(q)
<1>1. Order' = Order
  BY Zenon DEF Order
<1>2. Current(q)' = FirstOutside(starter'[q].known)
  BY <1>1 DEF Current, Pending, FirstOutside, Outside
<1>3. QED
  BY Zenon, <1>2, CurrentIs

LEMMA OthersStayTyped ==
  ASSUME SchemaTypes, adapter' = adapter, NEW p, NEW st, NEW kn, NEW pe, Placed(p, st, kn, pe),
         NEW q \in Starters, q # p, starter'[q].step \notin AtRest
  PROVE  Current(q)' # "none"
<1>1. starter'[q] = starter[q]
  BY Zenon DEF Placed
<1>2. Current(q)' = Current(q)
  BY Zenon, <1>1, NextStays
<1>3. QED
  BY Zenon, <1>1, <1>2 DEF SchemaTypes

\* A process comes to rest, having recorded what was next or nothing.
LEMMA RestTyped ==
  ASSUME SchemaTypes, adapter' = adapter, NEW p \in Starters, NEW st \in AtRest, NEW kn, NEW pe,
         Placed(p, st, kn, pe), recorded' \subseteq Known
  PROVE  SchemaTypes'
<1>1. Known' = Known
  BY Zenon DEF Known, Order
<1>2. starter'[p].step = st
  BY DEF Placed
<1>3. \A q \in Starters : starter'[q].step \notin AtRest => Current(q)' # "none"
  BY Zenon, <1>2, OthersStayTyped
<1>4. QED
  BY Zenon, <1>1, <1>3 DEF SchemaTypes

\* A process goes on with the migration it is at.
LEMMA StepTyped ==
  ASSUME SchemaTypes, adapter' = adapter, recorded' = recorded, NEW p \in Starters, NEW st, NEW pe,
         Placed(p, st, starter[p].known, pe), Current(p) # "none"
  PROVE  SchemaTypes'
<1>1. Known' = Known
  BY Zenon DEF Known, Order
<1>2. PICK kn : kn = starter[p].known
  OBVIOUS
<1>3. Placed(p, st, kn, pe)
  BY Zenon, <1>2
<1>4. starter'[p].known = kn
  BY <1>3 DEF Placed
<1>5. Current(p)' = Current(p)
  BY Zenon, <1>2, <1>4, NextStays
<1>6. \A q \in Starters : starter'[q].step \notin AtRest => Current(q)' # "none"
  BY Zenon, <1>3, <1>5, OthersStayTyped
<1>7. QED
  BY Zenon, <1>1, <1>6 DEF SchemaTypes

LEMMA RecordingTyped ==
  ASSUME SchemaInv, SchemaTypes, NEW p \in Starters, Recording(p), adapter' = adapter, Current(p) # "none"
  PROVE  SchemaTypes'
<1>1. StarterShape /\ recorded \subseteq Known /\ adapter \in {"sqlite", "flotiq"}
  BY DEF SchemaInv, SchemaTypes
<1>2. CASE Current(p) \in recorded
  <2>1. starter' = [starter EXCEPT ![p] = [step |-> "down", known |-> {}, pending |-> {}]] /\ recorded' = recorded
    BY Zenon, <1>2 DEF Recording, Fails, Down
  <2>2. PICK st \in AtRest : st = "down"
    BY DEF AtRest
  <2>3. Placed(p, st, {}, {})
    BY Zenon, <1>1, <2>1, <2>2, Places
  <2>4. recorded' \subseteq Known
    BY <1>1, <2>1
  <2>5. QED
    BY Zenon, <2>3, <2>4, RestTyped
<1>3. CASE Current(p) \notin recorded
  <2>1. PICK kn : kn = starter[p].known \cup {Current(p)}
    OBVIOUS
  <2>2. recorded' = recorded \cup {Current(p)}
    BY Zenon, <1>3 DEF Recording
  <2>3. PICK st \in AtRest : st = "apply"
    BY DEF AtRest
  <2>4. starter' = [starter EXCEPT ![p].step = st, ![p].known = kn, ![p].pending = {}]
    BY <1>3, <2>1, <2>3 DEF Recording
  <2>5. Placed(p, st, kn, {})
    BY Zenon, <1>1, <2>4, Places
  <2>6. Current(p) \in Known
    BY Zenon, <1>1, NextIsKnown
  <2>7. recorded' \subseteq Known
    BY <1>1, <2>2, <2>6
  <2>8. QED
    BY Zenon, <2>5, <2>7, RestTyped
<1>4. QED
  BY <1>2, <1>3

LEMMA CommitTyped ==
  ASSUME SchemaInv, SchemaTypes, NEW p \in Starters, NEW id, id # "none", NEW from, NEW to, NEW d,
         Commit(p, id, from, to, d)
  PROVE  SchemaTypes'
<1>1. StarterShape
  BY DEF SchemaInv
<1>2. /\ adapter' = adapter /\ recorded' = recorded /\ Current(p) # "none"
      /\ starter' = [starter EXCEPT ![p].step = to, ![p].pending = {}]
  BY Zenon DEF Commit, To
<1>3. Placed(p, to, starter[p].known, {})
  BY Zenon, <1>1, <1>2, Places
<1>4. QED
  BY Zenon, <1>2, <1>3, StepTyped

LEMMA TransactionTyped ==
  ASSUME SchemaInv, SchemaTypes, NEW p \in Starters, NEW id, id # "none", NEW d, Transaction(p, id, d)
  PROVE  SchemaTypes'
BY Zenon, RecordingTyped DEF Transaction

LEMMA ListTyped ==
  ASSUME SchemaInv, SchemaTypes, NEW p \in Starters, NEW id, id # "none", NEW to, NEW rows,
         ListRows(p, id, to, rows)
  PROVE  SchemaTypes'
<1>1. StarterShape
  BY DEF SchemaInv
<1>2. /\ adapter' = adapter /\ recorded' = recorded /\ Current(p) # "none"
      /\ starter' = [starter EXCEPT ![p].step = to, ![p].pending = rows]
  BY Zenon DEF ListRows
<1>3. Placed(p, to, starter[p].known, rows)
  BY Zenon, <1>1, <1>2, Places
<1>4. QED
  BY Zenon, <1>2, <1>3, StepTyped

LEMMA FillTyped ==
  ASSUME SchemaInv, SchemaTypes, NEW p \in Starters, NEW id, id # "none", NEW to, NEW changed,
         Backfill(p, id, to, changed)
  PROVE  SchemaTypes'
<1>1. StarterShape
  BY DEF SchemaInv
<1>2. adapter' = adapter /\ recorded' = recorded /\ Current(p) # "none"
  BY Zenon DEF Backfill
<1>3. \/ starter' = [starter EXCEPT ![p].step = to, ![p].pending = {}]
      \/ \E r : starter' = [starter EXCEPT ![p].pending = @ \ {r}]
  BY Zenon DEF Backfill, To
<1>4. CASE starter' = [starter EXCEPT ![p].step = to, ![p].pending = {}]
  <2>1. Placed(p, to, starter[p].known, {})
    BY Zenon, <1>1, <1>4, Places
  <2>2. QED
    BY Zenon, <1>2, <2>1, StepTyped
<1>5. ASSUME NEW r, starter' = [starter EXCEPT ![p].pending = @ \ {r}] PROVE SchemaTypes'
  <2>1. PICK pe : pe = starter[p].pending \ {r}
    OBVIOUS
  <2>2. starter' = [starter EXCEPT ![p].pending = pe]
    BY <1>1, <1>5, <2>1 DEF StarterShape
  <2>3. Placed(p, starter[p].step, starter[p].known, pe)
    BY Zenon, <1>1, <2>2, Places
  <2>4. QED
    BY Zenon, <1>2, <2>3, StepTyped
<1>6. QED
  BY Zenon, <1>3, <1>4, <1>5

LEMMA ProcessTyped ==
  ASSUME SchemaInv, SchemaTypes, NEW p \in Starters, Launch(p) \/ Die(p) \/ Ready(p)
  PROVE  SchemaTypes'
<1>1. adapter' = adapter /\ recorded' = recorded
  BY Zenon DEF Launch, Die, Ready
<1>2. StarterShape /\ recorded' \subseteq Known
  BY Zenon, <1>1 DEF SchemaInv, SchemaTypes
<1>3. \E st \in AtRest : \E kn : Placed(p, st, kn, {})
  <2>1. CASE Launch(p)
    <3>1. PICK st \in AtRest : st = "apply"
      BY DEF AtRest
    <3>2. starter' = [starter EXCEPT ![p] = [step |-> st, known |-> recorded, pending |-> {}]]
      BY Zenon, <2>1, <3>1 DEF Launch
    <3>3. Placed(p, st, recorded, {})
      BY Zenon, <1>2, <3>2, Places
    <3>4. QED
      BY Zenon, <3>3
  <2>2. CASE Die(p)
    <3>1. PICK st \in AtRest : st = "down"
      BY DEF AtRest
    <3>2. starter' = [starter EXCEPT ![p] = [step |-> st, known |-> {}, pending |-> {}]]
      BY Zenon, <2>2, <3>1 DEF Die, Fails, Down
    <3>3. Placed(p, st, {}, {})
      BY Zenon, <1>2, <3>2, Places
    <3>4. QED
      BY Zenon, <3>3
  <2>3. CASE Ready(p)
    <3>1. PICK st \in AtRest : st = "ready"
      BY DEF AtRest
    <3>2. starter' = [starter EXCEPT ![p].step = st, ![p].pending = {}]
      BY Zenon, <2>3, <3>1 DEF Ready, To
    <3>3. Placed(p, st, starter[p].known, {})
      BY Zenon, <1>2, <3>2, Places
    <3>4. QED
      BY Zenon, <3>3
  <2>4. QED
    BY <2>1, <2>2, <2>3
<1>4. QED
  BY Zenon, <1>1, <1>2, <1>3, RestTyped

LEMMA GoneTyped ==
  ASSUME SchemaInv, SchemaTypes, NEW p \in Starters, NEW id, NEW at, ColumnGone(p, id, at)
  PROVE  SchemaTypes'
<1>1. adapter' = adapter /\ StarterShape /\ recorded' \subseteq Known
  BY Zenon DEF ColumnGone, SchemaInv, SchemaTypes
<1>2. PICK st \in AtRest : st = "down"
  BY DEF AtRest
<1>3. starter' = [starter EXCEPT ![p] = [step |-> st, known |-> {}, pending |-> {}]]
  BY Zenon, <1>2 DEF ColumnGone, Fails, Down
<1>4. Placed(p, st, {}, {})
  BY Zenon, <1>1, <1>3, Places
<1>5. QED
  BY Zenon, <1>1, <1>4, RestTyped

LEMMA MigrationTyped ==
  ASSUME SchemaInv, SchemaTypes, NEW p \in Starters, SqliteStep(p) \/ FlotiqStep(p)
  PROVE  SchemaTypes'
<1>1. /\ "s01" # "none" /\ "s02" # "none" /\ "s03" # "none" /\ "s04" # "none" /\ "s05" # "none"
      /\ "s06" # "none" /\ "s07" # "none" /\ "s08" # "none" /\ "s09" # "none" /\ "s10" # "none"
      /\ "s11" # "none" /\ "s12" # "none" /\ "s13" # "none"
  OBVIOUS
<1>2. /\ "v002" # "none" /\ "v003" # "none" /\ "v004" # "none"
      /\ "v005" # "none" /\ "v006" # "none" /\ "v007" # "none"
  OBVIOUS
<1>3. CASE SqliteStep(p)
  BY Zenon, <1>1, <1>3, CommitTyped, TransactionTyped, GoneTyped
     DEF SqliteStep, Look, Rebuild, UpdateTenants, RebuildMetrics
<1>4. CASE FlotiqStep(p)
  BY Zenon, <1>2, <1>4, CommitTyped, ListTyped, FillTyped
     DEF FlotiqStep, V002, V003, V004, V005, V006, V007, Define, Require, FillTrigger, FillAvailable, FillMetrics, FillRequests
<1>5. QED
  BY <1>3, <1>4

SchemaTyped == SchemaInv /\ SchemaTypes

LEMMA SchemaTypesBegin == SchemaInit => SchemaTyped
<1> SUFFICES ASSUME SchemaInit PROVE SchemaTyped
  OBVIOUS
<1>1. recorded = {} /\ starter = [p \in Starters |-> [step |-> "down", known |-> {}, pending |-> {}]]
  BY DEF SchemaInit, Down
<1>2. SchemaTypes
  BY <1>1 DEF SchemaTypes, AtRest
<1>3. QED
  BY <1>2, SchemaStarts DEF SchemaTyped

LEMMA SchemaTypesStep == SchemaTyped /\ [SchemaNext]_schemaVars => SchemaTyped'
<1> SUFFICES ASSUME SchemaTyped, [SchemaNext]_schemaVars PROVE SchemaTyped'
  OBVIOUS
<1>1. SchemaInv /\ SchemaTypes /\ SchemaInv'
  BY SchemaNextKeeps DEF SchemaTyped
<1>2. CASE UNCHANGED schemaVars
  <2>1. adapter' = adapter /\ recorded' = recorded /\ starter' = starter
    BY <1>2 DEF schemaVars
  <2>2. Known' = Known /\ \A q : Current(q)' = Current(q)
    BY Zenon, <2>1, NextStays DEF Known, Order
  <2>3. QED
    BY Zenon, <1>1, <2>1, <2>2 DEF SchemaTyped, SchemaTypes
<1>3. ASSUME NEW p \in Starters, Record(p) PROVE SchemaTypes'
  <2>1. starter[p].step = "record" /\ Recording(p) /\ adapter' = adapter
    BY <1>3 DEF Record
  <2>2. Current(p) # "none"
    BY <1>1, <2>1 DEF SchemaTypes, AtRest
  <2>3. QED
    BY Zenon, <1>1, <2>1, <2>2, RecordingTyped
<1>4. CASE SchemaNext
  BY Zenon, <1>1, <1>3, <1>4, ProcessTyped, MigrationTyped DEF SchemaNext, SchemaTyped
<1>5. QED
  BY <1>2, <1>4

LEMMA SchemaTypesSuffice == SchemaTyped => SchemaTypeOK
<1> SUFFICES ASSUME SchemaTyped PROVE SchemaTypeOK
  OBVIOUS
<1>1. DataShape(data) /\ recorded \subseteq Known
  BY DEF SchemaTyped, SchemaTypes, SchemaInv, DataHolds
<1>2. DOMAIN data.jobs = OldJobs /\ DOMAIN data.metrics = OldMetrics
  BY <1>1 DEF DataShape
<1>3. QED
  BY Zenon, <1>1, <1>2 DEF DataShape, SchemaTypeOK, Known

=============================================================================
