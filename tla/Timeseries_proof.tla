--------------------------- MODULE Timeseries_proof ---------------------------
(***************************************************************************)
(* Proofs about Timeseries, for any caps, hour, endpoints, gaps, number of *)
(* runs and faults, when the records of a monitor follow one another: no   *)
(* sample is counted twice, none is lost that was recorded but for a record*)
(* that died or a bucket that had to go, and the ring is the newest end of *)
(* the series.                                                             *)
(***************************************************************************)
EXTENDS Timeseries, Ranks, SequenceTheorems, TLAPS

\* The records of one monitor do not overlap: a monitor is claimed by one tick at a time.
OneAtATime == \A v, w \in Writers : v = w

InOrder(R) ==
    \A i, j \in 1 .. Len(R) : i < j =>
        /\ R[i].at <= R[j].at
        /\ R[i].series = R[j].series => (R[i].at < R[j].at /\ R[j].gap \in 1 .. R[j].at - R[i].at)

\* A ring of samples that are no later than t.
GoodRing(R, t) ==
    /\ R \in Seq(Sample)
    /\ InOrder(R)
    /\ \A i \in 1 .. Len(R) : R[i].at <= t

\* A bucket: each of its samples once, in its hour, and no later than t.
GoodBucket(b, k, t) ==
    \A p \in DOMAIN b :
        /\ p \in Sample /\ KeyOf(p) = k /\ p.at <= t /\ b[p] = 1
        /\ \A q \in DOMAIN b : Id(p) = Id(q) => p = q

GoodBuckets(D, t) ==
    /\ DOMAIN D \subseteq Bucket
    /\ IsFiniteSet(DOMAIN D)
    /\ \A k \in DOMAIN D : k[1] <= t /\ GoodBucket(D[k], k, t)

\* What is in the buckets comes before what is in the ring.
Apart(R, D) ==
    \A k \in DOMAIN D, i \in 1 .. Len(R) :
        /\ k[1] <= R[i].at
        /\ \A p \in DOMAIN D[k] :
              p.at <= R[i].at /\ (p.series = R[i].series => p.at < R[i].at)

Store(R, D, t) == GoodRing(R, t) /\ GoodBuckets(D, t) /\ Apart(R, D)

IdsOf(R)    == {Id(R[i]) : i \in 1 .. Len(R)}
IdsIn(D)    == UNION {{Id(p) : p \in DOMAIN D[k]} : k \in DOMAIN D}
Gone(id, D) == /\ Cardinality(DOMAIN D) = RollupCap
               /\ \A k \in DOMAIN D : Earlier(<<HourOf(id[1]), id[2]>>, k)
Safe(id, R, D) == (id \in IdsOf(R) \/ id \in IdsIn(D)) \/ Gone(id, D)

\* A record that has read the store: all that it has seen is older than what it brings.
Ready(w) ==
    /\ now \in Nat /\ batch[w].at = now /\ batch[w].series \subseteq Series
    /\ Store(seenRaw[w], seenRolled[w], now - 1)

Types ==
    /\ now \in Nat
    /\ pc \in [Writers -> {"idle", "readRaw", "readRolled", "putFirst", "putSecond"}]
    /\ DOMAIN batch = Writers /\ DOMAIN seenRaw = Writers /\ DOMAIN seenRolled = Writers

StoreInv ==
    /\ Store(raw, rolled, now)
    /\ Len(raw) <= RawCap /\ Cardinality(DOMAIN rolled) <= RollupCap

RecordedInv ==
    /\ recorded \subseteq Nat \X Series
    /\ \A id \in recorded :
          (Safe(id, raw, rolled) \/ id \in lost)
          \/ \E w \in Writers : pc[w] = "putSecond" /\ id \in IdsOf(Overflow(w))

ProgressInv ==
    \A w \in Writers :
        /\ pc[w] # "idle" => (batch[w].at = now /\ batch[w].series \subseteq Series)
        /\ pc[w] \in {"readRaw", "readRolled", "putFirst"} => Store(raw, rolled, now - 1)
        /\ pc[w] \in {"readRolled", "putFirst"} => seenRaw[w] = raw
        /\ pc[w] \in {"putFirst", "putSecond"} => seenRolled[w] = rolled
        /\ pc[w] = "putSecond" => (Store(seenRaw[w], rolled, now - 1) /\ raw = Ring(w))

IInv == Types /\ StoreInv /\ RecordedInv /\ ProgressInv

-----------------------------------------------------------------------------
(* Hours and buckets                                                         *)

\* An hour starts no later than any of its times.
LEMMA HourStarts ==
    ASSUME NEW t \in Nat
    PROVE  HourOf(t) \in Nat /\ HourOf(t) <= t
  <1>1. Hour \in Nat \ {0} BY TimeseriesAssumption
  <1>2. t % Hour \in Nat /\ t % Hour <= t BY <1>1
  <1> QED BY <1>2 DEF HourOf

\* The key of a sample is a bucket's, no later than the sample.
LEMMA KeyOfSample ==
    ASSUME NEW p \in Sample
    PROVE  /\ p.at \in Nat /\ p.series \in Series /\ p.gap \in Nat
           /\ KeyOf(p) \in Bucket /\ KeyOf(p)[1] <= p.at /\ KeyOf(p)[2] = p.series
           /\ KeyOf(p) = <<HourOf(Id(p)[1]), Id(p)[2]>>
           /\ Id(p) \in Nat \X Series
  <1>1. p.at \in Nat /\ p.series \in Series /\ p.gap \in Nat BY DEF Sample
  <1> QED BY <1>1, HourStarts DEF KeyOf, Bucket, Id

LaterPairs(S) == {e \in S \X S : Earlier(e[2], e[1])}

\* The order of the buckets is a strict one.
LEMMA EarlierOrders ==
    /\ \A a \in Bucket : ~ Earlier(a, a)
    /\ \A a, b, c \in Bucket : (Earlier(a, b) /\ Earlier(b, c)) => Earlier(a, c)
    /\ \A a, b \in Bucket : (Earlier(a, b) \/ Earlier(b, a)) \/ a = b
  <1>1. \A a \in Bucket : a = <<a[1], a[2]>> /\ a[1] \in Int /\ a[2] \in Int
    BY TimeseriesAssumption DEF Bucket, Series
  <1>2. \A a \in Bucket : ~ Earlier(a, a) BY <1>1 DEF Earlier
  <1>3. \A a, b, c \in Bucket : (Earlier(a, b) /\ Earlier(b, c)) => Earlier(a, c)
    BY <1>1 DEF Earlier
  <1>4. \A a, b \in Bucket : (Earlier(a, b) \/ Earlier(b, a)) \/ a = b
    BY <1>1 DEF Earlier
  <1> QED BY <1>2, <1>3, <1>4

\* And so is that of a set of them, the newest first.
LEMMA BucketOrder ==
    ASSUME NEW S, S \subseteq Bucket
    PROVE  StrictlyOrders(LaterPairs(S), S)
  <1>1. \A a \in S : a \in Bucket OBVIOUS
  <1>2. \A a, b \in S : <<a, b>> \in LaterPairs(S) <=> Earlier(b, a)
    BY DEF LaterPairs
  <1> QED BY <1>1, <1>2, EarlierOrders DEF StrictlyOrders

\* What Kept keeps: all the buckets, or RollupCap of them; and one that it drops is older
\* than each that it keeps.
LEMMA KeptAreNewest ==
    ASSUME NEW F, DOMAIN F \subseteq Bucket, IsFiniteSet(DOMAIN F)
    PROVE  /\ Kept(F) \subseteq DOMAIN F /\ IsFiniteSet(Kept(F))
           /\ Cardinality(Kept(F)) = IF Cardinality(DOMAIN F) <= RollupCap
                                     THEN Cardinality(DOMAIN F) ELSE RollupCap
           /\ \A d \in DOMAIN F \ Kept(F) :
                 Cardinality(Kept(F)) = RollupCap /\ \A k \in Kept(F) : Earlier(d, k)
  <1> DEFINE S == DOMAIN F
             L == LaterPairs(S)
  <1>1. StrictlyOrders(L, S) BY BucketOrder
  <1>2. \A k \in S : Preceding(L, S, k) = {l \in S : Earlier(k, l)}
    BY DEF Preceding, LaterPairs
  <1>3. \A k \in S : Rank(L, S, k) = Cardinality({l \in S : Earlier(k, l)})
    BY <1>2 DEF Rank
  <1>4. Kept(F) = {k \in S : Rank(L, S, k) < RollupCap} BY <1>3 DEF Kept
  <1>5. RollupCap \in Nat BY TimeseriesAssumption
  <1>6. \A k, l \in S : Earlier(k, l) <=> <<l, k>> \in L BY DEF LaterPairs
  <1> HIDE DEF L, S
  <1>7. IsFiniteSet(S) BY DEF S
  <1>8. /\ IsFiniteSet(Kept(F))
        /\ Cardinality(Kept(F)) = IF Cardinality(S) <= RollupCap THEN Cardinality(S) ELSE RollupCap
    BY <1>1, <1>4, <1>5, <1>7, FirstOnes
  <1>9. ASSUME NEW d \in S \ Kept(F)
        PROVE  Cardinality(Kept(F)) = RollupCap /\ \A k \in Kept(F) : Earlier(d, k)
    <2>1. Cardinality(S) \in Nat BY <1>7, FS_CardinalityType
    <2>2. Rank(L, S, d) \in 0 .. Cardinality(S) - 1 BY <1>1, <1>7, RankBound
    <2>3. ~ (Rank(L, S, d) < RollupCap) BY <1>4
    <2>4. Cardinality(Kept(F)) = RollupCap BY <1>5, <1>8, <2>1, <2>2, <2>3
    <2>5. ASSUME NEW k \in Kept(F) PROVE Earlier(d, k)
      <3>1. k \in S /\ Rank(L, S, k) < RollupCap BY <1>4
      <3>2. Rank(L, S, k) \in 0 .. Cardinality(S) - 1 BY <1>1, <1>7, <3>1, RankBound
      <3>3. Rank(L, S, k) < Rank(L, S, d) BY <1>5, <2>1, <2>2, <2>3, <3>1, <3>2
      <3>4. <<k, d>> \in L BY <1>1, <1>7, <3>1, <3>3, RankOrders
      <3> QED BY <1>6, <3>1, <3>4
    <2> QED BY <2>4, <2>5
  <1> QED BY <1>4, <1>8, <1>9 DEF S

\* A bucket that has RollupCap others after it is not kept.
LEMMA OldIsDropped ==
    ASSUME NEW F, DOMAIN F \subseteq Bucket, IsFiniteSet(DOMAIN F),
           NEW T, T \subseteq DOMAIN F, Cardinality(T) = RollupCap,
           NEW k \in DOMAIN F, \A l \in T : Earlier(k, l)
    PROVE  k \notin Kept(F)
  <1> DEFINE U == {l \in DOMAIN F : Earlier(k, l)}
  <1>1. U \subseteq DOMAIN F /\ T \in SUBSET U OBVIOUS
  <1>2. k \in Kept(F) <=> Cardinality(U) < RollupCap BY DEF Kept
  <1> HIDE DEF U
  <1>3. IsFiniteSet(U) BY <1>1, FS_Subset
  <1>4. RollupCap <= Cardinality(U) BY <1>1, <1>3, FS_Subset
  <1>5. Cardinality(U) \in Nat /\ RollupCap \in Nat BY <1>3, FS_CardinalityType, TimeseriesAssumption
  <1> QED BY <1>2, <1>4, <1>5

-----------------------------------------------------------------------------
(* The samples of a run                                                      *)

\* The samples of a ring have a time and a series.
LEMMA SampleTimes ==
    ASSUME NEW R, R \in Seq(Sample), NEW i \in 1 .. Len(R)
    PROVE  R[i] \in Sample /\ R[i].at \in Nat /\ R[i].series \in Series /\ R[i].gap \in Nat
  <1>1. R[i] \in Sample OBVIOUS
  <1> QED BY <1>1 DEF Sample

\* The gap of a sample that is newer than the ring reaches back to the newest of its series.
LEMMA GapIsToTheNewest ==
    ASSUME NEW R \in Seq(Sample), NEW t \in Nat, NEW s,
           \A i \in 1 .. Len(R) : R[i].at < t
    PROVE  /\ GapTo(R, s, t) \in Nat
           /\ \A i \in 1 .. Len(R) : R[i].series = s => GapTo(R, s, t) \in 1 .. t - R[i].at
  <1> DEFINE E == {R[i].at : i \in {j \in 1 .. Len(R) : R[j].series = s}}
  <1>1. \A i \in 1 .. Len(R) : R[i].at \in Nat BY SampleTimes
  <1>2. E \subseteq Nat /\ \A e \in E : e < t BY <1>1
  <1>3. \A i \in 1 .. Len(R) : R[i].series = s => R[i].at \in E OBVIOUS
  <1>4. GapTo(R, s, t) = IF E = {} THEN 0 ELSE Max({0, t - Max(E)}) BY DEF GapTo
  <1> HIDE DEF E
  <1>5. CASE E = {}
    <2>1. GapTo(R, s, t) = 0 BY <1>4, <1>5
    <2>2. \A i \in 1 .. Len(R) : R[i].series # s BY <1>3, <1>5
    <2> QED BY <2>1, <2>2
  <1>6. CASE E # {}
    <2> DEFINE m == Max(E)
    <2>1. \E x \in E : \A y \in E : y <= x
      <3>1. \A y \in E : y <= t BY <1>2
      <3> QED BY <1>2, <1>6, <3>1, GreatestExists
    <2>2. \E x \in E : \A y \in E : x >= y
      <3>1. PICK x \in E : \A y \in E : y <= x BY <2>1
      <3>2. \A y \in E : x >= y BY <1>2, <3>1
      <3> QED BY <3>2
    <2>3. m \in E /\ \A y \in E : m >= y BY <2>2 DEF Max
    <2> HIDE DEF m
    <2>4. m \in Nat /\ m < t BY <1>2, <2>3
    <2>5. Max({0, t - m}) = t - m
      <3> DEFINE Z == {0, t - m}
      <3>1. \A x \in Z : (\A y \in Z : x >= y) <=> x = t - m BY <2>4
      <3>2. t - m \in Z OBVIOUS
      <3> HIDE DEF Z
      <3>3. Max(Z) = t - m BY <3>1, <3>2 DEF Max
      <3> QED BY <3>3 DEF Z
    <2>6. GapTo(R, s, t) = t - m BY <1>4, <1>6, <2>5 DEF m
    <2>7. ASSUME NEW i \in 1 .. Len(R), R[i].series = s
          PROVE  t - m \in 1 .. t - R[i].at
      <3>1. R[i].at \in E /\ R[i].at \in Nat BY <1>1, <1>3, <2>7
      <3>2. m >= R[i].at BY <2>3, <3>1
      <3> QED BY <2>4, <3>1, <3>2
    <2> QED BY <2>4, <2>6, <2>7
  <1> QED BY <1>5, <1>6

\* The samples that a record brings: one of each series of its run, in the order of the
\* series, all of now, each with the gap to what the ring holds of its series.
LEMMA SamplesOfRun ==
    ASSUME NEW w, Ready(w)
    PROVE  /\ Samples(w) \in Seq(Sample)
           /\ \A i \in 1 .. Len(Samples(w)) :
                 /\ Samples(w)[i].at = now
                 /\ \A j \in 1 .. Len(seenRaw[w]) :
                       seenRaw[w][j].series = Samples(w)[i].series =>
                           Samples(w)[i].gap \in 1 .. now - seenRaw[w][j].at
           /\ \A i, j \in 1 .. Len(Samples(w)) : i < j => Samples(w)[i].series # Samples(w)[j].series
           /\ IdsOf(Samples(w)) = {<<now, s>> : s \in batch[w].series}
  <1> DEFINE B == batch[w].series
             n == Cardinality(B)
             R == seenRaw[w]
             L == LessPairs(B)
             Nth(i) == Placed(L, B, i)
  <1>1. B \subseteq Series /\ now \in Nat /\ batch[w].at = now /\ R \in Seq(Sample)
        /\ \A j \in 1 .. Len(R) : R[j].at <= now - 1
    BY DEF Ready, Store, GoodRing
  <1>2. \A j \in 1 .. Len(R) : R[j].at < now
    <2>1. \A j \in 1 .. Len(R) : R[j].at \in Nat BY <1>1, SampleTimes
    <2> QED BY <1>1, <2>1
  <1>3. B \subseteq Nat /\ IsFiniteSet(B)
    <2>1. Endpoints \in Nat BY TimeseriesAssumption
    <2>2. IsFiniteSet(Series) /\ Series \subseteq Nat BY <2>1, FS_Interval DEF Series
    <2> QED BY <1>1, <2>2, FS_Subset
  <1>4. Samples(w) = [i \in 1 .. n |-> [at |-> now, series |-> Nth(i), gap |-> GapTo(R, Nth(i), now)]]
    <2>1. \A i : Nth(i) = CHOOSE s \in B : Cardinality({o \in B : o < s}) = i - 1
      BY <1>3, NumbersCountedOff
    <2> HIDE DEF Nth
    <2> QED BY <1>1, <2>1 DEF Samples
  <1> HIDE DEF n, L, Nth
  <1>5. /\ n \in Nat
        /\ \A i \in 1 .. n : Nth(i) \in B
        /\ \A i, j \in 1 .. n : i < j => Nth(i) < Nth(j)
        /\ \A s \in B : \E i \in 1 .. n : s = Nth(i)
    <2>1. StrictlyOrders(L, B) BY <1>3, NumbersCountedOff DEF L
    <2>2. IsFiniteSet(B) BY <1>3
    <2>3. /\ Cardinality(B) \in Nat
          /\ \A i \in 1 .. Cardinality(B) : Nth(i) \in B
          /\ \A i, j \in 1 .. Cardinality(B) : i < j => <<Nth(i), Nth(j)>> \in L
          /\ \A s \in B : \E i \in 1 .. Cardinality(B) : s = Nth(i)
      <3> HIDE DEF B
      <3> QED BY <2>1, <2>2, CountedOff DEF Nth
    <2>4. \A a, b : <<a, b>> \in L => a < b BY DEF L, LessPairs
    <2> QED BY <2>3, <2>4 DEF n
  <1> HIDE DEF B, R
  <1>6. \A s : /\ GapTo(R, s, now) \in Nat
               /\ \A i \in 1 .. Len(R) : R[i].series = s => GapTo(R, s, now) \in 1 .. now - R[i].at
    BY <1>1, <1>2, GapIsToTheNewest
  <1> DEFINE smp(i) == [at |-> now, series |-> Nth(i), gap |-> GapTo(R, Nth(i), now)]
  <1>7. \A i \in 1 .. n : smp(i) \in Sample BY <1>1, <1>5, <1>6 DEF Sample
  <1>8. \A i \in 1 .. n : /\ smp(i).at = now /\ smp(i).series = Nth(i)
                          /\ smp(i).gap = GapTo(R, Nth(i), now)
                          /\ Id(smp(i)) = <<now, Nth(i)>>
    BY DEF Id
  <1>9. Samples(w) = [i \in 1 .. n |-> smp(i)] BY <1>4
  <1> HIDE DEF smp
  <1>10. Samples(w) \in Seq(Sample) /\ Len(Samples(w)) = n
         /\ \A i \in 1 .. n : Samples(w)[i] = smp(i)
    BY <1>5, <1>7, <1>9
  <1> HIDE DEF Samples
  <1>11. ASSUME NEW i \in 1 .. n, NEW j \in 1 .. n, i < j
         PROVE  Samples(w)[i].series # Samples(w)[j].series
    <2>1. Nth(i) < Nth(j) BY <1>5, <1>11
    <2>2. Nth(i) \in Nat /\ Nth(j) \in Nat BY <1>3, <1>5 DEF B
    <2> QED BY <1>8, <1>10, <2>1, <2>2
  <1>12. IdsOf(Samples(w)) = {<<now, s>> : s \in B}
    <2>1. IdsOf(Samples(w)) = {<<now, Nth(i)>> : i \in 1 .. n} BY <1>8, <1>10 DEF IdsOf
    <2> QED BY <1>5, <2>1
  <1>13. ASSUME NEW i \in 1 .. n
         PROVE  /\ Samples(w)[i].at = now
                /\ \A j \in 1 .. Len(R) : R[j].series = Samples(w)[i].series =>
                       Samples(w)[i].gap \in 1 .. now - R[j].at
    BY <1>6, <1>8, <1>10
  <1> QED BY <1>10, <1>11, <1>12, <1>13 DEF R, B

-----------------------------------------------------------------------------
(* The ring and the buckets of a record                                      *)

\* The ring with the samples of the run after it.
LEMMA AppendedIsGood ==
    ASSUME NEW w, Ready(w)
    PROVE  /\ GoodRing(Appended(w), now) /\ Apart(Appended(w), seenRolled[w])
           /\ IdsOf(Appended(w)) = IdsOf(seenRaw[w]) \cup {<<now, s>> : s \in batch[w].series}
  <1> DEFINE R == seenRaw[w]
             Q == Samples(w)
             A == Appended(w)
             D == seenRolled[w]
  <1>1. /\ now \in Nat /\ R \in Seq(Sample) /\ InOrder(R) /\ GoodBuckets(D, now - 1) /\ Apart(R, D)
        /\ \A i \in 1 .. Len(R) : R[i].at <= now - 1
    BY DEF Ready, Store, GoodRing
  <1>2. /\ Q \in Seq(Sample)
        /\ \A i \in 1 .. Len(Q) :
              /\ Q[i].at = now
              /\ \A j \in 1 .. Len(R) : R[j].series = Q[i].series => Q[i].gap \in 1 .. now - R[j].at
        /\ \A i, j \in 1 .. Len(Q) : i < j => Q[i].series # Q[j].series
        /\ IdsOf(Q) = {<<now, s>> : s \in batch[w].series}
    BY SamplesOfRun
  <1>3. A = R \o Q BY DEF Appended
  <1> HIDE DEF R, Q, A, D
  <1>4. /\ A \in Seq(Sample) /\ Len(A) = Len(R) + Len(Q)
        /\ \A i \in 1 .. Len(R) : A[i] = R[i]
        /\ \A i \in 1 .. Len(Q) : A[Len(R) + i] = Q[i]
    BY <1>1, <1>2, <1>3, ConcatProperties
  <1>5. Len(R) \in Nat /\ Len(Q) \in Nat BY <1>1, <1>2
  <1>6. \A i \in 1 .. Len(A) :
           \/ i \in 1 .. Len(R) /\ A[i] = R[i]
           \/ i - Len(R) \in 1 .. Len(Q) /\ A[i] = Q[i - Len(R)] /\ ~ (i <= Len(R))
    <2> TAKE i \in 1 .. Len(A)
    <2>1. CASE i <= Len(R) BY <1>4, <1>5, <2>1
    <2>2. CASE ~ (i <= Len(R))
      <3>1. i - Len(R) \in 1 .. Len(Q) /\ Len(R) + (i - Len(R)) = i BY <1>4, <1>5, <2>2
      <3> QED BY <1>4, <2>2, <3>1
    <2> QED BY <2>1, <2>2
  <1>7. \A i \in 1 .. Len(R) : R[i].at \in Nat /\ R[i].at < now
    <2>1. \A i \in 1 .. Len(R) : R[i].at \in Nat BY <1>1, SampleTimes
    <2> QED BY <1>1, <2>1
  <1>8. \A i \in 1 .. Len(A) : A[i].at <= now
    <2> TAKE i \in 1 .. Len(A)
    <2>1. CASE i \in 1 .. Len(R) /\ A[i] = R[i]
      <3>1. A[i].at \in Nat /\ A[i].at < now BY <1>7, <2>1
      <3> QED BY <1>1, <3>1
    <2>2. CASE i - Len(R) \in 1 .. Len(Q) /\ A[i] = Q[i - Len(R)]
      <3>1. A[i].at = now BY <1>2, <2>2
      <3> QED BY <1>1, <3>1
    <2> QED BY <1>6, <2>1, <2>2
  <1>9. InOrder(A)
    <2> SUFFICES ASSUME NEW i \in 1 .. Len(A), NEW j \in 1 .. Len(A), i < j
                 PROVE  /\ A[i].at <= A[j].at
                        /\ A[i].series = A[j].series =>
                              (A[i].at < A[j].at /\ A[j].gap \in 1 .. A[j].at - A[i].at)
      BY DEF InOrder
    <2>1. CASE i \in 1 .. Len(R) /\ A[i] = R[i] /\ j \in 1 .. Len(R) /\ A[j] = R[j]
      BY <1>1, <2>1 DEF InOrder
    <2>2. CASE i \in 1 .. Len(R) /\ A[i] = R[i] /\ j - Len(R) \in 1 .. Len(Q) /\ A[j] = Q[j - Len(R)]
      <3> DEFINE l == j - Len(R)
      <3>1. A[j] = Q[l] /\ l \in 1 .. Len(Q) BY <2>2
      <3> HIDE DEF l
      <3>2. A[j].at = now /\ A[i].at < now /\ A[i].at \in Nat BY <1>2, <1>7, <2>2, <3>1
      <3>3. A[i].series = A[j].series => A[j].gap \in 1 .. now - A[i].at BY <1>2, <2>2, <3>1
      <3> QED BY <1>1, <3>2, <3>3
    <2>3. CASE i - Len(R) \in 1 .. Len(Q) /\ A[i] = Q[i - Len(R)] /\ j - Len(R) \in 1 .. Len(Q) /\ A[j] = Q[j - Len(R)]
      <3> DEFINE k == i - Len(R)
                 l == j - Len(R)
      <3>1. A[i] = Q[k] /\ k \in 1 .. Len(Q) /\ A[j] = Q[l] /\ l \in 1 .. Len(Q) BY <2>3
      <3>2. k < l BY <1>4, <1>5
      <3> HIDE DEF k, l
      <3>3. A[i].series # A[j].series BY <1>2, <3>1, <3>2
      <3>4. A[i].at = now /\ A[j].at = now BY <1>2, <3>1
      <3> QED BY <1>1, <3>3, <3>4
    <2>4. ~ (i - Len(R) \in 1 .. Len(Q) /\ j \in 1 .. Len(R)) BY <1>4, <1>5
    <2> QED BY <1>6, <2>1, <2>2, <2>3, <2>4
  <1>10. Apart(A, D)
    <2> SUFFICES ASSUME NEW k \in DOMAIN D, NEW i \in 1 .. Len(A)
                 PROVE  /\ k[1] <= A[i].at
                        /\ \A p \in DOMAIN D[k] :
                              p.at <= A[i].at /\ (p.series = A[i].series => p.at < A[i].at)
      BY DEF Apart
    <2>1. CASE i \in 1 .. Len(R) /\ A[i] = R[i] BY <1>1, <2>1 DEF Apart
    <2>2. CASE i - Len(R) \in 1 .. Len(Q) /\ A[i] = Q[i - Len(R)]
      <3>1. A[i].at = now BY <1>2, <2>2
      <3>2. k[1] <= now - 1 /\ k[1] \in Nat BY <1>1 DEF GoodBuckets, Bucket
      <3>3. \A p \in DOMAIN D[k] : p.at \in Nat /\ p.at <= now - 1
        BY <1>1 DEF GoodBuckets, GoodBucket, Sample
      <3> QED BY <1>1, <3>1, <3>2, <3>3
    <2> QED BY <1>6, <2>1, <2>2
  <1>11. IdsOf(A) = IdsOf(R) \cup IdsOf(Q)
    <2>1. \A i \in 1 .. Len(R) : i \in 1 .. Len(A) BY <1>4, <1>5
    <2>2. \A i \in 1 .. Len(Q) : Len(R) + i \in 1 .. Len(A) BY <1>4, <1>5
    <2>3. IdsOf(R) \subseteq IdsOf(A) BY <1>4, <2>1 DEF IdsOf
    <2>4. IdsOf(Q) \subseteq IdsOf(A) BY <1>4, <2>2 DEF IdsOf
    <2>5. IdsOf(A) \subseteq IdsOf(R) \cup IdsOf(Q) BY <1>6 DEF IdsOf
    <2> QED BY <2>3, <2>4, <2>5
  <1> QED BY <1>2, <1>4, <1>8, <1>9, <1>10, <1>11 DEF GoodRing, A, D, R

\* A ring that is cut in two: both parts are in order, the first before the second.
LEMMA RingIsCut ==
    ASSUME NEW A, NEW t, GoodRing(A, t), NEW n \in 0 .. Len(A)
    PROVE  LET over == SubSeq(A, 1, n)
               ring == SubSeq(A, n + 1, Len(A))
           IN  /\ GoodRing(over, t) /\ GoodRing(ring, t)
               /\ Len(over) = n /\ Len(ring) = Len(A) - n
               /\ \A i \in 1 .. n : i \in 1 .. Len(A) /\ over[i] = A[i]
               /\ \A j \in 1 .. Len(ring) : n + j \in 1 .. Len(A) /\ ring[j] = A[n + j]
               /\ IdsOf(A) = IdsOf(over) \cup IdsOf(ring)
               /\ \A i \in 1 .. n, j \in 1 .. Len(ring) :
                     /\ over[i].at <= ring[j].at
                     /\ over[i].series = ring[j].series => over[i].at < ring[j].at
  <1> DEFINE over == SubSeq(A, 1, n)
             ring == SubSeq(A, n + 1, Len(A))
  <1>1. A \in Seq(Sample) /\ InOrder(A) /\ \A i \in 1 .. Len(A) : A[i].at <= t BY DEF GoodRing
  <1>2. Len(A) \in Nat BY <1>1
  <1>3. over \in Seq(Sample) /\ Len(over) = n /\ \A i \in 1 .. n : over[i] = A[i]
    <2>1. 1 \in 1 .. Len(A) + 1 /\ n \in 1 - 1 .. Len(A) BY <1>2
    <2> QED BY <1>1, <1>2, <2>1, SubSeqProperties
  <1>4. ring \in Seq(Sample) /\ Len(ring) = Len(A) - n
        /\ \A j \in 1 .. Len(ring) : ring[j] = A[n + j]
    <2>1. n + 1 \in 1 .. Len(A) + 1 /\ Len(A) \in (n + 1) - 1 .. Len(A) BY <1>2
    <2>2. /\ ring \in Seq(Sample)
          /\ Len(ring) = IF n + 1 <= Len(A) THEN Len(A) - (n + 1) + 1 ELSE 0
          /\ \A j \in 1 .. Len(A) - (n + 1) + 1 : ring[j] = A[(n + 1) + j - 1]
      BY <1>1, <2>1, SubSeqProperties
    <2> HIDE DEF ring
    <2>3. Len(ring) = Len(A) - n BY <1>2, <2>2
    <2>4. ASSUME NEW j \in 1 .. Len(ring) PROVE ring[j] = A[n + j]
      <3>1. j \in 1 .. Len(A) - (n + 1) + 1 /\ (n + 1) + j - 1 = n + j BY <1>2, <2>3
      <3> QED BY <2>2, <3>1
    <2> QED BY <2>2, <2>3, <2>4
  <1> HIDE DEF over, ring
  <1>5. \A i \in 1 .. n : i \in 1 .. Len(A) BY <1>2
  <1>6. \A j \in 1 .. Len(ring) : n + j \in 1 .. Len(A) BY <1>2, <1>4
  <1>7. GoodRing(over, t) BY <1>1, <1>3, <1>5 DEF GoodRing, InOrder
  <1>8. GoodRing(ring, t)
    <2>1. \A i, j \in 1 .. Len(ring) : i < j => n + i < n + j BY <1>2, <1>4
    <2>2. InOrder(ring) BY <1>1, <1>4, <1>6, <2>1 DEF InOrder
    <2> QED BY <1>1, <1>4, <1>6, <2>2 DEF GoodRing
  <1>9. IdsOf(A) = IdsOf(over) \cup IdsOf(ring)
    <2>1. IdsOf(over) \subseteq IdsOf(A) BY <1>3, <1>5 DEF IdsOf
    <2>2. IdsOf(ring) \subseteq IdsOf(A) BY <1>4, <1>6 DEF IdsOf
    <2>3. ASSUME NEW i \in 1 .. Len(A) PROVE Id(A[i]) \in IdsOf(over) \cup IdsOf(ring)
      <3>1. CASE i <= n
        <4>1. i \in 1 .. n BY <3>1
        <4> QED BY <1>3, <4>1 DEF IdsOf
      <3>2. CASE ~ (i <= n)
        <4>1. i - n \in 1 .. Len(ring) /\ n + (i - n) = i BY <1>2, <1>4, <3>2
        <4>2. ring[i - n] = A[i] BY <1>4, <4>1
        <4> QED BY <4>1, <4>2 DEF IdsOf
      <3> QED BY <3>1, <3>2
    <2>4. IdsOf(A) \subseteq IdsOf(over) \cup IdsOf(ring) BY <2>3 DEF IdsOf
    <2> QED BY <2>1, <2>2, <2>4
  <1>10. ASSUME NEW i \in 1 .. n, NEW j \in 1 .. Len(ring)
         PROVE  /\ over[i].at <= ring[j].at
                /\ over[i].series = ring[j].series => over[i].at < ring[j].at
    <2>1. i < n + j BY <1>2, <1>4
    <2> QED BY <1>1, <1>3, <1>4, <1>5, <1>6, <2>1 DEF InOrder
  <1> QED BY <1>3, <1>4, <1>5, <1>6, <1>7, <1>8, <1>9, <1>10 DEF over, ring

\* A ring holds a sample once, and no two of one run and series.
LEMMA RingHoldsOnce ==
    ASSUME NEW R, NEW t, GoodRing(R, t), NEW i \in 1 .. Len(R), NEW j \in 1 .. Len(R),
           Id(R[i]) = Id(R[j])
    PROVE  i = j
  <1>1. R \in Seq(Sample) /\ InOrder(R) BY DEF GoodRing
  <1>2. R[i].at = R[j].at /\ R[i].series = R[j].series BY DEF Id
  <1>3. R[i].at \in Nat /\ R[j].at \in Nat /\ i \in Int /\ j \in Int BY <1>1, SampleTimes
  <1>4. ~ (i < j) BY <1>1, <1>2, <1>3 DEF InOrder
  <1>5. ~ (j < i) BY <1>1, <1>2, <1>3 DEF InOrder
  <1> QED BY <1>3, <1>4, <1>5

\* The part of a ring that goes to a bucket: each of its samples, once.
LEMMA PartIsGood ==
    ASSUME NEW over, NEW t, GoodRing(over, t), NEW k
    PROVE  /\ DOMAIN PartOf(over, k) = {over[i] : i \in {j \in 1 .. Len(over) : KeyOf(over[j]) = k}}
           /\ GoodBucket(PartOf(over, k), k, t)
  <1> DEFINE J == {j \in 1 .. Len(over) : KeyOf(over[j]) = k}
             b == PartOf(over, k)
  <1>1. over \in Seq(Sample) /\ \A i \in 1 .. Len(over) : over[i].at <= t BY DEF GoodRing
  <1>2. b = [p \in {over[i] : i \in J} |-> Cardinality({j \in 1 .. Len(over) : over[j] = p})]
    BY DEF PartOf
  <1>3. \A i, j \in 1 .. Len(over) : Id(over[i]) = Id(over[j]) => i = j BY RingHoldsOnce
  <1> HIDE DEF b
  <1>4. ASSUME NEW i \in J
        PROVE  /\ over[i] \in Sample /\ KeyOf(over[i]) = k /\ over[i].at <= t
               /\ b[over[i]] = 1
    <2>1. {j \in 1 .. Len(over) : over[j] = over[i]} = {i} BY <1>3
    <2>2. b[over[i]] = Cardinality({i}) BY <1>2, <2>1
    <2>3. Cardinality({i}) = 1 BY FS_Singleton
    <2> QED BY <1>1, <2>2, <2>3
  <1>5. DOMAIN b = {over[i] : i \in J} BY <1>2
  <1>6. ASSUME NEW p \in DOMAIN b, NEW q \in DOMAIN b, Id(p) = Id(q) PROVE p = q
    <2>1. PICK i \in J : p = over[i] BY <1>5
    <2>2. PICK j \in J : q = over[j] BY <1>5
    <2> QED BY <1>3, <1>6, <2>1, <2>2
  <1>7. GoodBucket(b, k, t)
    <2>1. \A p \in DOMAIN b : p \in Sample /\ KeyOf(p) = k /\ p.at <= t /\ b[p] = 1
      BY <1>4, <1>5
    <2> QED BY <1>6, <2>1 DEF GoodBucket
  <1> QED BY <1>5, <1>7 DEF b

\* Two parts of a bucket with nothing in common make one.
LEMMA PartsAreMerged ==
    ASSUME NEW a, NEW b, NEW k, NEW t, GoodBucket(a, k, t), GoodBucket(b, k, t),
           \A p \in DOMAIN a, q \in DOMAIN b : Id(p) # Id(q)
    PROVE  DOMAIN (a (+) b) = DOMAIN a \cup DOMAIN b /\ GoodBucket(a (+) b, k, t)
  <1> DEFINE c == a (+) b
  <1>1. c = [e \in DOMAIN a \cup DOMAIN b |->
               (IF e \in DOMAIN a THEN a[e] ELSE 0) + (IF e \in DOMAIN b THEN b[e] ELSE 0)]
    BY DEF (+)
  <1> HIDE DEF c
  <1>2. DOMAIN c = DOMAIN a \cup DOMAIN b BY <1>1
  <1>3. \A e \in DOMAIN a : e \notin DOMAIN b OBVIOUS
  <1>4. \A e \in DOMAIN c : c[e] = 1
    <2> SUFFICES ASSUME NEW e \in DOMAIN c PROVE c[e] = 1 OBVIOUS
    <2>1. CASE e \in DOMAIN a
      <3>1. a[e] = 1 /\ e \notin DOMAIN b BY <1>3, <2>1 DEF GoodBucket
      <3>2. c[e] = 1 + 0 BY <1>1, <2>1, <3>1
      <3> QED BY <3>2
    <2>2. CASE e \in DOMAIN b
      <3>1. b[e] = 1 /\ e \notin DOMAIN a BY <1>3, <2>2 DEF GoodBucket
      <3>2. c[e] = 0 + 1 BY <1>1, <2>2, <3>1
      <3> QED BY <3>2
    <2> QED BY <1>2, <2>1, <2>2
  <1>5. \A p, q \in DOMAIN c : Id(p) = Id(q) => p = q
    <2>1. \A p, q \in DOMAIN a : Id(p) = Id(q) => p = q BY DEF GoodBucket
    <2>2. \A p, q \in DOMAIN b : Id(p) = Id(q) => p = q BY DEF GoodBucket
    <2> QED BY <1>2, <2>1, <2>2
  <1>6. \A p \in DOMAIN c : p \in Sample /\ KeyOf(p) = k /\ p.at <= t
    BY <1>2 DEF GoodBucket
  <1> QED BY <1>2, <1>4, <1>5, <1>6 DEF GoodBucket, c

\* How a record cuts what it has appended: the overflow, and the ring it puts.
LEMMA OverflowAndRing ==
    ASSUME NEW w, Ready(w)
    PROVE  /\ GoodRing(Overflow(w), now) /\ GoodRing(Ring(w), now) /\ Len(Ring(w)) <= RawCap
           /\ IdsOf(Overflow(w)) \cup IdsOf(Ring(w))
                 = IdsOf(seenRaw[w]) \cup {<<now, s>> : s \in batch[w].series}
           /\ Apart(Overflow(w), seenRolled[w]) /\ Apart(Ring(w), seenRolled[w])
           /\ \A i \in 1 .. Len(Overflow(w)), j \in 1 .. Len(Ring(w)) :
                 /\ Overflow(w)[i].at <= Ring(w)[j].at
                 /\ Overflow(w)[i].series = Ring(w)[j].series => Overflow(w)[i].at < Ring(w)[j].at
  <1> DEFINE A == Appended(w)
             D == seenRolled[w]
             n == Excess(w)
             over == SubSeq(A, 1, n)
             ring == SubSeq(A, n + 1, Len(A))
  <1>1. /\ GoodRing(A, now) /\ Apart(A, D)
        /\ IdsOf(A) = IdsOf(seenRaw[w]) \cup {<<now, s>> : s \in batch[w].series}
    BY AppendedIsGood
  <1>2. Overflow(w) = over /\ Ring(w) = ring BY DEF Overflow, Ring
  <1>3. Len(A) \in Nat /\ RawCap \in Nat BY <1>1, TimeseriesAssumption DEF GoodRing
  <1>4. n \in 0 .. Len(A) /\ Len(A) - n <= RawCap BY <1>3 DEF Excess
  <1> HIDE DEF A, D, n
  <1>5. /\ GoodRing(over, now) /\ GoodRing(ring, now)
        /\ Len(over) = n /\ Len(ring) = Len(A) - n
        /\ \A i \in 1 .. n : i \in 1 .. Len(A) /\ over[i] = A[i]
        /\ \A j \in 1 .. Len(ring) : n + j \in 1 .. Len(A) /\ ring[j] = A[n + j]
        /\ IdsOf(A) = IdsOf(over) \cup IdsOf(ring)
        /\ \A i \in 1 .. n, j \in 1 .. Len(ring) :
              /\ over[i].at <= ring[j].at
              /\ over[i].series = ring[j].series => over[i].at < ring[j].at
    BY <1>1, <1>4, RingIsCut
  <1> HIDE DEF over, ring
  <1>6. Apart(over, D) BY <1>1, <1>5 DEF Apart
  <1>7. Apart(ring, D) BY <1>1, <1>5 DEF Apart
  <1> QED BY <1>1, <1>2, <1>4, <1>5, <1>6, <1>7 DEF D

\* The buckets of a record before any of them is dropped.
LEMMA FoldedIsGood ==
    ASSUME NEW w, Ready(w)
    PROVE  /\ GoodBuckets(Folded(w), now) /\ Apart(Ring(w), Folded(w))
           /\ DOMAIN seenRolled[w] \subseteq DOMAIN Folded(w)
           /\ \A i \in 1 .. Len(Overflow(w)) : KeyOf(Overflow(w)[i]) \in DOMAIN Folded(w)
           /\ IdsIn(Folded(w)) = IdsIn(seenRolled[w]) \cup IdsOf(Overflow(w))
  <1> DEFINE over == Overflow(w)
             ring == Ring(w)
             D == seenRolled[w]
             F == Folded(w)
             old(k) == IF k \in DOMAIN D THEN D[k] ELSE EmptyBag
             keys == {KeyOf(over[i]) : i \in 1 .. Len(over)}
             part(k) == {over[i] : i \in {j \in 1 .. Len(over) : KeyOf(over[j]) = k}}
  <1>1. /\ GoodRing(over, now) /\ Apart(over, D) /\ Apart(ring, D)
        /\ \A i \in 1 .. Len(over), j \in 1 .. Len(ring) :
              /\ over[i].at <= ring[j].at
              /\ over[i].series = ring[j].series => over[i].at < ring[j].at
    BY OverflowAndRing
  <1>2. GoodBuckets(D, now - 1) /\ now \in Nat /\ GoodRing(ring, now)
    BY OverflowAndRing DEF Ready, Store
  <1>3. F = [k \in DOMAIN D \cup keys |-> old(k) (+) PartOf(over, k)] BY DEF Folded
  <1> HIDE DEF over, ring, D, F
  <1>4. \A i \in 1 .. Len(over) :
           /\ over[i] \in Sample /\ over[i].at <= now /\ over[i].at \in Nat
           /\ KeyOf(over[i]) \in Bucket /\ KeyOf(over[i])[1] <= over[i].at
           /\ KeyOf(over[i])[1] \in Nat
    <2> TAKE i \in 1 .. Len(over)
    <2>1. over[i] \in Sample /\ over[i].at <= now BY <1>1 DEF GoodRing
    <2>2. over[i].at \in Nat /\ KeyOf(over[i]) \in Bucket /\ KeyOf(over[i])[1] <= over[i].at
      BY <2>1, KeyOfSample
    <2>3. KeyOf(over[i])[1] \in Nat BY <2>2 DEF Bucket
    <2> QED BY <2>1, <2>2, <2>3
  <1>5. \A k \in DOMAIN D : \A p \in DOMAIN D[k] : p.at \in Nat
    BY <1>2 DEF GoodBuckets, GoodBucket, Sample
  <1>6. \A k : GoodBucket(old(k), k, now)
                /\ DOMAIN old(k) = IF k \in DOMAIN D THEN DOMAIN D[k] ELSE {}
    <2> TAKE k
    <2>1. CASE k \in DOMAIN D
      <3>1. GoodBucket(D[k], k, now - 1) BY <1>2, <2>1 DEF GoodBuckets
      <3>2. \A p \in DOMAIN D[k] : p.at <= now - 1 => p.at <= now BY <1>2, <1>5, <2>1
      <3>3. GoodBucket(D[k], k, now) BY <3>1, <3>2 DEF GoodBucket
      <3> QED BY <2>1, <3>3
    <2>2. CASE k \notin DOMAIN D
      <3>1. DOMAIN EmptyBag = {} BY DEF EmptyBag, SetToBag
      <3>2. GoodBucket(EmptyBag, k, now) BY <3>1 DEF GoodBucket
      <3> QED BY <2>2, <3>1, <3>2
    <2> QED BY <2>1, <2>2
  <1>7. \A k : DOMAIN PartOf(over, k) = part(k) /\ GoodBucket(PartOf(over, k), k, now)
    BY <1>1, PartIsGood
  <1>8. ASSUME NEW k, NEW p \in DOMAIN old(k), NEW q \in DOMAIN PartOf(over, k)
        PROVE  Id(p) # Id(q)
    <2>1. k \in DOMAIN D /\ p \in DOMAIN D[k] BY <1>6
    <2>5. q \in part(k)
      <3> HIDE DEF part
      <3> QED BY <1>7
    <2>2. PICK i \in 1 .. Len(over) : q = over[i] BY <2>5
    <2>3. p.series = q.series => p.at < q.at BY <1>1, <2>1, <2>2 DEF Apart
    <2>4. p.at \in Nat /\ q.at \in Nat BY <1>4, <1>5, <2>1, <2>2
    <2> QED BY <2>3, <2>4 DEF Id
  <1>9. \A k \in DOMAIN F :
           /\ GoodBucket(F[k], k, now)
           /\ DOMAIN F[k] = (IF k \in DOMAIN D THEN DOMAIN D[k] ELSE {}) \cup part(k)
    <2> TAKE k \in DOMAIN F
    <2>1. F[k] = old(k) (+) PartOf(over, k) BY <1>3
    <2> DEFINE b == old(k)
               c == PartOf(over, k)
    <2>2. /\ GoodBucket(b, k, now) /\ GoodBucket(c, k, now)
          /\ \A p \in DOMAIN b, q \in DOMAIN c : Id(p) # Id(q)
      BY <1>6, <1>7, <1>8
    <2>3. F[k] = b (+) c BY <2>1
    <2>4. DOMAIN b = (IF k \in DOMAIN D THEN DOMAIN D[k] ELSE {}) /\ DOMAIN c = part(k) BY <1>6, <1>7
    <2> HIDE DEF b, c, old, part
    <2>5. DOMAIN (b (+) c) = DOMAIN b \cup DOMAIN c /\ GoodBucket(b (+) c, k, now)
      BY <2>2, PartsAreMerged
    <2> QED BY <2>3, <2>4, <2>5
  <1>10. DOMAIN F = DOMAIN D \cup keys BY <1>3
  <1>11. IsFiniteSet(DOMAIN F)
    <2> DEFINE f == [i \in 1 .. Len(over) |-> KeyOf(over[i])]
    <2>1. Len(over) \in Nat BY <1>1 DEF GoodRing
    <2>2. IsFiniteSet(1 .. Len(over)) BY <2>1, FS_Interval
    <2>3. DOMAIN f = 1 .. Len(over) /\ keys = {f[i] : i \in DOMAIN f} OBVIOUS
    <2> HIDE DEF f, keys
    <2>4. IsFiniteSet(keys) BY <2>2, <2>3, ValuesAreFinite
    <2>5. IsFiniteSet(DOMAIN D) BY <1>2 DEF GoodBuckets
    <2> QED BY <1>10, <2>4, <2>5, FS_Union
  <1>12. GoodBuckets(F, now)
    <2>1. \A k \in DOMAIN D : k \in Bucket /\ k[1] <= now - 1 /\ k[1] \in Nat
      BY <1>2 DEF GoodBuckets, Bucket
    <2>2. \A k \in DOMAIN D : k[1] <= now BY <1>2, <2>1
    <2>3. \A k \in keys : k \in Bucket /\ k[1] <= now
      <3> SUFFICES ASSUME NEW i \in 1 .. Len(over)
                   PROVE  KeyOf(over[i]) \in Bucket /\ KeyOf(over[i])[1] <= now
        OBVIOUS
      <3> QED BY <1>2, <1>4
    <2> HIDE DEF keys
    <2> QED BY <1>9, <1>10, <1>11, <2>1, <2>2, <2>3 DEF GoodBuckets
  <1>13. Apart(ring, F)
    <2> SUFFICES ASSUME NEW k \in DOMAIN F, NEW i \in 1 .. Len(ring)
                 PROVE  /\ k[1] <= ring[i].at
                        /\ \A p \in DOMAIN F[k] :
                              p.at <= ring[i].at /\ (p.series = ring[i].series => p.at < ring[i].at)
      BY DEF Apart
    <2>1. ring[i].at \in Nat BY <1>2, SampleTimes DEF GoodRing
    <2>2. k[1] <= ring[i].at
      <3>1. CASE k \in DOMAIN D BY <1>1, <3>1 DEF Apart
      <3>2. CASE k \in keys
        <4>1. PICK j \in 1 .. Len(over) : k = KeyOf(over[j]) BY <3>2
        <4>2. k[1] <= over[j].at /\ k[1] \in Nat /\ over[j].at \in Nat BY <1>4, <4>1
        <4>3. over[j].at <= ring[i].at BY <1>1
        <4> QED BY <2>1, <4>2, <4>3
      <3> QED BY <1>10, <3>1, <3>2
    <2>3. ASSUME NEW p \in DOMAIN F[k]
          PROVE  p.at <= ring[i].at /\ (p.series = ring[i].series => p.at < ring[i].at)
      <3>1. CASE k \in DOMAIN D /\ p \in DOMAIN D[k] BY <1>1, <3>1 DEF Apart
      <3>2. CASE p \in part(k)
        <4>1. PICK j \in 1 .. Len(over) : p = over[j] BY <3>2
        <4> QED BY <1>1, <4>1
      <3> QED BY <1>9, <3>1, <3>2
    <2> QED BY <2>2, <2>3
  <1>14. IdsIn(F) = IdsIn(D) \cup IdsOf(over)
    <2>1. ASSUME NEW k \in DOMAIN F, NEW p \in DOMAIN F[k]
          PROVE  Id(p) \in IdsIn(D) \cup IdsOf(over)
      <3>1. CASE k \in DOMAIN D /\ p \in DOMAIN D[k] BY <3>1 DEF IdsIn
      <3>2. CASE p \in part(k) BY <3>2 DEF IdsOf
      <3> QED BY <1>9, <3>1, <3>2
    <2>2. ASSUME NEW k \in DOMAIN D, NEW p \in DOMAIN D[k] PROVE Id(p) \in IdsIn(F)
      <3>1. k \in DOMAIN F /\ p \in DOMAIN F[k] BY <1>9, <1>10
      <3> QED BY <3>1 DEF IdsIn
    <2>3. ASSUME NEW i \in 1 .. Len(over) PROVE Id(over[i]) \in IdsIn(F)
      <3> DEFINE k == KeyOf(over[i])
      <3>1. k \in DOMAIN F /\ over[i] \in part(k) BY <1>10
      <3> HIDE DEF k
      <3>2. over[i] \in DOMAIN F[k] BY <1>9, <3>1
      <3> QED BY <3>1, <3>2 DEF IdsIn
    <2>4. IdsIn(F) \subseteq IdsIn(D) \cup IdsOf(over) BY <2>1 DEF IdsIn
    <2>5. IdsIn(D) \subseteq IdsIn(F) BY <2>2 DEF IdsIn
    <2>6. IdsOf(over) \subseteq IdsIn(F) BY <2>3 DEF IdsOf
    <2> QED BY <2>4, <2>5, <2>6
  <1>15. \A i \in 1 .. Len(over) : KeyOf(over[i]) \in DOMAIN F BY <1>10
  <1> QED BY <1>10, <1>12, <1>13, <1>14, <1>15 DEF over, ring, D, F

\* What a record leaves: a good store, within the caps, where nothing is missing that the
\* store had before, or that went over, but what is older than a full set of buckets.
LEMMA BucketsAreGood ==
    ASSUME NEW w, Ready(w), Cardinality(DOMAIN seenRolled[w]) <= RollupCap
    PROVE  /\ Store(Ring(w), Buckets(w), now) /\ Cardinality(DOMAIN Buckets(w)) <= RollupCap
           /\ Buckets(w) = NoBuckets => Buckets(w) = seenRolled[w]
           /\ \A id \in Nat \X Series :
                 (Safe(id, Ring(w), seenRolled[w]) \/ id \in IdsOf(Overflow(w)))
                     => Safe(id, Ring(w), Buckets(w))
  <1> DEFINE over == Overflow(w)
             ring == Ring(w)
             D == seenRolled[w]
             F == Folded(w)
             B == Buckets(w)
  <1>1. GoodRing(over, now) /\ GoodRing(ring, now) /\ Apart(ring, D) BY OverflowAndRing
  <1>2. /\ GoodBuckets(F, now) /\ Apart(ring, F) /\ DOMAIN D \subseteq DOMAIN F
        /\ \A i \in 1 .. Len(over) : KeyOf(over[i]) \in DOMAIN F
        /\ IdsIn(F) = IdsIn(D) \cup IdsOf(over)
    BY FoldedIsGood
  <1>3. B = IF over = <<>> THEN D ELSE [k \in Kept(F) |-> F[k]] BY DEF Buckets
  <1>4. GoodBuckets(D, now - 1) /\ now \in Nat BY DEF Ready, Store
  <1>5. Cardinality(DOMAIN D) <= RollupCap OBVIOUS
  <1>6. RollupCap \in Nat \ {0} BY TimeseriesAssumption
  <1> HIDE DEF over, ring, D, F, B
  <1>7. CASE over = <<>>
    <2>1. B = D BY <1>3, <1>7
    <2>2. IdsOf(over) = {} BY <1>7 DEF IdsOf
    <2>3. GoodBuckets(D, now)
      <3>1. \A k \in DOMAIN D : k[1] <= now - 1 /\ k[1] \in Nat BY <1>4 DEF GoodBuckets, Bucket
      <3>2. \A k \in DOMAIN D : k[1] <= now BY <1>4, <3>1
      <3>3. \A k \in DOMAIN D : \A p \in DOMAIN D[k] : p.at <= now - 1 /\ p.at \in Nat
        BY <1>4 DEF GoodBuckets, GoodBucket, Sample
      <3>4. \A k \in DOMAIN D : \A p \in DOMAIN D[k] : p.at <= now BY <1>4, <3>3
      <3>5. \A k \in DOMAIN D : GoodBucket(D[k], k, now)
        BY <1>4, <3>4 DEF GoodBuckets, GoodBucket
      <3> QED BY <1>4, <3>2, <3>5 DEF GoodBuckets
    <2>4. Store(ring, B, now) BY <1>1, <2>1, <2>3 DEF Store
    <2> QED BY <1>5, <2>1, <2>2, <2>4 DEF over, ring, D, B
  <1>8. CASE over # <<>>
    <2> DEFINE K == Kept(F)
    <2>1. B = [k \in K |-> F[k]] BY <1>3, <1>8
    <2>2. DOMAIN F \subseteq Bucket /\ IsFiniteSet(DOMAIN F) BY <1>2 DEF GoodBuckets
    <2>3. /\ K \subseteq DOMAIN F /\ IsFiniteSet(K)
          /\ Cardinality(K) = IF Cardinality(DOMAIN F) <= RollupCap
                              THEN Cardinality(DOMAIN F) ELSE RollupCap
          /\ \A d \in DOMAIN F \ K :
                Cardinality(K) = RollupCap /\ \A k \in K : Earlier(d, k)
      BY <2>2, KeptAreNewest
    <2> HIDE DEF K
    <2>4. DOMAIN B = K /\ \A k \in K : B[k] = F[k] BY <2>1
    <2>5. Cardinality(DOMAIN F) \in Nat /\ Cardinality(K) \in Nat BY <2>2, <2>3, FS_CardinalityType
    <2>6. Cardinality(DOMAIN B) <= RollupCap BY <1>6, <2>3, <2>4, <2>5
    <2>7. K # {}
      <3>1. over \in Seq(Sample) BY <1>1 DEF GoodRing
      <3>2. 1 \in 1 .. Len(over) BY <1>8, <3>1
      <3>3. DOMAIN F # {} BY <1>2, <3>2
      <3>4. Cardinality(DOMAIN F) # 0 BY <2>2, <3>3, FS_EmptySet
      <3>5. Cardinality(K) # 0 BY <1>6, <2>3, <2>5, <3>4
      <3> QED BY <3>5, FS_EmptySet
    <2>8. B # NoBuckets BY <2>4, <2>7 DEF NoBuckets
    <2>9. GoodBuckets(B, now) BY <1>2, <2>3, <2>4 DEF GoodBuckets
    <2>10. Apart(ring, B) BY <1>2, <2>3, <2>4 DEF Apart
    <2>11. Store(ring, B, now) BY <1>1, <2>9, <2>10 DEF Store
    <2>12. ASSUME NEW id \in IdsIn(F) PROVE id \in IdsIn(B) \/ Gone(id, B)
      <3>6. PICK k \in DOMAIN F : \E q \in DOMAIN F[k] : id = Id(q) BY DEF IdsIn
      <3>1. PICK p \in DOMAIN F[k] : id = Id(p) BY <3>6
      <3>2. p \in Sample /\ KeyOf(p) = k BY <1>2 DEF GoodBuckets, GoodBucket
      <3>3. k = <<HourOf(id[1]), id[2]>> BY <3>1, <3>2, KeyOfSample
      <3>4. CASE k \in K
        <4>1. k \in DOMAIN B /\ p \in DOMAIN B[k] BY <2>4, <3>4
        <4> QED BY <3>1, <4>1 DEF IdsIn
      <3>5. CASE k \notin K
        <4>1. Cardinality(K) = RollupCap /\ \A l \in K : Earlier(k, l) BY <2>3, <3>5
        <4> QED BY <2>4, <3>3, <4>1 DEF Gone
      <3> QED BY <3>4, <3>5
    <2>13. ASSUME NEW id \in Nat \X Series, Gone(id, D) PROVE Gone(id, B)
      <3> DEFINE key == <<HourOf(id[1]), id[2]>>
                 T == DOMAIN D
      <3>1. key \in Bucket
        <4>1. id[1] \in Nat /\ id[2] \in Series OBVIOUS
        <4>2. HourOf(id[1]) \in Nat BY <4>1, HourStarts
        <4> QED BY <4>1, <4>2 DEF Bucket
      <3>2. Cardinality(T) = RollupCap /\ \A l \in T : Earlier(key, l) BY <2>13 DEF Gone
      <3>3. T \in SUBSET DOMAIN F BY <1>2
      <3> HIDE DEF key, T
      <3>4. RollupCap <= Cardinality(DOMAIN F) BY <2>2, <3>2, <3>3, FS_Subset
      <3>5. Cardinality(K) = RollupCap BY <1>6, <2>3, <2>5, <3>4
      <3>6. ASSUME NEW k \in K PROVE Earlier(key, k)
        <4>1. k \in DOMAIN F /\ k \in Bucket BY <2>2, <2>3
        <4>2. SUFFICES ASSUME ~ Earlier(key, k) PROVE FALSE OBVIOUS
        <4>3. k = key \/ Earlier(k, key) BY <3>1, <4>1, <4>2, EarlierOrders
        <4>4. \A l \in T : l \in Bucket BY <2>2, <3>3
        <4>5. \A l \in T : Earlier(k, l) BY <3>1, <3>2, <4>1, <4>3, <4>4, EarlierOrders
        <4>6. k \notin Kept(F) BY <2>2, <3>2, <3>3, <4>1, <4>5, OldIsDropped
        <4> QED BY <4>6 DEF K
      <3> QED BY <2>4, <3>5, <3>6 DEF Gone, key
    <2>14. ASSUME NEW id \in Nat \X Series, Safe(id, ring, D) \/ id \in IdsOf(over)
           PROVE  Safe(id, ring, B)
      <3>1. CASE id \in IdsOf(ring) BY <3>1 DEF Safe
      <3>2. CASE id \in IdsIn(D) \/ id \in IdsOf(over) BY <1>2, <2>12, <3>2 DEF Safe
      <3>3. CASE Gone(id, D) BY <2>13, <3>3 DEF Safe
      <3> QED BY <2>14, <3>1, <3>2, <3>3 DEF Safe
    <2> QED BY <2>6, <2>8, <2>11, <2>14 DEF over, ring, D, B
  <1> QED BY <1>7, <1>8

-----------------------------------------------------------------------------
(* The invariant                                                             *)

\* A store that is no later than t is no later than what comes after t.
LEMMA StoreLater ==
    ASSUME NEW R, NEW D, NEW t \in Int, NEW u \in Int, Store(R, D, t), t <= u
    PROVE  Store(R, D, u)
  <1>1. GoodRing(R, t) /\ GoodBuckets(D, t) /\ Apart(R, D) BY DEF Store
  <1>2. GoodRing(R, u)
    <2>1. \A i \in 1 .. Len(R) : R[i].at \in Nat /\ R[i].at <= t BY <1>1, SampleTimes DEF GoodRing
    <2>2. \A i \in 1 .. Len(R) : R[i].at <= u BY <2>1
    <2> QED BY <1>1, <2>2 DEF GoodRing
  <1>3. GoodBuckets(D, u)
    <2>1. \A k \in DOMAIN D : k[1] <= t /\ k[1] \in Nat BY <1>1 DEF GoodBuckets, Bucket
    <2>2. \A k \in DOMAIN D : k[1] <= u BY <2>1
    <2>3. \A k \in DOMAIN D : \A p \in DOMAIN D[k] : p.at <= t /\ p.at \in Nat
      BY <1>1 DEF GoodBuckets, GoodBucket, Sample
    <2>4. \A k \in DOMAIN D : \A p \in DOMAIN D[k] : p.at <= u BY <2>3
    <2>5. \A k \in DOMAIN D : GoodBucket(D[k], k, u)
      BY <1>1, <2>4 DEF GoodBuckets, GoodBucket
    <2> QED BY <1>1, <2>2, <2>5 DEF GoodBuckets
  <1> QED BY <1>1, <1>2, <1>3 DEF Store

\* What a record will put is settled by what it has read.
LEMMA PutsAreSettled ==
    ASSUME NEW w, batch' = batch, seenRaw' = seenRaw
    PROVE  Overflow(w)' = Overflow(w) /\ Ring(w)' = Ring(w)
  <1>1. Samples(w)' = Samples(w) BY DEF Samples
  <1>2. Appended(w)' = Appended(w) BY <1>1 DEF Appended
  <1>3. Excess(w)' = Excess(w) BY <1>2 DEF Excess
  <1> QED BY <1>2, <1>3 DEF Overflow, Ring

\* Initially nothing is stored.
LEMMA InitHolds == Init => IInv
  <1> SUFFICES ASSUME Init PROVE IInv OBVIOUS
  <1> USE DEF Init
  <1>1. Types BY DEF Types
  <1>2. GoodRing(raw, now) BY DEF GoodRing, InOrder
  <1>3. DOMAIN rolled = {} BY DEF NoBuckets
  <1>4. GoodBuckets(rolled, now) /\ Apart(raw, rolled) BY <1>3, FS_EmptySet DEF GoodBuckets, Apart
  <1>5. StoreInv
    <2>1. Cardinality(DOMAIN rolled) = 0 BY <1>3, FS_EmptySet
    <2> QED BY <1>2, <1>4, <2>1, TimeseriesAssumption DEF StoreInv, Store
  <1>6. RecordedInv BY DEF RecordedInv
  <1>7. ProgressInv BY DEF ProgressInv
  <1> QED BY <1>1, <1>5, <1>6, <1>7 DEF IInv

\* A run starts.
LEMMA StartKeeps ==
    ASSUME IInv, OneAtATime, NEW w \in Writers, NEW gap \in Gaps,
           NEW ends \in SUBSET (1 .. Endpoints), Start(w, gap, ends)
    PROVE  IInv'
  <1>1. now \in Nat /\ gap \in Nat \ {0} /\ now' = now + gap
    BY TimeseriesAssumption DEF IInv, Types, Start
  <1>2. /\ pc[w] = "idle" /\ pc' = [pc EXCEPT ![w] = "readRaw"]
        /\ batch' = [batch EXCEPT ![w] = [at |-> now', series |-> {0} \cup ends]]
        /\ UNCHANGED <<raw, rolled, seenRaw, seenRolled, recorded, lost>>
    BY DEF Start, Goto
  <1>3. \A v \in Writers : v = w BY DEF OneAtATime
  <1>4. Types' BY <1>1, <1>2 DEF IInv, Types
  <1>5. pc'[w] = "readRaw" /\ batch'[w] = [at |-> now', series |-> {0} \cup ends]
    BY <1>2 DEF IInv, Types
  <1>6. batch'[w].at = now' /\ batch'[w].series \subseteq Series
    BY <1>5, TimeseriesAssumption DEF Series
  <1>7. Store(raw, rolled, now' - 1)
    <2>1. now \in Int /\ now' - 1 \in Int /\ now <= now' - 1 BY <1>1
    <2>2. Store(raw, rolled, now) BY DEF IInv, StoreInv
    <2> QED BY <2>1, <2>2, StoreLater
  <1>8. Store(raw, rolled, now')
    <2>1. now' - 1 \in Int /\ now' \in Int /\ now' - 1 <= now' BY <1>1
    <2> QED BY <1>7, <2>1, StoreLater
  <1>9. StoreInv' BY <1>2, <1>8 DEF IInv, StoreInv
  <1>10. RecordedInv' BY <1>2, <1>3 DEF IInv, RecordedInv
  <1>11. ProgressInv' BY <1>2, <1>3, <1>5, <1>6, <1>7 DEF ProgressInv
  <1> QED BY <1>4, <1>9, <1>10, <1>11 DEF IInv

\* The two reads of a record.
LEMMA ReadsKeep ==
    ASSUME IInv, OneAtATime, NEW w \in Writers, ReadRaw(w) \/ ReadRolled(w)
    PROVE  IInv'
  <1>1. /\ pc[w] \in {"readRaw", "readRolled"}
        /\ pc' = [pc EXCEPT ![w] = IF pc[w] = "readRaw" THEN "readRolled" ELSE "putFirst"]
        /\ UNCHANGED <<now, raw, rolled, batch, recorded, lost>>
    BY DEF ReadRaw, ReadRolled, Goto
  <1>2. pc[w] = "readRaw" => (seenRaw' = [seenRaw EXCEPT ![w] = raw] /\ seenRolled' = seenRolled)
    BY DEF ReadRaw, ReadRolled, Goto
  <1>3. pc[w] = "readRolled" => (seenRolled' = [seenRolled EXCEPT ![w] = rolled] /\ seenRaw' = seenRaw)
    BY DEF ReadRaw, ReadRolled, Goto
  <1>4. \A v \in Writers : v = w BY DEF OneAtATime
  <1>5. Types BY DEF IInv
  <1>6. Types' BY <1>1, <1>2, <1>3, <1>5 DEF Types
  <1>7. pc'[w] = IF pc[w] = "readRaw" THEN "readRolled" ELSE "putFirst" BY <1>1, <1>5 DEF Types
  <1>8. StoreInv' BY <1>1 DEF IInv, StoreInv
  <1>9. RecordedInv' BY <1>1, <1>4, <1>7 DEF IInv, RecordedInv
  <1>10. ProgressInv'
    <2>1. /\ batch[w].at = now /\ batch[w].series \subseteq Series
          /\ Store(raw, rolled, now - 1)
          /\ pc[w] = "readRolled" => seenRaw[w] = raw
      BY <1>1 DEF IInv, ProgressInv
    <2>2. seenRaw'[w] = raw /\ (pc[w] = "readRolled" => seenRolled'[w] = rolled)
      BY <1>1, <1>2, <1>3, <1>5, <2>1 DEF Types
    <2> QED BY <1>1, <1>4, <1>7, <2>1, <2>2 DEF ProgressInv
  <1> QED BY <1>6, <1>8, <1>9, <1>10 DEF IInv

\* The ring is put.
LEMMA PutFirstKeeps ==
    ASSUME IInv, OneAtATime, NEW w \in Writers, PutFirst(w)
    PROVE  IInv'
  <1>1. /\ pc[w] = "putFirst" /\ pc' = [pc EXCEPT ![w] = "putSecond"]
        /\ raw' = Ring(w) /\ recorded' = recorded \cup {<<batch[w].at, s>> : s \in batch[w].series}
        /\ UNCHANGED <<now, rolled, batch, seenRaw, seenRolled, lost>>
    BY DEF PutFirst, Goto, Put, PutRing
  <1>2. \A v \in Writers : v = w BY DEF OneAtATime
  <1>3. Types /\ now \in Nat BY DEF IInv, Types
  <1>4. Types' /\ pc'[w] = "putSecond" BY <1>1, <1>3 DEF Types
  <1>5. /\ batch[w].at = now /\ batch[w].series \subseteq Series
        /\ Store(raw, rolled, now - 1) /\ seenRaw[w] = raw /\ seenRolled[w] = rolled
    BY <1>1 DEF IInv, ProgressInv
  <1>6. Ready(w) BY <1>3, <1>5 DEF Ready
  <1>7. /\ GoodRing(Ring(w), now) /\ Len(Ring(w)) <= RawCap /\ Apart(Ring(w), rolled)
        /\ IdsOf(Overflow(w)) \cup IdsOf(Ring(w)) = IdsOf(raw) \cup {<<now, s>> : s \in batch[w].series}
    BY <1>5, <1>6, OverflowAndRing
  <1>8. Overflow(w)' = Overflow(w) /\ Ring(w)' = Ring(w) BY <1>1, PutsAreSettled
  <1>9. StoreInv'
    <2>1. now - 1 \in Int /\ now \in Int /\ now - 1 <= now BY <1>3
    <2>2. Store(raw, rolled, now) BY <1>5, <2>1, StoreLater
    <2>3. Store(Ring(w), rolled, now) BY <1>7, <2>2 DEF Store
    <2> QED BY <1>1, <1>7, <2>3 DEF IInv, StoreInv
  <1>10. RecordedInv'
    <2>1. recorded' \subseteq Nat \X Series BY <1>1, <1>3, <1>5 DEF IInv, RecordedInv
    <2>2. ASSUME NEW id \in recorded'
          PROVE  (Safe(id, Ring(w), rolled) \/ id \in lost) \/ id \in IdsOf(Overflow(w))
      <3>1. CASE id \in recorded
        <4>1. Safe(id, raw, rolled) \/ id \in lost
          BY <1>1, <1>2, <3>1 DEF IInv, RecordedInv
        <4> QED BY <1>7, <4>1 DEF Safe
      <3>2. CASE id \in {<<now, s>> : s \in batch[w].series} BY <1>7, <3>2 DEF Safe
      <3> QED BY <1>1, <1>5, <3>1, <3>2
    <2> QED BY <1>1, <1>4, <1>8, <2>1, <2>2 DEF RecordedInv
  <1>11. ProgressInv' BY <1>1, <1>2, <1>4, <1>5, <1>8 DEF ProgressInv
  <1> QED BY <1>4, <1>9, <1>10, <1>11 DEF IInv

\* The buckets are put.
LEMMA PutSecondKeeps ==
    ASSUME IInv, OneAtATime, NEW w \in Writers, PutSecond(w)
    PROVE  IInv'
  <1>1. /\ pc[w] = "putSecond" /\ pc' = [pc EXCEPT ![w] = "idle"]
        /\ rolled' = (IF Buckets(w) = NoBuckets THEN rolled ELSE Buckets(w))
        /\ UNCHANGED <<now, raw, recorded, lost>>
        /\ DOMAIN batch' = DOMAIN batch /\ DOMAIN seenRaw' = DOMAIN seenRaw
        /\ DOMAIN seenRolled' = DOMAIN seenRolled
    BY DEF PutSecond, Put, PutBuckets, Forget
  <1>2. \A v \in Writers : v = w BY DEF OneAtATime
  <1>3. Types /\ now \in Nat BY DEF IInv, Types
  <1>4. Types' /\ pc'[w] = "idle" BY <1>1, <1>3 DEF Types
  <1>5. /\ batch[w].at = now /\ batch[w].series \subseteq Series
        /\ Store(seenRaw[w], rolled, now - 1) /\ raw = Ring(w) /\ seenRolled[w] = rolled
    BY <1>1 DEF IInv, ProgressInv
  <1>6. Ready(w) BY <1>3, <1>5 DEF Ready
  <1>7. Cardinality(DOMAIN rolled) <= RollupCap /\ Len(raw) <= RawCap BY DEF IInv, StoreInv
  <1>8. /\ Store(raw, Buckets(w), now) /\ Cardinality(DOMAIN Buckets(w)) <= RollupCap
        /\ Buckets(w) = NoBuckets => Buckets(w) = rolled
        /\ \A id \in Nat \X Series :
              (Safe(id, raw, rolled) \/ id \in IdsOf(Overflow(w))) => Safe(id, raw, Buckets(w))
    BY <1>5, <1>6, <1>7, BucketsAreGood
  <1>9. rolled' = Buckets(w) BY <1>1, <1>8
  <1>10. StoreInv' BY <1>1, <1>7, <1>8, <1>9 DEF StoreInv
  <1>11. RecordedInv'
    <2>1. ASSUME NEW id \in recorded PROVE Safe(id, raw, Buckets(w)) \/ id \in lost
      <3>1. id \in Nat \X Series BY DEF IInv, RecordedInv
      <3>2. (Safe(id, raw, rolled) \/ id \in lost) \/ id \in IdsOf(Overflow(w))
        BY <1>1, <1>2 DEF IInv, RecordedInv
      <3> QED BY <1>8, <3>1, <3>2
    <2> QED BY <1>1, <1>9, <2>1 DEF IInv, RecordedInv
  <1>12. ProgressInv' BY <1>2, <1>4 DEF ProgressInv
  <1> QED BY <1>4, <1>10, <1>11, <1>12 DEF IInv

\* A record dies.
LEMMA DieKeeps ==
    ASSUME IInv, OneAtATime, NEW w \in Writers, Die(w)
    PROVE  IInv'
  <1>1. /\ pc' = [pc EXCEPT ![w] = "idle"]
        /\ lost' = (IF pc[w] = "putSecond" THEN lost \cup IdsOf(Overflow(w)) ELSE lost)
        /\ UNCHANGED <<now, raw, rolled, recorded>>
        /\ DOMAIN batch' = DOMAIN batch /\ DOMAIN seenRaw' = DOMAIN seenRaw
        /\ DOMAIN seenRolled' = DOMAIN seenRolled
    BY DEF Die, Forget, IdsOf
  <1>2. \A v \in Writers : v = w BY DEF OneAtATime
  <1>3. Types' /\ pc'[w] = "idle" BY <1>1 DEF IInv, Types
  <1>4. StoreInv' BY <1>1 DEF IInv, StoreInv
  <1>5. RecordedInv'
    <2>1. \A id \in recorded : Safe(id, raw, rolled) \/ id \in lost'
      BY <1>1, <1>2 DEF IInv, RecordedInv
    <2> QED BY <1>1, <2>1 DEF IInv, RecordedInv
  <1>6. ProgressInv' BY <1>2, <1>3 DEF ProgressInv
  <1> QED BY <1>3, <1>4, <1>5, <1>6 DEF IInv

\* A step that changes nothing.
LEMMA StutterKeeps ==
    ASSUME IInv, UNCHANGED vars
    PROVE  IInv'
  <1>1. UNCHANGED <<now, raw, rolled, pc, batch, seenRaw, seenRolled, recorded, lost>> BY DEF vars
  <1>2. \A w : Overflow(w)' = Overflow(w) /\ Ring(w)' = Ring(w) BY <1>1, PutsAreSettled
  <1>3. Types' /\ StoreInv' BY <1>1 DEF IInv, Types, StoreInv
  <1>4. RecordedInv' BY <1>1, <1>2 DEF IInv, RecordedInv
  <1>5. ProgressInv' BY <1>1, <1>2 DEF IInv, ProgressInv
  <1> QED BY <1>3, <1>4, <1>5 DEF IInv

\* No step breaks the invariant.
LEMMA StepHolds ==
    ASSUME IInv, OneAtATime, [Next]_vars
    PROVE  IInv'
  <1>1. CASE UNCHANGED vars BY <1>1, StutterKeeps
  <1>2. ASSUME NEW w \in Writers, NEW gap \in Gaps, NEW ends \in SUBSET (1 .. Endpoints),
               Start(w, gap, ends)
        PROVE  IInv'
    BY <1>2, StartKeeps
  <1>3. ASSUME NEW w \in Writers, ReadRaw(w) \/ ReadRolled(w) PROVE IInv' BY <1>3, ReadsKeep
  <1>4. ASSUME NEW w \in Writers, PutFirst(w) PROVE IInv' BY <1>4, PutFirstKeeps
  <1>5. ASSUME NEW w \in Writers, PutSecond(w) PROVE IInv' BY <1>5, PutSecondKeeps
  <1>6. ASSUME NEW w \in Writers, Die(w) PROVE IInv' BY <1>6, DieKeeps
  <1> QED BY <1>1, <1>2, <1>3, <1>4, <1>5, <1>6 DEF Next

\* The invariant holds of every behaviour whose records follow one another.
LEMMA IInvHolds ==
    ASSUME OneAtATime
    PROVE  Spec => []IInv
  <1>1. Init => IInv BY InitHolds
  <1>2. IInv /\ [Next]_vars => IInv' BY StepHolds
  <1> QED BY <1>1, <1>2, PTL DEF Spec

-----------------------------------------------------------------------------
(* What it says                                                              *)

\* No sample is counted twice: it is in the ring or in a bucket, and there once, whichever
\* of the two puts a record died before.
THEOREM CountedOnce ==
    ASSUME OneAtATime
    PROVE  Spec => []SampleHeldOnce
  <1>1. IInv => SampleHeldOnce
    <2> SUFFICES ASSUME IInv PROVE SampleHeldOnce OBVIOUS
    <2>1. GoodRing(raw, now) /\ GoodBuckets(rolled, now) /\ Apart(raw, rolled)
      BY DEF IInv, StoreInv, Store
    <2>2. \A i, j \in 1 .. Len(raw) : Id(raw[i]) = Id(raw[j]) => i = j BY <2>1, RingHoldsOnce
    <2>3. ASSUME NEW k \in DOMAIN rolled, NEW p \in DOMAIN rolled[k]
          PROVE  /\ rolled[k][p] = 1
                 /\ \A i \in 1 .. Len(raw) : Id(raw[i]) # Id(p)
                 /\ \A l \in DOMAIN rolled : \A q \in DOMAIN rolled[l] :
                       Id(p) = Id(q) => (k = l /\ p = q)
      <3>1. GoodBucket(rolled[k], k, now) BY <2>1 DEF GoodBuckets
      <3>2. p \in Sample /\ KeyOf(p) = k /\ rolled[k][p] = 1 BY <3>1 DEF GoodBucket
      <3>3. p.at \in Nat /\ k = <<HourOf(Id(p)[1]), Id(p)[2]>> BY <3>2, KeyOfSample
      <3>4. ASSUME NEW i \in 1 .. Len(raw), Id(raw[i]) = Id(p) PROVE FALSE
        <4>1. raw[i].at = p.at /\ raw[i].series = p.series BY <3>4 DEF Id
        <4> QED BY <2>1, <3>3, <4>1 DEF Apart
      <3>5. ASSUME NEW l \in DOMAIN rolled, NEW q \in DOMAIN rolled[l], Id(p) = Id(q)
            PROVE  k = l /\ p = q
        <4>1. GoodBucket(rolled[l], l, now) BY <2>1 DEF GoodBuckets
        <4>2. q \in Sample /\ KeyOf(q) = l BY <4>1 DEF GoodBucket
        <4>3. l = <<HourOf(Id(q)[1]), Id(q)[2]>> BY <4>2, KeyOfSample
        <4>4. k = l BY <3>3, <3>5, <4>3
        <4> QED BY <3>1, <3>5, <4>4 DEF GoodBucket
      <3> QED BY <3>2, <3>4, <3>5
    <2> QED BY <2>2, <2>3 DEF SampleHeldOnce
  <1> QED BY <1>1, IInvHolds, PTL

\* Retention loses nothing by itself: what was recorded is held, unless a record died with
\* it, or its bucket went because RollupCap newer ones are there.
THEOREM NothingLost ==
    ASSUME OneAtATime
    PROVE  Spec => []RecordedIsHeld
  <1>1. IInv => RecordedIsHeld
    <2> SUFFICES ASSUME IInv, \A w \in Writers : pc[w] # "putSecond",
                        NEW id \in recorded \ (Held \cup lost)
                 PROVE  /\ Cardinality(DOMAIN rolled) = RollupCap
                        /\ \A k \in DOMAIN rolled : Earlier(<<HourOf(id[1]), id[2]>>, k)
      BY DEF RecordedIsHeld
    <2>1. Safe(id, raw, rolled) BY DEF IInv, RecordedInv
    <2>2. Held = IdsOf(raw) \cup IdsIn(rolled) BY DEF Held, Seen, IdsOf, IdsIn
    <2> QED BY <2>1, <2>2 DEF Safe, Gone
  <1> QED BY <1>1, IInvHolds, PTL

\* The ring is the newest end of each series, in the order of the runs, each sample with
\* the gap to the one before it; what was folded is older; and neither store outgrows its cap.
THEOREM RingStaysNewest ==
    ASSUME OneAtATime
    PROVE  Spec => []RingIsNewest
  <1>1. IInv => RingIsNewest
    <2> SUFFICES ASSUME IInv PROVE RingIsNewest OBVIOUS
    <2>1. /\ InOrder(raw) /\ Apart(raw, rolled)
          /\ Len(raw) <= RawCap /\ Cardinality(DOMAIN rolled) <= RollupCap
      BY DEF IInv, StoreInv, Store, GoodRing
    <2>2. \A i, j \in 1 .. Len(raw) : i < j =>
             /\ raw[i].at <= raw[j].at
             /\ raw[i].series = raw[j].series => raw[j].gap \in 1 .. raw[j].at - raw[i].at
      BY <2>1 DEF InOrder
    <2>3. \A k \in DOMAIN rolled, i \in 1 .. Len(raw) :
             /\ k[1] <= raw[i].at
             /\ \A p \in DOMAIN rolled[k] : p.at <= raw[i].at
      BY <2>1 DEF Apart
    <2> QED BY <2>1, <2>2, <2>3 DEF RingIsNewest
  <1> QED BY <1>1, IInvHolds, PTL

-----------------------------------------------------------------------------
(* Queries                                                                   *)

\* Hours do not overlap: a bucket whose hour touches a window holds times of the hours
\* that the window touches, and the time of a bucket in a window has its hour touch it.
LEMMA HoursOfWindow ==
    ASSUME NEW t \in Nat, NEW from \in Nat, NEW to \in Nat
    PROVE  /\ (HourOf(t) <= to /\ HourOf(t) + Hour > from)
                 => (HourOf(from) <= t /\ t <= HourOf(to) + Hour - 1)
           /\ (from <= t /\ t <= to) => (HourOf(t) <= to /\ HourOf(t) + Hour > from)
  <1> DEFINE q(x) == x \div Hour
  <1>1. Hour \in Nat \ {0} BY TimeseriesAssumption
  <1>2. ASSUME NEW x \in Nat
        PROVE  q(x) \in Int /\ HourOf(x) = Hour * q(x) /\ HourOf(x) \in Int
               /\ HourOf(x) <= x /\ x < HourOf(x) + Hour
    <2>1. x \div Hour \in Int /\ x % Hour \in Int /\ 0 <= x % Hour /\ x % Hour < Hour BY <1>1
    <2>2. x % Hour = x - Hour * (x \div Hour)
      <3>1. \A y \in Nat, h \in Nat \ {0} : y % h = y - h * (y \div h) OBVIOUS
      <3> QED BY <1>1, <3>1
    <2> DEFINE r == x % Hour
    <2>3. r \in Int /\ 0 <= r /\ r < Hour /\ q(x) \in Int BY <2>1
    <2>4. r = x - Hour * q(x) BY <2>2
    <2>5. HourOf(x) = x - r BY DEF HourOf
    <2> HIDE DEF q, r
    <2>6. Hour * q(x) \in Int BY <1>1, <2>3
    <2> QED BY <1>1, <2>3, <2>4, <2>5, <2>6
  <1> HIDE DEF q
  <1>3. ASSUME NEW x \in Nat, NEW y \in Nat, HourOf(x) < HourOf(y)
        PROVE  HourOf(x) + Hour <= HourOf(y)
    <2>1. q(x) \in Int /\ q(y) \in Int /\ HourOf(x) = Hour * q(x) /\ HourOf(y) = Hour * q(y)
      BY <1>2
    <2>2. q(x) < q(y)
      <3> SUFFICES ASSUME q(y) <= q(x) PROVE FALSE BY <2>1
      <3>1. Hour * q(y) <= Hour * q(x) BY <1>1, <2>1
      <3>2. HourOf(x) \in Int /\ HourOf(y) \in Int BY <1>2
      <3> QED BY <1>3, <2>1, <3>1, <3>2
    <2>3. Hour * (q(x) + 1) <= Hour * q(y)
      <3>1. q(x) + 1 <= q(y) BY <2>1, <2>2
      <3> QED BY <1>1, <2>1, <3>1
    <2>4. Hour * (q(x) + 1) = Hour * q(x) + Hour BY <1>1, <2>1
    <2> QED BY <2>1, <2>3, <2>4
  <1>4. /\ HourOf(t) \in Int /\ HourOf(t) <= t /\ t < HourOf(t) + Hour
        /\ HourOf(from) \in Int /\ HourOf(from) <= from
        /\ HourOf(to) \in Int /\ HourOf(to) <= to /\ to < HourOf(to) + Hour
    BY <1>2
  <1>5. HourOf(t) < HourOf(from) => HourOf(t) + Hour <= HourOf(from) BY <1>3
  <1>6. HourOf(to) < HourOf(t) => HourOf(to) + Hour <= HourOf(t) BY <1>3
  <1> QED BY <1>1, <1>4, <1>5, <1>6

Between(s, lo, hi) == {id \in Held : id[2] = s /\ id[1] \in lo .. hi}

\* A sample in a bucket: once, in its hour, known by its time and series, before the ring.
LEMMA BucketHolds ==
    ASSUME IInv, NEW k \in DOMAIN rolled, NEW p \in DOMAIN rolled[k]
    PROVE  /\ rolled[k][p] = 1 /\ p.at \in 0 .. now /\ p.series \in Series
           /\ k[1] = HourOf(p.at) /\ k[2] = p.series /\ k = <<HourOf(Id(p)[1]), Id(p)[2]>>
           /\ \A q \in DOMAIN rolled[k] : Id(p) = Id(q) => p = q
           /\ \A i \in 1 .. Len(raw) : p.series = raw[i].series => p.at < raw[i].at
  <1>1. GoodBuckets(rolled, now) /\ Apart(raw, rolled) /\ now \in Nat
    BY DEF IInv, StoreInv, Store, Types
  <1>2. GoodBucket(rolled[k], k, now) BY <1>1 DEF GoodBuckets
  <1>3. p \in Sample /\ KeyOf(p) = k /\ rolled[k][p] = 1 /\ p.at <= now BY <1>2 DEF GoodBucket
  <1>4. p.at \in Nat /\ p.series \in Series /\ k = <<HourOf(Id(p)[1]), Id(p)[2]>> BY <1>3, KeyOfSample
  <1>5. p.at \in 0 .. now BY <1>1, <1>3, <1>4
  <1>6. k[1] = HourOf(p.at) /\ k[2] = p.series BY <1>3 DEF KeyOf
  <1>7. \A q \in DOMAIN rolled[k] : Id(p) = Id(q) => p = q BY <1>2 DEF GoodBucket
  <1>8. \A i \in 1 .. Len(raw) : p.series = raw[i].series => p.at < raw[i].at
    BY <1>1 DEF Apart
  <1> QED BY <1>3, <1>4, <1>5, <1>6, <1>7, <1>8

\* What a query counts differs in its times and series, and is what the window takes in.
LEMMA QueryCounts ==
    ASSUME IInv, NEW s \in Series, NEW from \in Nat, NEW to \in Nat
    PROVE  /\ Cardinality(Between(s, from, to)) <= Count(s, from, to)
           /\ Count(s, from, to)
                 <= Cardinality(Between(s, HourOf(from), HourOf(to) + Hour - 1))
  <1> DEFINE I == InRing(s, from, to)
             K == BucketsIn(s, from, to)
             O == UNION {FoldedInto(k) : k \in K}
             f == [i \in I |-> Id(raw[i])]
             g == [o \in O |-> Id(o[2])]
             fs == {f[i] : i \in DOMAIN f}
             gs == {g[o] : o \in DOMAIN g}
             X == (0 .. now) \X Series
             inside == Between(s, from, to)
             around == Between(s, HourOf(from), HourOf(to) + Hour - 1)
  <1>1. GoodRing(raw, now) /\ now \in Nat BY DEF IInv, StoreInv, Store, Types
  <1>2. \A i \in 1 .. Len(raw) : raw[i].at \in 0 .. now /\ raw[i].series \in Series
    <2>1. \A i \in 1 .. Len(raw) : raw[i].at \in Nat /\ raw[i].at <= now /\ raw[i].series \in Series
      BY <1>1, SampleTimes DEF GoodRing
    <2> QED BY <1>1, <2>1
  <1>3. \A i, j \in 1 .. Len(raw) : Id(raw[i]) = Id(raw[j]) => i = j BY <1>1, RingHoldsOnce
  <1>4. \A k \in DOMAIN rolled : FoldedInto(k) = {<<k, p, 1>> : p \in DOMAIN rolled[k]}
    <2> TAKE k \in DOMAIN rolled
    <2>1. \A p \in DOMAIN rolled[k] : rolled[k][p] = 1 BY BucketHolds
    <2>2. \A p \in DOMAIN rolled[k] : {<<k, p, n>> : n \in 1 .. rolled[k][p]} = {<<k, p, 1>>}
      <3> TAKE p \in DOMAIN rolled[k]
      <3>1. 1 .. rolled[k][p] = {1}
        <4>1. 1 .. 1 = {1} OBVIOUS
        <4> QED BY <2>1, <4>1
      <3> QED BY <3>1
    <2>3. UNION {{<<k, p, n>> : n \in 1 .. rolled[k][p]} : p \in DOMAIN rolled[k]}
             = UNION {{<<k, p, 1>>} : p \in DOMAIN rolled[k]}
      BY <2>2
    <2> QED BY <2>3 DEF FoldedInto
  <1>5. K \subseteq DOMAIN rolled
        /\ \A k \in DOMAIN rolled : k \in K <=> ((k[2] = s /\ k[1] <= to) /\ k[1] + Hour > from)
    BY DEF BucketsIn
  <1>6. I = {i \in 1 .. Len(raw) : raw[i].series = s /\ raw[i].at \in from .. to} BY DEF InRing
  <1>7. Count(s, from, to) = Cardinality(I) + Cardinality(O) BY DEF Count
  <1> HIDE DEF I, K
  <1>8. /\ \A o \in O : o = <<o[1], o[2], 1>> /\ o[1] \in K /\ o[2] \in DOMAIN rolled[o[1]]
        /\ \A k \in K : \A p \in DOMAIN rolled[k] : <<k, p, 1>> \in O
    BY <1>4, <1>5
  <1> HIDE DEF O
  <1>9. ASSUME NEW o \in O, NEW q \in O, Id(o[2]) = Id(q[2]) PROVE o = q
    <2>1. /\ o[1] \in DOMAIN rolled /\ o[2] \in DOMAIN rolled[o[1]]
          /\ q[1] \in DOMAIN rolled /\ q[2] \in DOMAIN rolled[q[1]]
      BY <1>5, <1>8
    <2>2. o[1] = q[1]
      <3>1. o[1] = <<HourOf(Id(o[2])[1]), Id(o[2])[2]>> BY <2>1, BucketHolds
      <3>2. q[1] = <<HourOf(Id(q[2])[1]), Id(q[2])[2]>> BY <2>1, BucketHolds
      <3> QED BY <1>9, <3>1, <3>2
    <2>3. o[2] = q[2] BY <1>9, <2>1, <2>2, BucketHolds
    <2> QED BY <1>8, <2>2, <2>3
  <1>10. ASSUME NEW i \in I, NEW o \in O PROVE Id(raw[i]) # Id(o[2])
    <2>1. o[1] \in DOMAIN rolled /\ o[2] \in DOMAIN rolled[o[1]] BY <1>5, <1>8
    <2>2. /\ o[2].series = raw[i].series => o[2].at < raw[i].at
          /\ o[2].at \in 0 .. now
      BY <1>6, <2>1, BucketHolds
    <2> QED BY <2>2 DEF Id
  <1>11. ASSUME NEW o \in O PROVE Id(o[2]) \in around /\ Id(o[2]) \in X
    <2> DEFINE k == o[1]
               p == o[2]
    <2>1. k \in K /\ k \in DOMAIN rolled /\ p \in DOMAIN rolled[k] BY <1>5, <1>8
    <2> HIDE DEF k, p
    <2>2. /\ p.at \in 0 .. now /\ p.series \in Series /\ k[1] = HourOf(p.at) /\ k[2] = p.series
      BY <2>1, BucketHolds
    <2>3. k[2] = s /\ k[1] <= to /\ k[1] + Hour > from BY <1>5, <2>1
    <2>4. p.at \in Nat BY <2>2
    <2>5. HourOf(from) <= p.at /\ p.at <= HourOf(to) + Hour - 1 BY <2>2, <2>3, <2>4, HoursOfWindow
    <2>6. HourOf(from) \in Nat /\ HourOf(to) \in Nat /\ Hour \in Nat BY HourStarts, TimeseriesAssumption
    <2>7. p.at \in HourOf(from) .. HourOf(to) + Hour - 1 BY <2>4, <2>5, <2>6
    <2>8. Id(p) \in Held BY <2>1 DEF Held, Seen
    <2>9. Id(p)[1] = p.at /\ Id(p)[2] = s /\ Id(p) \in X BY <2>2, <2>3 DEF Id
    <2>10. Id(p) \in around BY <2>7, <2>8, <2>9 DEF Between
    <2> QED BY <2>9, <2>10 DEF p
  <1>12. ASSUME NEW i \in I PROVE Id(raw[i]) \in around /\ Id(raw[i]) \in X
    <2>1. i \in 1 .. Len(raw) /\ raw[i].series = s /\ raw[i].at \in from .. to BY <1>6
    <2>2. HourOf(from) \in Nat /\ HourOf(from) <= from /\ HourOf(to) \in Nat BY HourStarts
    <2>3. to < HourOf(to) + Hour
      <3>1. (to <= to /\ to <= to) => HourOf(to) + Hour > to BY HoursOfWindow
      <3> QED BY <2>2, <3>1, TimeseriesAssumption
    <2>4. raw[i].at \in HourOf(from) .. HourOf(to) + Hour - 1
      BY <2>1, <2>2, <2>3, TimeseriesAssumption
    <2>5. Id(raw[i]) \in Held BY <2>1 DEF Held
    <2>6. Id(raw[i])[1] = raw[i].at /\ Id(raw[i])[2] = s /\ Id(raw[i]) \in X
      BY <1>2, <2>1 DEF Id
    <2> QED BY <2>4, <2>5, <2>6 DEF Between
  <1>13. IsFiniteSet(X)
    <2>1. IsFiniteSet(0 .. now) BY <1>1, FS_Interval
    <2>2. IsFiniteSet(Series) BY TimeseriesAssumption, FS_Interval DEF Series
    <2> QED BY <2>1, <2>2, FS_Product
  <1>14. around \in SUBSET X /\ inside \in SUBSET X
    <2>1. Held \subseteq X
      <3>1. \A i \in 1 .. Len(raw) : Id(raw[i]) \in X BY <1>2 DEF Id
      <3>2. ASSUME NEW k \in DOMAIN rolled, NEW p \in DOMAIN rolled[k] PROVE Id(p) \in X
        <4>1. p.at \in 0 .. now /\ p.series \in Series BY BucketHolds
        <4> QED BY <4>1 DEF Id
      <3> HIDE DEF X
      <3> QED BY <3>1, <3>2 DEF Held, Seen
    <2> QED BY <2>1 DEF Between
  <1> HIDE DEF X
  <1>15. IsFiniteSet(I)
    <2>1. Len(raw) \in Nat BY <1>1 DEF GoodRing
    <2>2. IsFiniteSet(1 .. Len(raw)) BY <2>1, FS_Interval
    <2>3. I \in SUBSET (1 .. Len(raw)) BY <1>6
    <2> QED BY <2>2, <2>3, FS_Subset
  <1>16. IsFiniteSet(O)
    <2>1. g \in Injection(O, X) BY <1>9, <1>11 DEF Injection, IsInjective
    <2> QED BY <1>13, <2>1, FS_Injection
  <1>17. Cardinality(fs) = Cardinality(I) /\ IsFiniteSet(fs)
    <2>1. DOMAIN f = I /\ \A i, j \in DOMAIN f : f[i] = f[j] => i = j BY <1>3, <1>6
    <2> HIDE DEF f
    <2> QED BY <1>15, <2>1, DifferentValues, ValuesAreFinite
  <1>18. Cardinality(gs) = Cardinality(O) /\ IsFiniteSet(gs)
    <2>1. DOMAIN g = O /\ \A o, q \in DOMAIN g : g[o] = g[q] => o = q BY <1>9
    <2> HIDE DEF g
    <2> QED BY <1>16, <2>1, DifferentValues, ValuesAreFinite
  <1>19. fs \cap gs = {} BY <1>10
  <1>20. fs \cup gs \in SUBSET around BY <1>11, <1>12
  <1>21. inside \in SUBSET (fs \cup gs)
    <2> SUFFICES ASSUME NEW id \in inside PROVE id \in fs \cup gs OBVIOUS
    <2>1. id \in Held /\ id[2] = s /\ id[1] \in from .. to BY DEF Between
    <2>2. CASE \E i \in 1 .. Len(raw) : id = Id(raw[i])
      <3>1. PICK i \in 1 .. Len(raw) : id = Id(raw[i]) BY <2>2
      <3>2. i \in I BY <1>6, <2>1, <3>1 DEF Id
      <3> QED BY <3>1, <3>2
    <2>3. CASE \E k \in DOMAIN rolled : \E p \in DOMAIN rolled[k] : id = Id(p)
      <3>1. PICK k \in DOMAIN rolled : \E p \in DOMAIN rolled[k] : id = Id(p) BY <2>3
      <3>2. PICK p \in DOMAIN rolled[k] : id = Id(p) BY <3>1
      <3>3. k[1] = HourOf(p.at) /\ k[2] = p.series /\ p.at \in 0 .. now BY BucketHolds
      <3>4. p.at \in Nat /\ from <= p.at /\ p.at <= to /\ p.series = s BY <2>1, <3>2, <3>3 DEF Id
      <3>5. HourOf(p.at) <= to /\ HourOf(p.at) + Hour > from BY <3>4, HoursOfWindow
      <3>6. k \in K BY <1>5, <3>3, <3>4, <3>5
      <3>7. <<k, p, 1>> \in O BY <1>8, <3>6
      <3>8. g[<<k, p, 1>>] = id BY <3>2, <3>7
      <3> QED BY <3>7, <3>8
    <2> QED BY <2>1, <2>2, <2>3 DEF Held, Seen
  <1> HIDE DEF fs, gs, inside, around
  <1>22. IsFiniteSet(around) /\ IsFiniteSet(inside) BY <1>13, <1>14, FS_Subset
  <1>23. IsFiniteSet(fs \cup gs)
         /\ Cardinality(fs \cup gs) = Cardinality(I) + Cardinality(O)
    <2>1. /\ IsFiniteSet(fs \cup gs)
          /\ Cardinality(fs \cup gs) = Cardinality(fs) + Cardinality(gs) - Cardinality(fs \cap gs)
      BY <1>17, <1>18, FS_Union
    <2>2. Cardinality(fs \cap gs) = 0 BY <1>19, FS_EmptySet
    <2>3. Cardinality(fs) \in Nat /\ Cardinality(gs) \in Nat BY <1>17, <1>18, FS_CardinalityType
    <2> QED BY <1>17, <1>18, <2>1, <2>2, <2>3
  <1>24. Cardinality(fs \cup gs) <= Cardinality(around) BY <1>20, <1>22, FS_Subset
  <1>25. Cardinality(inside) <= Cardinality(fs \cup gs) BY <1>21, <1>23, FS_Subset
  <1> QED BY <1>7, <1>23, <1>24, <1>25 DEF inside, around

\* What a query counts has as many samples as their times and series tell apart, so that it
\* is between what is held in the window and what is held in the hours that it touches.
THEOREM WindowsCovered ==
    ASSUME OneAtATime
    PROVE  Spec => []WindowIsCovered
  <1>1. IInv => WindowIsCovered
    <2> SUFFICES ASSUME IInv, NEW s \in Series, NEW from \in 0 .. MaxNow, NEW to \in 0 .. MaxNow
                 PROVE  /\ Cardinality(Between(s, from, to)) <= Count(s, from, to)
                        /\ Count(s, from, to)
                              <= Cardinality(Between(s, HourOf(from), HourOf(to) + Hour - 1))
      BY DEF WindowIsCovered, Between
    <2>1. from \in Nat /\ to \in Nat BY TimeseriesAssumption
    <2> QED BY <2>1, QueryCounts
  <1> QED BY <1>1, IInvHolds, PTL

=============================================================================
