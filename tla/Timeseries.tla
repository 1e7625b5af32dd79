------------------------------ MODULE Timeseries ------------------------------
(***************************************************************************)
(* The time-series of one monitor (timeseries.ts): a ring of the newest    *)
(* samples and the hourly buckets that the older ones are folded into, two *)
(* KV values that every run of the monitor reads, changes and puts back,   *)
(* the ring first.                                                         *)
(*                                                                         *)
(* A run brings one sample of the target (series 0) and one of each of the *)
(* endpoints it probed.  What a sample measures is carried along untouched *)
(* by everything here, so a sample is its time, its series and its gap; a  *)
(* bucket, whose sums and histogram are over the samples folded into it in *)
(* whatever order, is the bag of them.  The order of the buckets is that of*)
(* their keys.                                                             *)
(***************************************************************************)
EXTENDS Integers, Sequences, Bags, FiniteSetsExt

CONSTANTS
    Writers,    \* runs whose record may be in progress together
    Endpoints,  \* number of endpoints; the series are 0 .. Endpoints
    RawCap,     \* TS_RAW_CAP
    RollupCap,  \* TS_ROLLUP_CAP
    Hour,       \* HOUR_MS
    Gaps,       \* times between two runs
    MaxNow,     \* bound on the clock
    MaxFaults,  \* bound on the records that die half-way
    None        \* no batch

ASSUME TimeseriesAssumption ==
    /\ Endpoints \in Nat /\ Gaps \subseteq Nat \ {0}
    /\ RawCap \in Nat \ {0} /\ RollupCap \in Nat \ {0} /\ Hour \in Nat \ {0}
    /\ MaxNow \in Nat /\ MaxFaults \in Nat

Series == 0 .. Endpoints
Sample == [at : Nat, series : Series, gap : Nat]
Bucket == Nat \X Series  \* the key of a bucket: the start of its hour, and its series

VARIABLES
    now,       \* nowMs of the newest run
    raw,       \* ts:raw:{id}: Samples, oldest first
    rolled,    \* ts:roll:{id}: by Bucket, the samples folded into it
    pc,        \* where each record is
    batch,     \* the time and the series of the samples to record
    seenRaw,   \* the ring as it was read
    seenRolled,\* the buckets as they were read
    faults,    \* faults so far, bounded by MaxFaults
    recorded,  \* history: the samples that were put into the ring
    lost       \* history: the samples that left the ring when their record died

vars == <<now, raw, rolled, pc, batch, seenRaw, seenRolled, faults, recorded, lost>>

NoBuckets == [k \in {} |-> EmptyBag]

Init ==
    /\ now = 0 /\ raw = <<>> /\ rolled = NoBuckets /\ faults = 0
    /\ pc = [w \in Writers |-> "idle"] /\ batch = [w \in Writers |-> None]
    /\ seenRaw = [w \in Writers |-> <<>>] /\ seenRolled = [w \in Writers |-> NoBuckets]
    /\ recorded = {} /\ lost = {}

Goto(w, from, to) == pc[w] = from /\ pc' = [pc EXCEPT ![w] = to]

Id(p)     == <<p.at, p.series>>
HourOf(t) == t - (t % Hour)
KeyOf(p)  == <<HourOf(p.at), p.series>>

-----------------------------------------------------------------------------
(* record                                                                    *)

\* Time since the newest sample of the series in the ring, 0 when it holds none.
GapTo(ring, s, t) ==
    LET earlier == {ring[i].at : i \in {j \in 1 .. Len(ring) : ring[j].series = s}}
    IN  IF earlier = {} THEN 0 ELSE Max({0, t - Max(earlier)})

\* The samples of a run, the target's first.
Samples(w) ==
    LET b == batch[w]
        nth(i) == CHOOSE s \in b.series : Cardinality({o \in b.series : o < s}) = i - 1
    IN  [i \in 1 .. Cardinality(b.series) |->
            [at |-> b.at, series |-> nth(i), gap |-> GapTo(seenRaw[w], nth(i), b.at)]]

\* Slip: the samples are put before the ring.
Prepended(w) == Samples(w) \o seenRaw[w]

Appended(w) == seenRaw[w] \o Samples(w)

\* What the ring has no room for, oldest first.
Excess(w)   == IF Len(Appended(w)) > RawCap THEN Len(Appended(w)) - RawCap ELSE 0
Overflow(w) == SubSeq(Appended(w), 1, Excess(w))

Ring(w) == SubSeq(Appended(w), Excess(w) + 1, Len(Appended(w)))

\* The samples of a sequence whose bucket is k.
PartOf(over, k) ==
    [p \in {over[i] : i \in {j \in 1 .. Len(over) : KeyOf(over[j]) = k}} |->
        Cardinality({j \in 1 .. Len(over) : over[j] = p})]

\* foldIntoRollup, for each sample of the overflow
Folded(w) ==
    LET over == Overflow(w)
        old  == seenRolled[w]
    IN  [k \in DOMAIN old \cup {KeyOf(over[i]) : i \in 1 .. Len(over)} |->
            (IF k \in DOMAIN old THEN old[k] ELSE EmptyBag) (+) PartOf(over, k)]

Earlier(k, l) == k[1] < l[1] \/ (k[1] = l[1] /\ k[2] < l[2])

\* Slip: the newest buckets are given up.
NewestDropped(buckets) ==
    {k \in DOMAIN buckets : Cardinality({l \in DOMAIN buckets : Earlier(l, k)}) < RollupCap}

\* The buckets that are kept: the last RollupCap in the order of hour and series.
Kept(buckets) ==
    {k \in DOMAIN buckets : Cardinality({l \in DOMAIN buckets : Earlier(k, l)}) < RollupCap}

Buckets(w) == IF Overflow(w) = <<>> THEN seenRolled[w]
              ELSE [k \in Kept(Folded(w)) |-> Folded(w)[k]]

\* A run has been verified; the next one comes a gap later.
Start(w, gap, ends) ==
    /\ Goto(w, "idle", "readRaw")
    /\ now + gap <= MaxNow /\ now' = now + gap
    /\ batch' = [batch EXCEPT ![w] = [at |-> now', series |-> {0} \cup ends]]
    /\ UNCHANGED <<raw, rolled, seenRaw, seenRolled, faults, recorded, lost>>

ReadRaw(w) ==
    /\ Goto(w, "readRaw", "readRolled")
    /\ seenRaw' = [seenRaw EXCEPT ![w] = raw]
    /\ UNCHANGED <<now, raw, rolled, batch, seenRolled, faults, recorded, lost>>

ReadRolled(w) ==
    /\ Goto(w, "readRolled", "putFirst")
    /\ seenRolled' = [seenRolled EXCEPT ![w] = rolled]
    /\ UNCHANGED <<now, raw, rolled, batch, seenRaw, faults, recorded, lost>>

PutRing(w) ==
    /\ raw' = Ring(w)
    /\ recorded' = recorded \cup {<<batch[w].at, s>> : s \in batch[w].series}
    /\ UNCHANGED rolled

PutBuckets(w) ==
    /\ rolled' = IF Buckets(w) = NoBuckets THEN rolled ELSE Buckets(w)
    /\ UNCHANGED <<raw, recorded>>

\* Slip: the buckets are put before the ring.
PutBucketsFirst(w, first) == IF first THEN PutBuckets(w) ELSE PutRing(w)

\* The two values are put one after the other.
Put(w, first) == IF first THEN PutRing(w) ELSE PutBuckets(w)

PutFirst(w) ==
    /\ Goto(w, "putFirst", "putSecond")
    /\ Put(w, TRUE)
    /\ UNCHANGED <<now, batch, seenRaw, seenRolled, faults, lost>>

\* The record is over: its locals are gone.
Forget(w) ==
    /\ pc' = [pc EXCEPT ![w] = "idle"]
    /\ batch' = [batch EXCEPT ![w] = None]
    /\ seenRaw' = [seenRaw EXCEPT ![w] = <<>>]
    /\ seenRolled' = [seenRolled EXCEPT ![w] = NoBuckets]

PutSecond(w) ==
    /\ pc[w] = "putSecond"
    /\ Put(w, FALSE)
    /\ Forget(w)
    /\ UNCHANGED <<now, faults, lost>>

\* A KV call throws, or the tick dies with the scheduler.
Die(w) ==
    /\ pc[w] # "idle"
    /\ Forget(w)
    /\ lost' = IF pc[w] = "putSecond"
               THEN lost \cup {Id(Overflow(w)[i]) : i \in 1 .. Len(Overflow(w))} ELSE lost
    /\ faults < MaxFaults /\ faults' = faults + 1
    /\ UNCHANGED <<now, raw, rolled, recorded>>

Next ==
    \E w \in Writers :
        \/ \E gap \in Gaps, ends \in SUBSET (1 .. Endpoints) : Start(w, gap, ends)
        \/ ReadRaw(w) \/ ReadRolled(w) \/ PutFirst(w) \/ PutSecond(w) \/ Die(w)

Spec == Init /\ [][Next]_vars

-----------------------------------------------------------------------------
(* query                                                                     *)

InRing(s, from, to) == {i \in 1 .. Len(raw) : raw[i].series = s /\ raw[i].at \in from .. to}

\* Slip: a bucket counts when its hour starts inside the window.
BucketsStartingIn(s, from, to) == {k \in DOMAIN rolled : k[2] = s /\ k[1] \in from .. to}

\* A bucket counts when its hour touches the window.
BucketsIn(s, from, to) ==
    {k \in DOMAIN rolled : k[2] = s /\ k[1] <= to /\ k[1] + Hour > from}

\* What was folded into a bucket, each sample as often as it was; count is their number.
FoldedInto(k) == UNION {{<<k, p, n>> : n \in 1 .. rolled[k][p]} : p \in DOMAIN rolled[k]}

\* computeStats: the samples of a series that a query over a window counts
Count(s, from, to) ==
    Cardinality(InRing(s, from, to))
      + Cardinality(UNION {FoldedInto(k) : k \in BucketsIn(s, from, to)})

-----------------------------------------------------------------------------
Seen(k) == {Id(p) : p \in DOMAIN rolled[k]}
Held    == {Id(raw[i]) : i \in 1 .. Len(raw)} \cup UNION {Seen(k) : k \in DOMAIN rolled}

\* A run is counted once: no sample is in the ring and in a bucket, or in one of them
\* twice, even when a record dies between its two puts and the next one goes on from there.
SampleHeldOnce ==
    /\ \A i, j \in 1 .. Len(raw) : Id(raw[i]) = Id(raw[j]) => i = j
    /\ \A k \in DOMAIN rolled : \A p \in DOMAIN rolled[k] :
          /\ rolled[k][p] = 1
          /\ \A i \in 1 .. Len(raw) : Id(raw[i]) # Id(p)
          /\ \A l \in DOMAIN rolled : \A q \in DOMAIN rolled[l] :
                Id(p) = Id(q) => (k = l /\ p = q)

\* Retention: the oldest samples "are not dropped but FOLDED"; a sample that was recorded
\* is held, unless a record died with it or its bucket had to go, and then the bucket was
\* older than all that are left and their number is at the cap.
RecordedIsHeld ==
    (\A w \in Writers : pc[w] # "putSecond") =>
        \A id \in recorded \ (Held \cup lost) :
            /\ Cardinality(DOMAIN rolled) = RollupCap
            /\ \A k \in DOMAIN rolled : Earlier(<<HourOf(id[1]), id[2]>>, k)

\* The ring holds the newest samples, in the order of their runs, each with the gap to the
\* one of its series before it, and what was folded is older: the percentiles and the grade
\* history of a query are over the end of the series.  Neither store outgrows its cap.
RingIsNewest ==
    /\ Len(raw) <= RawCap /\ Cardinality(DOMAIN rolled) <= RollupCap
    /\ \A i, j \in 1 .. Len(raw) : i < j =>
          /\ raw[i].at <= raw[j].at
          /\ raw[i].series = raw[j].series => raw[j].gap \in 1 .. raw[j].at - raw[i].at
    /\ \A k \in DOMAIN rolled, i \in 1 .. Len(raw) :
          /\ k[1] <= raw[i].at
          /\ \A p \in DOMAIN rolled[k] : p.at <= raw[i].at

\* A query over a window counts every sample of the series that is held and in the window,
\* and none outside the hours that the window touches.
WindowIsCovered ==
    \A s \in Series, from, to \in 0 .. MaxNow : from <= to =>
        LET held(lo, hi) == Cardinality({id \in Held : id[2] = s /\ id[1] \in lo .. hi})
        IN  /\ held(from, to) <= Count(s, from, to)
            /\ Count(s, from, to) <= held(HourOf(from), HourOf(to) + Hour - 1)
=============================================================================
