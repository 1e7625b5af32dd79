--------------------------- MODULE ExecGateway_proof ---------------------------
(***************************************************************************)
(* Proofs about ExecGateway: for any number of runs, fetches, slots and    *)
(* redirects, no drain loses a refusal, and a run with a refused fetch     *)
(* passes only when another run drained the refusal or it came too late;   *)
(* the types, that no slot of a limiter is lost or given twice, and that   *)
(* none of its waiters is overtaken.                                       *)
(***************************************************************************)
EXTENDS ExecGateway, FiniteSetTheorems, SequenceTheorems, TLAPS

Typed ==
    /\ pc \in [Runs -> {"idle", "racing", "body", "lost", "over"}]
    /\ isolate \in [Runs -> {"none", "running", "done"}]
    /\ record \in [Runs -> SUBSET Fetch]
    /\ sink \in Seq(Fetch) /\ barred \subseteq Fetch
    /\ verdict \in [Runs -> {"none", "failed", "ran"}]
    /\ taken \in [Runs -> SUBSET Fetch]

\* A run that is not over has drained nothing; one that passed drained nothing, its
\* isolate is done, and the isolate's record, which nobody writes any more, is empty.
Judged ==
    \A r \in Runs :
        /\ pc[r] # "over" => taken[r] = {} /\ verdict[r] = "none"
        /\ pc[r] = "body" => isolate[r] = "done"
        /\ verdict[r] = "ran" => pc[r] = "over" /\ isolate[r] = "done"
                                 /\ record[r] = {} /\ taken[r] = {}

IInv == Typed /\ Judged /\ RefusalsAreFailed

-----------------------------------------------------------------------------
LEMMA ToSetEmpty == ToSet(<<>>) = {}
BY DEF ToSet

LEMMA ToSetAppend ==
    ASSUME NEW S, NEW s \in Seq(S), NEW e \in S
    PROVE  e \in ToSet(Append(s, e)) /\ ToSet(s) \subseteq ToSet(Append(s, e))
<1>1. Append(s, e)[Len(s) + 1] = e /\ Len(s) + 1 \in DOMAIN Append(s, e)
  OBVIOUS
<1>2. \A i \in DOMAIN s : i \in DOMAIN Append(s, e) /\ Append(s, e)[i] = s[i]
  OBVIOUS
<1>3. QED
  BY <1>1, <1>2 DEF ToSet

LEMMA FetchIsOfRun == \A f \in Fetch : f[1] \in Runs
BY RunAssumption

LEMMA InvInit == Init => IInv
BY DEF Init, IInv, Typed, Judged, RefusalsAreFailed

-----------------------------------------------------------------------------
(* What the runs leave alone: a fetch adds to the records and to the sink.   *)

Adds(f) ==
    /\ UNCHANGED runVars
    /\ record' = record \/ (isolate[f[1]] = "running"
                            /\ record' = [record EXCEPT ![f[1]] = @ \cup {f}])
    /\ sink' \in Seq(Fetch) /\ ToSet(sink) \subseteq ToSet(sink')
    /\ barred' \subseteq barred \cup {f}
    /\ barred \subseteq barred'
    /\ f \in barred' \ barred => f \in ToSet(sink') \/ f \in record'[f[1]]

LEMMA FetchAdds ==
    ASSUME IInv, NEW f \in Fetch, Suite(f) \/ Arrive(f) \/ Hop(f) \/ Network(f)
    PROVE  Adds(f)
<1> USE DEF IInv, Typed, Adds, runVars
<1>0. f[1] \in Runs
  BY FetchIsOfRun
<1>1. CASE RefuseVerb(f)
  BY <1>0, <1>1 DEF RefuseVerb
<1>2. CASE Ask(f)
  BY <1>2 DEF Ask
<1>3. CASE Settle(f)
  BY <1>3 DEF Settle
<1>4. CASE Arrive(f)
  BY <1>4 DEF Arrive
<1>5. CASE Refuse(f)
  <2>1. sink' = Append(sink, f) /\ barred' = barred \cup {f} /\ UNCHANGED <<runVars, record>>
    BY <1>5 DEF Refuse
  <2>2. f \in ToSet(sink') /\ ToSet(sink) \subseteq ToSet(sink') /\ sink' \in Seq(Fetch)
    BY <2>1, ToSetAppend
  <2>3. QED
    BY <2>1, <2>2
<1>6. CASE Forward(f)
  BY <1>6 DEF Forward
<1>7. CASE Respond(f)
  BY <1>7 DEF Respond
<1>8. CASE Break(f)
  BY <1>8 DEF Break
<1>9. CASE ReadBody(f)
  BY <1>9 DEF ReadBody
<1>10. QED
  BY <1>1, <1>2, <1>3, <1>4, <1>5, <1>6, <1>7, <1>8, <1>9 DEF Suite, Hop, Network

LEMMA AddsKeepsInv == ASSUME IInv, NEW f \in Fetch, Adds(f) PROVE IInv'
<1>0. f[1] \in Runs
  BY FetchIsOfRun
<1>1. /\ UNCHANGED <<pc, isolate, verdict, taken>>
      /\ \A r \in Runs : record[r] \subseteq record'[r]
      /\ \A r \in Runs : record'[r] # record[r] => isolate[r] = "running"
      /\ record' \in [Runs -> SUBSET Fetch]
  BY <1>0 DEF IInv, Typed, Adds, runVars
<1>2. Typed'
  BY <1>1 DEF IInv, Typed, Adds
<1>3. Judged'
  BY <1>1 DEF IInv, Typed, Judged
<1>4. RefusalsAreFailed'
  <2> SUFFICES ASSUME NEW g \in barred'
               PROVE  \/ g \in ToSet(sink)' \/ g \in record'[g[1]]
                      \/ \E r \in Runs : g \in taken'[r] /\ verdict'[r] = "failed"
    BY DEF RefusalsAreFailed
  <2>1. CASE g \in barred
    <3>1. g[1] \in Runs
      BY <2>1, FetchIsOfRun DEF IInv, Typed
    <3>2. QED
      BY <1>1, <2>1, <3>1 DEF IInv, RefusalsAreFailed, Adds
  <2>2. CASE g \notin barred
    BY <2>2 DEF Adds
  <2>3. QED
    BY <2>1, <2>2
<1>5. QED
  BY <1>2, <1>3, <1>4 DEF IInv

-----------------------------------------------------------------------------
(* A run begins, its isolate ends, or its verdict is taken.                  *)

LEMMA RunKeepsInv ==
    ASSUME IInv, NEW r \in Runs,
           Start(r) \/ Lose(r) \/ Trip(r) \/ \E answer \in {"results", "error"} : Finish(r, answer)
    PROVE  IInv'
<1>1. /\ UNCHANGED <<sink, barred, record, verdict, taken>>
      /\ pc' \in [Runs -> {"idle", "racing", "body", "lost", "over"}]
      /\ isolate' \in [Runs -> {"none", "running", "done"}]
      /\ \A q \in Runs : pc'[q] = "over" <=> pc[q] = "over"
      /\ \A q \in Runs : pc[q] # "idle" /\ isolate[q] = "done" => isolate'[q] = "done"
      /\ \A q \in Runs : pc'[q] = "body" => isolate'[q] = "done"
  <2> USE DEF IInv, Typed, Judged, fetchVars
  <2>1. CASE Start(r)
    BY <2>1 DEF Start
  <2>2. CASE Lose(r)
    BY <2>2 DEF Lose
  <2>3. CASE Trip(r)
    BY <2>3 DEF Trip
  <2>4. ASSUME NEW answer \in {"results", "error"}, Finish(r, answer)
        PROVE  /\ UNCHANGED <<sink, barred, record, verdict, taken>>
               /\ pc' \in [Runs -> {"idle", "racing", "body", "lost", "over"}]
               /\ isolate' \in [Runs -> {"none", "running", "done"}]
               /\ \A q \in Runs : pc'[q] = "over" <=> pc[q] = "over"
               /\ \A q \in Runs : isolate[q] = "done" => isolate'[q] = "done"
               /\ \A q \in Runs : pc'[q] = "body" => isolate'[q] = "done"
    BY <2>4 DEF Finish
  <2>5. QED
    BY <2>1, <2>2, <2>3, <2>4
<1>2. Typed'
  BY <1>1 DEF IInv, Typed
<1>3. Judged'
  BY <1>1 DEF IInv, Judged
<1>4. RefusalsAreFailed'
  BY <1>1 DEF IInv, RefusalsAreFailed, ToSet
<1>5. QED
  BY <1>2, <1>3, <1>4 DEF IInv

\* The verdict of a run that takes what left the sink.
Concludes(r, outcome) ==
    /\ pc[r] # "over"
    /\ pc' = [pc EXCEPT ![r] = "over"] /\ UNCHANGED <<isolate, record, barred>>
    /\ sink' \in {sink, <<>>}
    /\ taken' = [taken EXCEPT ![r] = ToSet(sink) \ ToSet(sink')]
    /\ outcome \in {"failed", "ran"} /\ verdict' = [verdict EXCEPT ![r] = outcome]
    /\ outcome = "ran" => isolate[r] = "done" /\ record[r] = {} /\ ToSet(sink) = {}

LEMMA JudgeConcludes ==
    ASSUME IInv, NEW r \in Runs, Judge(r) \/ Unreadable(r) \/ Reject(r)
    PROVE  \E outcome \in {"failed", "ran"} : Concludes(r, outcome)
<1>1. CASE Judge(r)
  <2>1. Outcome(r, ToSet(sink)) = "ran" =>
           pc[r] # "lost" /\ ToSet(sink) = {} /\ record[r] = {}
    BY DEF Outcome
  <2>2. Outcome(r, ToSet(sink)) \in {"failed", "ran"}
    BY DEF Outcome
  <2>3. pc[r] \in {"body", "lost"} /\ (pc[r] = "body" => isolate[r] = "done")
    BY <1>1 DEF Judge, IInv, Judged
  <2>4. ToSet(sink) = ToSet(sink) \ ToSet(sink')
    BY <1>1, ToSetEmpty DEF Judge
  <2>5. Concludes(r, Outcome(r, ToSet(sink)))
    BY <1>1, <2>1, <2>2, <2>3, <2>4 DEF Judge, Concludes
  <2>6. QED
    BY <2>2, <2>5
<1>2. CASE Unreadable(r)
  BY <1>2 DEF Unreadable, Concludes
<1>3. CASE Reject(r)
  <2>1. taken[r] = {} /\ taken \in [Runs -> SUBSET Fetch]
    BY <1>3 DEF Reject, IInv, Judged, Typed
  <2>2. taken' = [taken EXCEPT ![r] = ToSet(sink) \ ToSet(sink')]
    BY <1>3, <2>1 DEF Reject, fetchVars
  <2>3. QED
    BY <1>3, <2>2 DEF Reject, Concludes, fetchVars
<1>4. QED
  BY <1>1, <1>2, <1>3

LEMMA ConcludesKeepsInv ==
    ASSUME IInv, NEW r \in Runs, NEW outcome \in {"failed", "ran"}, Concludes(r, outcome)
    PROVE  IInv'
<1>1. /\ pc \in [Runs -> {"idle", "racing", "body", "lost", "over"}]
      /\ verdict \in [Runs -> {"none", "failed", "ran"}] /\ taken \in [Runs -> SUBSET Fetch]
      /\ sink \in Seq(Fetch) /\ ToSet(sink) \subseteq Fetch
  BY DEF IInv, Typed, ToSet
<1>2. /\ pc' = [pc EXCEPT ![r] = "over"] /\ verdict' = [verdict EXCEPT ![r] = outcome]
      /\ taken' = [taken EXCEPT ![r] = ToSet(sink) \ ToSet(sink')]
      /\ UNCHANGED <<isolate, record, barred>>
      /\ pc[r] # "over" /\ (sink' = sink \/ sink' = <<>>)
  BY DEF Concludes
<1>3. Typed'
  <2>1. sink' \in Seq(Fetch) /\ ToSet(sink) \ ToSet(sink') \in SUBSET Fetch
    <3>1. <<>> \in Seq(Fetch)
      OBVIOUS
    <3>2. sink' \in Seq(Fetch)
      BY <1>1, <1>2, <3>1, Zenon
    <3>3. QED
      BY <1>1, <3>2, Zenon
  <2>2. /\ pc' \in [Runs -> {"idle", "racing", "body", "lost", "over"}]
        /\ verdict' \in [Runs -> {"none", "failed", "ran"}]
    BY <1>1, <1>2
  <2>3. taken' \in [Runs -> SUBSET Fetch]
    BY <1>1, <1>2, <2>1
  <2>4. QED
    BY <1>2, <2>1, <2>2, <2>3 DEF IInv, Typed
<1>4. Judged'
  <2> SUFFICES ASSUME NEW q \in Runs
               PROVE  /\ pc'[q] # "over" => taken'[q] = {} /\ verdict'[q] = "none"
                      /\ pc'[q] = "body" => isolate'[q] = "done"
                      /\ verdict'[q] = "ran" => pc'[q] = "over" /\ isolate'[q] = "done"
                                                /\ record'[q] = {} /\ taken'[q] = {}
    BY DEF Judged
  <2>1. CASE q = r
    BY <1>1, <1>2, <2>1 DEF Concludes
  <2>2. CASE q # r
    <3>1. pc'[q] = pc[q] /\ verdict'[q] = verdict[q] /\ taken'[q] = taken[q]
      BY <1>1, <1>2, <2>2
    <3>2. QED
      BY <1>2, <3>1 DEF IInv, Judged
  <2>3. QED
    BY <2>1, <2>2
<1>5. RefusalsAreFailed'
  <2> SUFFICES ASSUME NEW g \in barred
               PROVE  \/ g \in ToSet(sink') \/ g \in record[g[1]]
                      \/ \E q \in Runs : g \in taken'[q] /\ verdict'[q] = "failed"
    BY <1>2 DEF RefusalsAreFailed, ToSet
  <2>1. CASE g \in ToSet(sink) /\ g \notin ToSet(sink')
    <3>1. g \in taken'[r] /\ outcome = "failed"
      BY <1>1, <1>2, <2>1 DEF Concludes
    <3>2. QED
      BY <1>1, <1>2, <3>1
  <2>2. ASSUME NEW q \in Runs, g \in taken[q], verdict[q] = "failed"
        PROVE  g \in taken'[q] /\ verdict'[q] = "failed"
    <3>1. q # r
      BY <1>2, <2>2 DEF IInv, Judged
    <3>2. QED
      BY <1>1, <1>2, <2>2, <3>1
  <2>3. QED
    BY <2>1, <2>2 DEF IInv, RefusalsAreFailed
<1>6. QED
  BY <1>3, <1>4, <1>5 DEF IInv

-----------------------------------------------------------------------------
LEMMA InvNext == IInv /\ [Next]_vars => IInv'
<1> SUFFICES ASSUME IInv, [Next]_vars PROVE IInv'
  OBVIOUS
<1>1. ASSUME NEW f \in Fetch, Suite(f) \/ Arrive(f) \/ Hop(f) \/ Network(f) PROVE IInv'
  BY <1>1, FetchAdds, AddsKeepsInv
<1>2. ASSUME NEW r \in Runs,
             Start(r) \/ Lose(r) \/ Trip(r) \/ \E answer \in {"results", "error"} : Finish(r, answer)
      PROVE IInv'
  BY <1>2, RunKeepsInv
<1>3. ASSUME NEW r \in Runs, Judge(r) \/ Unreadable(r) \/ Reject(r) PROVE IInv'
  BY <1>3, JudgeConcludes, ConcludesKeepsInv
<1>4. CASE UNCHANGED vars
  BY <1>4 DEF vars, IInv, Typed, Judged, RefusalsAreFailed, ToSet
<1>5. QED
  BY <1>1, <1>2, <1>3, <1>4 DEF Next

\* A refusal of the gateway or of an isolate is never lost: it is in the sink, in the
\* record of its own isolate, or was drained by a run that failed.
THEOREM RefusalsNeverLost == Spec => []RefusalsAreFailed
<1>1. IInv => RefusalsAreFailed
  BY DEF IInv
<1>2. QED
  BY InvInit, InvNext, <1>1, PTL DEF Spec

\* What the runner guarantees of "a floor refusal fails the run": it does, unless another
\* run of the shared gateway drained the refusal first or it came after the run's drain.
THEOREM RefusalFailsTheRun == Spec => []RefusedRunFails
<1>1. IInv => RefusedRunFails
  <2> SUFFICES ASSUME IInv, NEW r \in Runs, verdict[r] = "ran", NEW f \in barred \cap Of(r)
               PROVE  f \notin record[r] /\ (f \in ToSet(sink) \/ \E q \in Runs \ {r} : f \in taken[q])
    BY DEF RefusedRunFails
  <2>1. record[r] = {} /\ f[1] = r
    BY DEF IInv, Judged, Of
  <2>2. \A q \in Runs : verdict[q] = "failed" => q # r
    OBVIOUS
  <2>3. QED
    BY <2>1, <2>2 DEF IInv, RefusalsAreFailed
<1>2. QED
  BY InvInit, InvNext, <1>1, PTL DEF Spec

-----------------------------------------------------------------------------
(* Types and slots.                                                          *)

LEMMA RunOfFetch == \A f \in Fetch : f[1] \in Runs
BY RunAssumption

-----------------------------------------------------------------------------
(* The elements of a sequence                                                *)

LEMMA ToSetOfEmpty == ToSet(<<>>) = {}
BY DEF ToSet

LEMMA ToSetOfAppend ==
    ASSUME NEW S, NEW s \in Seq(S), NEW e \in S
    PROVE  ToSet(Append(s, e)) = ToSet(s) \cup {e}
<1>1. Append(s, e)[Len(s) + 1] = e /\ Len(s) + 1 \in DOMAIN Append(s, e)
  OBVIOUS
<1>2. \A i \in DOMAIN s : i \in DOMAIN Append(s, e) /\ Append(s, e)[i] = s[i]
  OBVIOUS
<1>3. \A i \in DOMAIN Append(s, e) : i \in DOMAIN s \/ i = Len(s) + 1
  OBVIOUS
<1>4. QED
  BY <1>1, <1>2, <1>3 DEF ToSet

\* A sequence has no more elements than places.
LEMMA ToSetBound ==
    ASSUME NEW S, NEW s \in Seq(S), IsFiniteSet(ToSet(s))
    PROVE  Cardinality(ToSet(s)) <= Len(s)
<1>1. s \in Surjection(1 .. Len(s), ToSet(s))
  BY DEF ToSet, Surjection
<1>2. ExistsSurjection(1 .. Len(s), ToSet(s)) /\ Len(s) \in Nat
  BY <1>1 DEF ExistsSurjection
<1>3. QED
  BY <1>2, FS_SurjCardinalityBound

\* If every element has one place, taking the first one takes it out.
LEMMA ToSetOfTail ==
    ASSUME NEW S, NEW s \in Seq(S), s # <<>>, IsFiniteSet(ToSet(s)),
           Len(s) = Cardinality(ToSet(s))
    PROVE  /\ Head(s) \in ToSet(s) /\ Tail(s) \in Seq(S) /\ Len(Tail(s)) = Len(s) - 1
           /\ ToSet(Tail(s)) = ToSet(s) \ {Head(s)}
<1>1. /\ Len(s) \in Nat \ {0} /\ Tail(s) \in Seq(S) /\ Len(Tail(s)) = Len(s) - 1
      /\ Head(s) = s[1] /\ 1 \in DOMAIN s
  BY EmptySeq, HeadTailProperties
<1>2. \A i \in DOMAIN Tail(s) : i + 1 \in DOMAIN s /\ Tail(s)[i] = s[i + 1]
  BY <1>1
<1>3. \A i \in DOMAIN s : i = 1 \/ (i - 1 \in DOMAIN Tail(s) /\ Tail(s)[i - 1] = s[i])
  BY <1>1, <1>2
<1>4. ToSet(s) = ToSet(Tail(s)) \cup {Head(s)}
  <2>1. ToSet(Tail(s)) \subseteq ToSet(s)
    BY <1>2 DEF ToSet
  <2>2. Head(s) \in ToSet(s)
    BY <1>1 DEF ToSet
  <2>3. ASSUME NEW i \in DOMAIN s PROVE s[i] \in ToSet(Tail(s)) \cup {Head(s)}
    <3>1. CASE i = 1
      BY <1>1, <3>1
    <3>2. CASE i # 1
      BY <1>3, <3>2 DEF ToSet
    <3>3. QED
      BY <3>1, <3>2
  <2>4. QED
    BY <2>1, <2>2, <2>3 DEF ToSet
<1>5. Head(s) \notin ToSet(Tail(s))
  <2> SUFFICES ASSUME Head(s) \in ToSet(Tail(s)) PROVE FALSE
    OBVIOUS
  <2>1. ToSet(Tail(s)) = ToSet(s)
    BY <1>4
  <2>2. Cardinality(ToSet(Tail(s))) <= Len(Tail(s))
    BY <1>1, <2>1, ToSetBound
  <2>3. QED
    BY <1>1, <2>1, <2>2
<1>6. QED
  BY <1>1, <1>4, <1>5

-----------------------------------------------------------------------------
(* The limiter: what it counts follows who holds a slot and who waits.       *)

\* With a free slot nobody waits, and the newcomer holds it.
LEMMA AcquireSlot ==
    ASSUME NEW l \in Limiter, NEW H, NEW W, IsFiniteSet(H), IsFiniteSet(W), Counted(l, H, W),
           NEW f \in Fetch, f \notin H, HasSlot(l)
    PROVE  Acquire(l, f) \in Limiter /\ Counted(Acquire(l, f), H \cup {f}, W)
<1>1. l.inFlight \in 0 .. MaxInFlight /\ l.inFlight < MaxInFlight /\ MaxInFlight \in Nat
  BY MaxAssumption DEF Limiter, HasSlot
<1>2. W = {} /\ Acquire(l, f) = [l EXCEPT !.inFlight = l.inFlight + 1]
  BY <1>1 DEF Counted, Acquire
<1>3. Acquire(l, f) \in Limiter
  BY <1>1, <1>2 DEF Limiter
<1>4. Acquire(l, f).inFlight = l.inFlight + 1 /\ Acquire(l, f).waiters = l.waiters
  BY <1>2 DEF Limiter
<1>5. Cardinality(H \cup {f}) = Cardinality(H) + 1
  BY FS_AddElement
<1>6. QED
  BY <1>2, <1>3, <1>4, <1>5 DEF Counted

\* Without one the newcomer waits behind the others.
LEMMA AcquireWait ==
    ASSUME NEW l \in Limiter, NEW H, NEW W, IsFiniteSet(H), IsFiniteSet(W), Counted(l, H, W),
           NEW f \in Fetch, f \notin W, ~HasSlot(l)
    PROVE  Acquire(l, f) \in Limiter /\ Counted(Acquire(l, f), H, W \cup {f})
<1>1. l.inFlight = MaxInFlight /\ l.waiters \in Seq(Fetch)
  BY MaxAssumption DEF Limiter, HasSlot
<1>2. Acquire(l, f) = [l EXCEPT !.waiters = Append(l.waiters, f)]
  BY DEF Acquire
<1>3. Append(l.waiters, f) \in Seq(Fetch) /\ Len(Append(l.waiters, f)) = Len(l.waiters) + 1
  BY <1>1
<1>4. Acquire(l, f) \in Limiter
  BY <1>2, <1>3 DEF Limiter
<1>5. /\ Acquire(l, f).inFlight = l.inFlight
      /\ Acquire(l, f).waiters = Append(l.waiters, f)
  BY <1>2 DEF Limiter
<1>6. ToSet(Append(l.waiters, f)) = W \cup {f}
  BY <1>1, ToSetOfAppend DEF Counted
<1>7. Cardinality(W \cup {f}) = Cardinality(W) + 1
  BY FS_AddElement
<1>8. QED
  BY <1>1, <1>3, <1>4, <1>5, <1>6, <1>7 DEF Counted

\* When nobody waits, the slot is given back.
LEMMA ReleaseBack ==
    ASSUME NEW l \in Limiter, NEW H, NEW W, IsFiniteSet(H), IsFiniteSet(W), Counted(l, H, W),
           NEW f \in H, l.waiters = <<>>
    PROVE  /\ Heir(l) = {} /\ Release(l) \in Limiter
           /\ W = {} /\ Counted(Release(l), H \ {f}, W)
<1>1. Heir(l) = {} /\ W = {}
  BY ToSetOfEmpty DEF Heir, Counted
<1>2. Cardinality(H \ {f}) = Cardinality(H) - 1 /\ Cardinality(H) \in Nat /\ Cardinality(H) # 0
  BY FS_RemoveElement, FS_CardinalityType, FS_EmptySet
<1>3. Release(l) = [l EXCEPT !.inFlight = l.inFlight - 1]
  BY DEF Release
<1>4. l.inFlight - 1 \in 0 .. MaxInFlight
  BY <1>2, MaxAssumption DEF Limiter, Counted
<1>5. Release(l) \in Limiter
  BY <1>3, <1>4 DEF Limiter
<1>6. Release(l).inFlight = l.inFlight - 1 /\ Release(l).waiters = l.waiters
  BY <1>3 DEF Limiter
<1>7. QED
  BY <1>1, <1>2, <1>5, <1>6 DEF Counted

\* Otherwise the first waiter takes it over, and no slot is free meanwhile.
LEMMA ReleaseOver ==
    ASSUME NEW l \in Limiter, NEW H, NEW W, IsFiniteSet(H), IsFiniteSet(W), Counted(l, H, W),
           NEW f \in H, l.waiters # <<>>, H \cap W = {}
    PROVE  /\ Heir(l) = {Head(l.waiters)} /\ Head(l.waiters) \in W /\ Release(l) \in Limiter
           /\ Counted(Release(l), (H \ {f}) \cup {Head(l.waiters)}, W \ {Head(l.waiters)})
<1> DEFINE heir == Head(l.waiters)
<1>1. /\ l.waiters \in Seq(Fetch) /\ ToSet(l.waiters) = W
      /\ Len(l.waiters) = Cardinality(ToSet(l.waiters))
  BY DEF Limiter, Counted
<1>2. /\ heir \in W /\ Tail(l.waiters) \in Seq(Fetch)
      /\ Len(Tail(l.waiters)) = Len(l.waiters) - 1 /\ ToSet(Tail(l.waiters)) = W \ {heir}
  BY <1>1, ToSetOfTail
<1>3. Heir(l) = {heir} /\ Release(l) = [l EXCEPT !.waiters = Tail(l.waiters)]
  BY DEF Heir, Release
<1>4. Release(l) \in Limiter
  BY <1>2, <1>3 DEF Limiter
<1>5. Release(l).inFlight = l.inFlight /\ Release(l).waiters = Tail(l.waiters)
  BY <1>3 DEF Limiter
<1>6. heir \notin H \ {f} /\ IsFiniteSet(H \ {f}) /\ Cardinality(H \ {f}) = Cardinality(H) - 1
  BY <1>2, FS_RemoveElement
<1>7. Cardinality((H \ {f}) \cup {heir}) = Cardinality(H)
  <2>1. Cardinality((H \ {f}) \cup {heir}) = Cardinality(H \ {f}) + 1
    BY <1>6, FS_AddElement
  <2>2. Cardinality(H) \in Nat
    BY FS_CardinalityType
  <2>3. QED
    BY <1>6, <2>1, <2>2
<1>8. Cardinality(W \ {heir}) = Cardinality(W) - 1
  BY <1>2, FS_RemoveElement
<1>9. l.inFlight = MaxInFlight /\ l.inFlight = Cardinality(H) /\ Len(l.waiters) = Cardinality(W)
  BY <1>2 DEF Counted
<1>10. QED
  BY <1>2, <1>3, <1>4, <1>5, <1>7, <1>8, <1>9 DEF Counted

-----------------------------------------------------------------------------
(* Who holds and who waits                                                   *)

OnWire  == {"slot", "ready", "upstream"}
Outside == {"none", "held", "settled"}

HoldsGate == {f \in Fetch : fetch[f] \in OnWire}
WaitsGate == {f \in Fetch : fetch[f] = "queued"}
HoldsSlot(r) == {f \in Of(r) : fetch[f] \notin Outside}
WaitsSlot(r) == {f \in Of(r) : fetch[f] = "held"}

GateCounted  == gate \in Limiter /\ Counted(gate, HoldsGate, WaitsGate)
SlotCounted(r) == slots[r] \in Limiter /\ Counted(slots[r], HoldsSlot(r), WaitsSlot(r))

SInv == TypeOK /\ SlotsCounted

LEMMA SInvParts ==
    SInv <=> TypeOK /\ GateCounted /\ \A r \in Runs : SlotCounted(r)
BY Zenon DEF SInv, SlotsCounted, GateCounted, SlotCounted, HoldsGate, WaitsGate, HoldsSlot, WaitsSlot,
       OnWire, Outside, TypeOK

LEMMA SInvNext ==
    ASSUME TypeOK', GateCounted', \A r \in Runs : SlotCounted(r)'
    PROVE  SInv'
BY Zenon DEF SInv, SlotsCounted, GateCounted, SlotCounted, HoldsGate, WaitsGate, HoldsSlot, WaitsSlot,
       OnWire, Outside, TypeOK

LEMMA AllFinite ==
    /\ IsFiniteSet(HoldsGate) /\ IsFiniteSet(WaitsGate)
    /\ \A r \in Runs : IsFiniteSet(HoldsSlot(r)) /\ IsFiniteSet(WaitsSlot(r))
BY RunAssumption, FS_Subset DEF HoldsGate, WaitsGate, HoldsSlot, WaitsSlot, Of

LEMMA SInit == Init => SInv
<1> SUFFICES ASSUME Init PROVE SInv
  OBVIOUS
<1>1. NewLimiter \in Limiter /\ Counted(NewLimiter, {}, {})
  BY MaxAssumption, FS_EmptySet, ToSetOfEmpty DEF NewLimiter, Limiter, Counted
<1>2. HoldsGate = {} /\ WaitsGate = {} /\ \A r \in Runs : HoldsSlot(r) = {} /\ WaitsSlot(r) = {}
  BY DEF Init, HoldsGate, WaitsGate, HoldsSlot, WaitsSlot, OnWire, Outside, Of
<1>3. GateCounted /\ \A r \in Runs : SlotCounted(r)
  BY <1>1, <1>2 DEF Init, GateCounted, SlotCounted
<1>4. TypeOK
  BY <1>1, RunAssumption DEF Init, TypeOK, Stages
<1>5. QED
  BY <1>3, <1>4, SInvParts

\* Where no fetch changes its part in a limiter, the limiter counts as before.
LEMMA GateFrame ==
    ASSUME GateCounted, gate' = gate,
           \A f \in Fetch : /\ fetch'[f] \in OnWire <=> fetch[f] \in OnWire
                            /\ fetch'[f] = "queued" <=> fetch[f] = "queued"
    PROVE  GateCounted'
<1>1. HoldsGate' = HoldsGate /\ WaitsGate' = WaitsGate
  BY DEF HoldsGate, WaitsGate
<1>2. QED
  BY <1>1 DEF GateCounted, Counted

LEMMA SlotFrame ==
    ASSUME NEW r \in Runs, SlotCounted(r), slots'[r] = slots[r],
           \A f \in Of(r) : /\ fetch'[f] \in Outside <=> fetch[f] \in Outside
                            /\ fetch'[f] = "held" <=> fetch[f] = "held"
    PROVE  SlotCounted(r)'
<1>1. HoldsSlot(r)' = HoldsSlot(r) /\ WaitsSlot(r)' = WaitsSlot(r)
  BY DEF HoldsSlot, WaitsSlot
<1>2. QED
  BY <1>1 DEF SlotCounted, Counted

-----------------------------------------------------------------------------
(* The steps of a fetch                                                      *)

LEMMA AskStep == ASSUME SInv, NEW f \in Fetch, Ask(f) PROVE SInv'
<1> DEFINE own == f[1]
<1>0. /\ own \in Runs /\ f \in Of(own) /\ TypeOK /\ GateCounted
      /\ \A r \in Runs : SlotCounted(r)
  BY RunOfFetch, SInvParts DEF Of
<1>1. /\ fetch[f] = "none" /\ slots' = [slots EXCEPT ![own] = Acquire(slots[own], f)]
      /\ fetch' = [fetch EXCEPT ![f] = IF HasSlot(slots[own]) THEN "sent" ELSE "held"]
      /\ UNCHANGED <<gate, record, sink, before, hop, barred>> /\ UNCHANGED runVars
  BY DEF Ask
<1>2. fetch \in [Fetch -> Stages] /\ slots \in [Runs -> Limiter]
  BY <1>0 DEF TypeOK
<1>3. GateCounted'
  BY <1>0, <1>1, <1>2, GateFrame DEF OnWire
<1>4. ASSUME NEW r \in Runs, r # own PROVE SlotCounted(r)'
  <2>1. slots'[r] = slots[r] /\ \A g \in Of(r) : fetch'[g] = fetch[g]
    BY <1>0, <1>1, <1>2, <1>4 DEF Of
  <2>2. QED
    BY <1>0, <2>1, SlotFrame
<1>5. SlotCounted(own)'
  <2>0. /\ IsFiniteSet(HoldsSlot(own)) /\ IsFiniteSet(WaitsSlot(own))
        /\ f \notin HoldsSlot(own) /\ f \notin WaitsSlot(own)
        /\ slots[own] \in Limiter /\ Counted(slots[own], HoldsSlot(own), WaitsSlot(own))
        /\ slots'[own] = Acquire(slots[own], f)
    BY <1>0, <1>1, <1>2, AllFinite DEF HoldsSlot, WaitsSlot, SlotCounted, Outside
  <2>1. CASE HasSlot(slots[own])
    <3>1. HoldsSlot(own)' = HoldsSlot(own) \cup {f} /\ WaitsSlot(own)' = WaitsSlot(own)
      BY <1>0, <1>1, <1>2, <2>1 DEF HoldsSlot, WaitsSlot, Outside, Of
    <3>2. /\ Acquire(slots[own], f) \in Limiter
          /\ Counted(Acquire(slots[own], f), HoldsSlot(own) \cup {f}, WaitsSlot(own))
      BY <2>0, <2>1, AcquireSlot
    <3>3. QED
      BY <2>0, <3>1, <3>2 DEF SlotCounted, Counted
  <2>2. CASE ~HasSlot(slots[own])
    <3>1. HoldsSlot(own)' = HoldsSlot(own) /\ WaitsSlot(own)' = WaitsSlot(own) \cup {f}
      BY <1>0, <1>1, <1>2, <2>2 DEF HoldsSlot, WaitsSlot, Outside, Of
    <3>2. /\ Acquire(slots[own], f) \in Limiter
          /\ Counted(Acquire(slots[own], f), HoldsSlot(own), WaitsSlot(own) \cup {f})
      BY <2>0, <2>2, AcquireWait
    <3>3. QED
      BY <2>0, <3>1, <3>2 DEF SlotCounted, Counted
  <2>3. QED
    BY <2>1, <2>2
<1>6. TypeOK'
  <2>1. slots' \in [Runs -> Limiter]
    BY <1>1, <1>2, <1>5 DEF SlotCounted
  <2>2. fetch' \in [Fetch -> Stages]
    BY <1>1, <1>2 DEF Stages
  <2>3. QED
    BY <1>0, <1>1, <2>1, <2>2 DEF TypeOK, runVars
<1>7. QED
  BY <1>3, <1>4, <1>5, <1>6, SInvNext

LEMMA ArriveStep == ASSUME SInv, NEW f \in Fetch, Arrive(f) PROVE SInv'
<1>0. TypeOK /\ GateCounted /\ \A r \in Runs : SlotCounted(r)
  BY SInvParts
<1>1. /\ fetch[f] = "sent" /\ gate' = Acquire(gate, f)
      /\ fetch' = [fetch EXCEPT ![f] = IF HasSlot(gate) THEN "slot" ELSE "queued"]
      /\ before' = [before EXCEPT ![f] = Len(sink)]
      /\ UNCHANGED <<record, slots, sink, hop, barred>> /\ UNCHANGED runVars
  BY DEF Arrive
<1>2. fetch \in [Fetch -> Stages] /\ gate \in Limiter
  BY <1>0 DEF TypeOK
<1>3. ASSUME NEW r \in Runs PROVE SlotCounted(r)'
  BY <1>0, <1>1, <1>2, SlotFrame DEF Outside, Of
<1>4. GateCounted'
  <2>0. /\ f \notin HoldsGate /\ f \notin WaitsGate
        /\ Counted(gate, HoldsGate, WaitsGate)
    BY <1>0, <1>1 DEF HoldsGate, WaitsGate, GateCounted, OnWire
  <2>1. CASE HasSlot(gate)
    <3>1. HoldsGate' = HoldsGate \cup {f} /\ WaitsGate' = WaitsGate
      BY <1>1, <1>2, <2>1 DEF HoldsGate, WaitsGate, OnWire
    <3>2. /\ Acquire(gate, f) \in Limiter
          /\ Counted(Acquire(gate, f), HoldsGate \cup {f}, WaitsGate)
      BY <1>2, <2>0, <2>1, AllFinite, AcquireSlot
    <3>3. QED
      BY <1>1, <3>1, <3>2 DEF GateCounted, Counted
  <2>2. CASE ~HasSlot(gate)
    <3>1. HoldsGate' = HoldsGate /\ WaitsGate' = WaitsGate \cup {f}
      BY <1>1, <1>2, <2>2 DEF HoldsGate, WaitsGate, OnWire
    <3>2. /\ Acquire(gate, f) \in Limiter
          /\ Counted(Acquire(gate, f), HoldsGate, WaitsGate \cup {f})
      BY <1>2, <2>0, <2>2, AllFinite, AcquireWait
    <3>3. QED
      BY <1>1, <3>1, <3>2 DEF GateCounted, Counted
  <2>3. QED
    BY <2>1, <2>2
<1>5. TypeOK'
  <2>1. fetch' \in [Fetch -> Stages] /\ gate' \in Limiter
    BY <1>1, <1>2, <1>4 DEF Stages, GateCounted
  <2>2. before' \in [Fetch -> Nat]
    BY <1>0, <1>1 DEF TypeOK
  <2>3. QED
    BY <1>0, <1>1, <2>1, <2>2 DEF TypeOK, runVars
<1>6. QED
  BY <1>3, <1>4, <1>5, SInvNext

\* The fetch that settles in the isolate hands its slot to the first that waits there.
LEMMA SettleStep == ASSUME SInv, NEW f \in Fetch, Settle(f) PROVE SInv'
<1> DEFINE own == f[1]
<1>0. /\ own \in Runs /\ f \in Of(own) /\ TypeOK /\ GateCounted
      /\ \A r \in Runs : SlotCounted(r)
  BY RunOfFetch, SInvParts DEF Of
<1>1. /\ fetch[f] \in {"ok", "violation", "error"}
      /\ slots' = [slots EXCEPT ![own] = Release(slots[own])]
      /\ fetch' = [g \in Fetch |-> IF g = f THEN "settled"
                                   ELSE IF g \in Heir(slots[own]) THEN "sent" ELSE fetch[g]]
      /\ record' = record \/ record' = [record EXCEPT ![own] = @ \cup {f}]
      /\ UNCHANGED <<gate, sink, before, hop, barred>> /\ UNCHANGED runVars
  BY DEF Settle
<1>2. /\ fetch \in [Fetch -> Stages] /\ slots \in [Runs -> Limiter]
      /\ record \in [Runs -> SUBSET Fetch]
  BY <1>0 DEF TypeOK
<1>3. /\ IsFiniteSet(HoldsSlot(own)) /\ IsFiniteSet(WaitsSlot(own)) /\ f \in HoldsSlot(own)
      /\ HoldsSlot(own) \cap WaitsSlot(own) = {}
      /\ slots[own] \in Limiter /\ Counted(slots[own], HoldsSlot(own), WaitsSlot(own))
      /\ slots'[own] = Release(slots[own])
  BY <1>0, <1>1, <1>2, AllFinite DEF HoldsSlot, WaitsSlot, SlotCounted, Outside
<1>4. Heir(slots[own]) \subseteq WaitsSlot(own)
  <2>1. CASE slots[own].waiters = <<>>
    BY <2>1 DEF Heir
  <2>2. CASE slots[own].waiters # <<>>
    <3> DEFINE heir == Head(slots[own].waiters)
    <3>1. /\ Heir(slots[own]) = {heir} /\ heir \in WaitsSlot(own) /\ Release(slots[own]) \in Limiter
          /\ Counted(Release(slots[own]), (HoldsSlot(own) \ {f}) \cup {heir},
                     WaitsSlot(own) \ {heir})
      BY <1>3, <2>2, ReleaseOver
    <3>2. QED
      BY <3>1
  <2>3. QED
    BY <2>1, <2>2
<1>5. \A g \in Heir(slots[own]) : fetch[g] = "held" /\ g \in Of(own) /\ g \in Fetch
  BY <1>4 DEF WaitsSlot, Of
<1>6. GateCounted'
  BY <1>0, <1>1, <1>2, <1>5, GateFrame DEF OnWire
<1>7. ASSUME NEW r \in Runs, r # own PROVE SlotCounted(r)'
  <2>1. slots'[r] = slots[r] /\ \A g \in Of(r) : fetch'[g] = fetch[g]
    BY <1>0, <1>1, <1>2, <1>5, <1>7 DEF Of
  <2>2. QED
    BY <1>0, <2>1, SlotFrame
<1>8. SlotCounted(own)'
  <2>1. CASE slots[own].waiters = <<>>
    <3>1. Heir(slots[own]) = {}
      BY <1>3, <2>1, ReleaseBack
    <3>2. HoldsSlot(own)' = HoldsSlot(own) \ {f} /\ WaitsSlot(own)' = WaitsSlot(own)
      BY <1>0, <1>1, <1>2, <3>1 DEF HoldsSlot, WaitsSlot, Outside, Of
    <3>3. QED
      BY <1>3, <2>1, <3>2, ReleaseBack DEF SlotCounted, Counted
  <2>2. CASE slots[own].waiters # <<>>
    <3> DEFINE heir == Head(slots[own].waiters)
    <3>1. /\ Heir(slots[own]) = {heir} /\ heir \in WaitsSlot(own) /\ Release(slots[own]) \in Limiter
          /\ Counted(Release(slots[own]), (HoldsSlot(own) \ {f}) \cup {heir},
                     WaitsSlot(own) \ {heir})
      BY <1>3, <2>2, ReleaseOver
    <3>2. heir \in Of(own) /\ fetch[heir] = "held" /\ heir # f
      BY <1>1, <3>1 DEF WaitsSlot
    <3> HIDE DEF heir
    <3>3. \A g \in Of(own) : fetch'[g] = IF g = f THEN "settled"
                                         ELSE IF g = heir THEN "sent" ELSE fetch[g]
      BY <1>1, <3>1 DEF Of
    <3>4. HoldsSlot(own)' = (HoldsSlot(own) \ {f}) \cup {heir}
      BY <1>0, <3>2, <3>3 DEF HoldsSlot, Outside
    <3>5. WaitsSlot(own)' = WaitsSlot(own) \ {heir}
      BY <1>0, <1>1, <3>2, <3>3 DEF WaitsSlot
    <3>6. QED
      BY <1>3, <3>1, <3>4, <3>5 DEF SlotCounted, Counted
  <2>3. QED
    BY <2>1, <2>2
<1>9. TypeOK'
  <2>1. slots' \in [Runs -> Limiter]
    BY <1>1, <1>2, <1>8 DEF SlotCounted
  <2>2. fetch' \in [Fetch -> Stages]
    BY <1>1, <1>2 DEF Stages
  <2>3. record' \in [Runs -> SUBSET Fetch]
    BY <1>0, <1>1, <1>2
  <2>4. QED
    BY <1>0, <1>1, <2>1, <2>2, <2>3 DEF TypeOK, runVars
<1>10. QED
  BY <1>6, <1>7, <1>8, <1>9, SInvNext

\* The gateway answers: the slot goes to the first that waits at the gateway.
LEMMA AnswerStep ==
    ASSUME SInv, NEW f \in Fetch, NEW answer \in {"ok", "violation", "error"},
           fetch[f] \in OnWire, Answer(f, answer), UNCHANGED runVars, UNCHANGED <<record, slots>>,
           sink' \in Seq(Fetch), barred' \subseteq Fetch
    PROVE  SInv'
<1>0. TypeOK /\ GateCounted /\ \A r \in Runs : SlotCounted(r)
  BY SInvParts
<1>1. /\ gate' = Release(gate)
      /\ fetch' = [g \in Fetch |-> IF g = f THEN answer
                                   ELSE IF g \in Heir(gate) THEN "slot" ELSE fetch[g]]
      /\ before' = [before EXCEPT ![f] = 0] /\ hop' = [hop EXCEPT ![f] = 0]
  BY DEF Answer
<1>2. /\ fetch \in [Fetch -> Stages] /\ gate \in Limiter
      /\ before \in [Fetch -> Nat] /\ hop \in [Fetch -> 0 .. MaxRedirects]
  BY <1>0 DEF TypeOK
<1>3. /\ IsFiniteSet(HoldsGate) /\ IsFiniteSet(WaitsGate) /\ f \in HoldsGate
      /\ HoldsGate \cap WaitsGate = {} /\ Counted(gate, HoldsGate, WaitsGate)
  BY <1>0, AllFinite DEF HoldsGate, WaitsGate, GateCounted, OnWire
<1>4. Heir(gate) \subseteq WaitsGate
  <2>1. CASE gate.waiters = <<>>
    BY <2>1 DEF Heir
  <2>2. CASE gate.waiters # <<>>
    BY <1>2, <1>3, <2>2, ReleaseOver
  <2>3. QED
    BY <2>1, <2>2
<1>5. \A g \in Heir(gate) : fetch[g] = "queued" /\ g \in Fetch
  BY <1>4 DEF WaitsGate
<1>6. ASSUME NEW r \in Runs PROVE SlotCounted(r)'
  <2>1. \A g \in Of(r) : /\ fetch'[g] \in Outside <=> fetch[g] \in Outside
                         /\ fetch'[g] = "held" <=> fetch[g] = "held"
    BY <1>1, <1>5 DEF Outside, OnWire, Of
  <2>2. QED
    BY <1>0, <2>1, SlotFrame
<1>7. GateCounted'
  <2>1. CASE gate.waiters = <<>>
    <3>1. Heir(gate) = {}
      BY <1>2, <1>3, <2>1, ReleaseBack
    <3>2. HoldsGate' = HoldsGate \ {f} /\ WaitsGate' = WaitsGate
      BY <1>1, <1>2, <3>1 DEF HoldsGate, WaitsGate, OnWire
    <3>3. QED
      BY <1>1, <1>2, <1>3, <2>1, <3>2, ReleaseBack DEF GateCounted, Counted
  <2>2. CASE gate.waiters # <<>>
    <3> DEFINE heir == Head(gate.waiters)
    <3>1. /\ Heir(gate) = {heir} /\ heir \in WaitsGate /\ Release(gate) \in Limiter
          /\ Counted(Release(gate), (HoldsGate \ {f}) \cup {heir}, WaitsGate \ {heir})
      BY <1>2, <1>3, <2>2, ReleaseOver
    <3>2. heir \in Fetch /\ fetch[heir] = "queued" /\ heir # f
      BY <3>1 DEF WaitsGate, OnWire
    <3> HIDE DEF heir
    <3>3. \A g \in Fetch : fetch'[g] = IF g = f THEN answer
                                       ELSE IF g = heir THEN "slot" ELSE fetch[g]
      BY <1>1, <3>1
    <3>4. HoldsGate' = (HoldsGate \ {f}) \cup {heir}
      BY <3>2, <3>3 DEF HoldsGate, OnWire
    <3>5. WaitsGate' = WaitsGate \ {heir}
      BY <3>2, <3>3 DEF WaitsGate, OnWire
    <3>6. QED
      BY <1>1, <3>1, <3>4, <3>5 DEF GateCounted, Counted
  <2>3. QED
    BY <2>1, <2>2
<1>8. TypeOK'
  <2>1. fetch' \in [Fetch -> Stages] /\ gate' \in Limiter
    BY <1>1, <1>2, <1>7 DEF Stages, GateCounted
  <2>2. before' \in [Fetch -> Nat] /\ hop' \in [Fetch -> 0 .. MaxRedirects]
    BY <1>1, <1>2, RunAssumption
  <2>3. QED
    BY <1>0, <2>1, <2>2 DEF TypeOK, runVars
<1>9. QED
  BY <1>6, <1>7, <1>8, SInvNext

\* The other steps of a fetch move it inside its part of each limiter.
LEMMA PassStep ==
    ASSUME SInv, NEW f \in Fetch, RefuseVerb(f) \/ ReadBody(f) \/ Forward(f) PROVE SInv'
<1>0. f[1] \in Runs /\ TypeOK /\ GateCounted /\ \A r \in Runs : SlotCounted(r)
  BY RunOfFetch, SInvParts
<1>1. /\ fetch \in [Fetch -> Stages] /\ record \in [Runs -> SUBSET Fetch]
      /\ barred \subseteq Fetch /\ hop \in [Fetch -> 0 .. MaxRedirects] /\ MaxRedirects \in Nat
  BY <1>0, RunAssumption DEF TypeOK
<1>2. CASE RefuseVerb(f)
  <2>1. /\ fetch[f] = "none" /\ fetch' = [fetch EXCEPT ![f] = "settled"]
        /\ record' = [record EXCEPT ![f[1]] = @ \cup {f}] /\ barred' = barred \cup {f}
        /\ UNCHANGED <<slots, gate, sink, before, hop>> /\ UNCHANGED runVars
    BY <1>2 DEF RefuseVerb
  <2>2. GateCounted'
    BY <1>0, <1>1, <2>1, GateFrame DEF OnWire
  <2>3. ASSUME NEW r \in Runs PROVE SlotCounted(r)'
    BY <1>0, <1>1, <2>1, SlotFrame DEF Outside, Of
  <2>4. /\ fetch' \in [Fetch -> Stages] /\ record' \in [Runs -> SUBSET Fetch]
        /\ barred' \subseteq Fetch
    BY <1>0, <1>1, <2>1 DEF Stages
  <2>5. TypeOK'
    BY <1>0, <2>1, <2>4 DEF TypeOK, runVars
  <2>6. QED
    BY <2>2, <2>3, <2>5, SInvNext
<1>3. CASE ReadBody(f) \/ Forward(f)
  <2>1. /\ fetch[f] \in OnWire
        /\ \E stage \in {"ready", "upstream"} : fetch' = [fetch EXCEPT ![f] = stage]
        /\ hop' = hop \/ (hop[f] < MaxRedirects /\ hop' = [hop EXCEPT ![f] = @ + 1])
        /\ UNCHANGED <<record, slots, gate, sink, before, barred>> /\ UNCHANGED runVars
    BY <1>3 DEF ReadBody, Forward, AtHop, OnWire
  <2>2. GateCounted'
    BY <1>0, <1>1, <2>1, GateFrame DEF OnWire
  <2>3. ASSUME NEW r \in Runs PROVE SlotCounted(r)'
    BY <1>0, <1>1, <2>1, SlotFrame DEF Outside, OnWire, Of
  <2>4. fetch' \in [Fetch -> Stages]
    BY <1>1, <2>1 DEF Stages
  <2>5. hop' \in [Fetch -> 0 .. MaxRedirects]
    BY <1>1, <2>1
  <2>6. TypeOK'
    BY <1>0, <2>1, <2>4, <2>5 DEF TypeOK, runVars
  <2>7. QED
    BY <2>2, <2>3, <2>6, SInvNext
<1>4. QED
  BY <1>2, <1>3

LEMMA FetchStep ==
    ASSUME SInv, NEW f \in Fetch, Suite(f) \/ Arrive(f) \/ Hop(f) \/ Network(f)
    PROVE  SInv'
<1>1. sink \in Seq(Fetch) /\ barred \subseteq Fetch
  BY DEF SInv, TypeOK
<1>2. CASE Refuse(f)
  <2>1. Append(sink, f) \in Seq(Fetch) /\ barred \cup {f} \subseteq Fetch
    BY <1>1
  <2>2. fetch[f] \in OnWire
    BY <1>2 DEF Refuse, AtHop, OnWire
  <2>3. PICK answer \in {"ok", "violation", "error"} : Answer(f, answer)
    BY <1>2 DEF Refuse
  <2>4. /\ UNCHANGED runVars /\ UNCHANGED <<record, slots>>
        /\ sink' = Append(sink, f) /\ barred' = barred \cup {f}
    BY <1>2 DEF Refuse
  <2>5. QED
    BY <2>1, <2>2, <2>3, <2>4, AnswerStep
<1>3. CASE Network(f)
  <2>1. fetch[f] \in OnWire
    BY <1>3 DEF Network, Respond, Break, OnWire
  <2>2. PICK answer \in {"ok", "violation", "error"} : Answer(f, answer)
    BY <1>3 DEF Network, Respond, Break
  <2>3. UNCHANGED runVars /\ UNCHANGED <<record, slots, sink, barred>>
    BY <1>3 DEF Network, Respond, Break
  <2>4. QED
    BY <1>1, <2>1, <2>2, <2>3, AnswerStep
<1>4. QED
  BY <1>2, <1>3, AskStep, ArriveStep, SettleStep, PassStep DEF Suite, Hop

-----------------------------------------------------------------------------
(* The steps of a run                                                        *)

\* What the steps of a run write keeps its type, and the limiters are not theirs.
LEMMA RunStep ==
    ASSUME SInv, NEW r \in Runs,
           \/ Reject(r) \/ Start(r) \/ Lose(r) \/ Trip(r) \/ Judge(r) \/ Unreadable(r)
           \/ \E answer \in {"results", "error"} : Finish(r, answer)
    PROVE  SInv'
<1>0. TypeOK /\ GateCounted /\ \A q \in Runs : SlotCounted(q)
  BY SInvParts
<1>1. UNCHANGED <<slots, gate, fetch, before, hop, barred, record>>
  BY DEF Reject, Start, Lose, Trip, Judge, Unreadable, Finish, fetchVars
<1>2. GateCounted' /\ \A q \in Runs : SlotCounted(q)'
  BY <1>0, <1>1 DEF GateCounted, SlotCounted, Counted, HoldsGate, WaitsGate, HoldsSlot, WaitsSlot
<1>3. faults' \in 0 .. MaxFaults
  <2>1. faults' = faults \/ (faults < MaxFaults /\ faults' = faults + 1)
    BY DEF Reject, Start, Lose, Trip, Judge, Unreadable, Finish, Fault
  <2>2. QED
    BY <1>0, <2>1, RunAssumption DEF TypeOK
<1>4. /\ pc' \in [Runs -> {"idle", "racing", "body", "lost", "over"}]
      /\ isolate' \in [Runs -> {"none", "running", "done"}]
  BY <1>0 DEF TypeOK, Reject, Start, Lose, Trip, Judge, Unreadable, Finish
<1>5. body' \in [Runs -> {"none", "results", "error"}]
  BY <1>0 DEF TypeOK, Reject, Start, Lose, Trip, Judge, Unreadable, Finish
<1>6. verdict' \in [Runs -> {"none", "failed", "ran"}]
  BY <1>0 DEF TypeOK, Reject, Start, Lose, Trip, Judge, Unreadable, Finish, Outcome
<1>7. sink' \in Seq(Fetch) /\ taken' \in [Runs -> SUBSET Fetch]
  <2>1. sink \in Seq(Fetch) /\ taken \in [Runs -> SUBSET Fetch] /\ ToSet(sink) \in SUBSET Fetch
    BY <1>0 DEF TypeOK, ToSet
  <2>2. \/ UNCHANGED <<sink, taken>>
        \/ sink' = <<>> /\ taken' = [taken EXCEPT ![r] = ToSet(sink)]
        \/ /\ sink' = sink \/ sink' = <<>>
           /\ taken' = [taken EXCEPT ![r] = ToSet(sink) \ ToSet(sink')]
    BY DEF Reject, Start, Lose, Trip, Judge, Unreadable, Finish, fetchVars
  <2>3. <<>> \in Seq(Fetch) /\ ToSet(sink) \ ToSet(sink') \in SUBSET Fetch
    BY <2>1
  <2>4. sink' \in Seq(Fetch)
    BY <2>1, <2>2, <2>3, Zenon
  <2>5. taken' \in [Runs -> SUBSET Fetch]
    BY <2>1, <2>2, <2>3
  <2>6. QED
    BY <2>4, <2>5
<1>8. TypeOK'
  BY <1>0, <1>1, <1>3, <1>4, <1>5, <1>6, <1>7 DEF TypeOK
<1>9. QED
  BY <1>2, <1>8, SInvNext

LEMMA SNext == SInv /\ [Next]_vars => SInv'
<1> SUFFICES ASSUME SInv, [Next]_vars PROVE SInv'
  OBVIOUS
<1>1. CASE UNCHANGED vars
  <2>1. TypeOK'
    BY <1>1 DEF vars, SInv, TypeOK
  <2>2. SlotsCounted'
    BY <1>1 DEF vars, SInv, SlotsCounted, Counted
  <2>3. QED
    BY <2>1, <2>2 DEF SInv
<1>2. QED
  BY <1>1, FetchStep, RunStep DEF Next

\* Every variable of the runner and of its gateway has its type: a limiter never counts
\* below zero or above its slots.
THEOREM TypeCorrect == Spec => []TypeOK
<1>1. SInv => TypeOK
  BY DEF SInv
<1>2. QED
  BY SInit, SNext, <1>1, PTL DEF Spec

\* createFetchLimiter for any number of fetches and slots: whatever is refused, answered or
\* broken, every slot is held by one fetch, and no fetch waits while a slot is free.
THEOREM SlotsNeverLost == Spec => []SlotsCounted
<1>1. SInv => SlotsCounted
  BY DEF SInv
<1>2. QED
  BY SInit, SNext, <1>1, PTL DEF Spec

-----------------------------------------------------------------------------
(* First come, first served.                                                 *)

\* Two that wait, one ahead of the other
Before(l, f, g) ==
    \E i, j \in DOMAIN l.waiters : i < j /\ l.waiters[i] = f /\ l.waiters[j] = g

\* Both wait.
LEMMA BeforeWait ==
    ASSUME NEW l, NEW H, NEW W, Counted(l, H, W), NEW f, NEW g, Before(l, f, g)
    PROVE  f \in W /\ g \in W
  BY DEF Counted, Before, ToSet

\* A newcomer is behind them.
LEMMA AcquireOrder ==
    ASSUME NEW l \in Limiter, NEW h \in Fetch, NEW f, NEW g, Before(l, f, g)
    PROVE  Before(Acquire(l, h), f, g)
<1>1. l.waiters \in Seq(Fetch)
  BY DEF Limiter
<1>2. Acquire(l, h).waiters = l.waiters \/ Acquire(l, h).waiters = Append(l.waiters, h)
  BY DEF Acquire, Limiter
<1>3. PICK i \in DOMAIN l.waiters, j \in DOMAIN l.waiters :
         i < j /\ l.waiters[i] = f /\ l.waiters[j] = g
  BY DEF Before
<1>4. \A k \in DOMAIN l.waiters :
         k \in DOMAIN Append(l.waiters, h) /\ Append(l.waiters, h)[k] = l.waiters[k]
  BY <1>1
<1>5. CASE Acquire(l, h).waiters = l.waiters
  BY <1>3, <1>5 DEF Before
<1>6. CASE Acquire(l, h).waiters = Append(l.waiters, h)
  BY <1>3, <1>4, <1>6 DEF Before
<1>7. QED
  BY <1>2, <1>5, <1>6

\* The one behind is not the heir, and stays behind until the one ahead is.
LEMMA ReleaseOrder ==
    ASSUME NEW l \in Limiter, NEW H, NEW W, IsFiniteSet(W), Counted(l, H, W),
           NEW f, NEW g, Before(l, f, g)
    PROVE  g \notin Heir(l) /\ (f \in Heir(l) \/ Before(Release(l), f, g))
<1> DEFINE s == l.waiters
<1>1. s \in Seq(Fetch) /\ ToSet(s) = W /\ Len(s) = Cardinality(ToSet(s))
  BY DEF Limiter, Counted
<1>2. PICK i \in DOMAIN s, j \in DOMAIN s : i < j /\ s[i] = f /\ s[j] = g
  BY DEF Before
<1>3. s # <<>>
  BY <1>2
<1>4. Heir(l) = {Head(s)} /\ Release(l).waiters = Tail(s)
  BY <1>3 DEF Heir, Release, Limiter
<1>5. ToSet(Tail(s)) = ToSet(s) \ {Head(s)} /\ Tail(s) \in Seq(Fetch) /\ Len(Tail(s)) = Len(s) - 1
  BY <1>1, <1>3, ToSetOfTail
<1> HIDE DEF s
<1>6. i \in Nat /\ j \in Nat /\ i >= 1 /\ j > i /\ j <= Len(s) /\ Len(s) \in Nat
  BY <1>1, <1>2
<1>7. \A k \in DOMAIN s : k > 1 => k - 1 \in DOMAIN Tail(s) /\ Tail(s)[k - 1] = s[k]
  BY <1>1, <1>3, <1>5
<1>8. g \in ToSet(Tail(s))
  BY <1>2, <1>6, <1>7 DEF ToSet
<1>9. g \notin Heir(l)
  BY <1>4, <1>5, <1>8
<1>10. CASE i = 1
  <2>1. Head(s) = f
    BY <1>1, <1>2, <1>3, <1>10
  <2>2. QED
    BY <1>4, <1>9, <2>1
<1>11. CASE i # 1
  <2>1. /\ i - 1 \in DOMAIN Tail(s) /\ Tail(s)[i - 1] = f
        /\ j - 1 \in DOMAIN Tail(s) /\ Tail(s)[j - 1] = g /\ i - 1 < j - 1
    BY <1>2, <1>6, <1>7, <1>11
  <2>2. Before(Release(l), f, g)
    BY <1>4, <2>1 DEF Before
  <2>3. QED
    BY <1>9, <2>2
<1>12. QED
  BY <1>10, <1>11

\* Of two fetches that wait for the same limiter the one behind goes on waiting, behind the
\* other, until that one has its slot.
FirstComeFirstServed ==
    \A f, g \in Fetch :
        /\ Before(gate, f, g) =>
              fetch'[g] = "queued" /\ (Before(gate', f, g) \/ fetch'[f] = "slot")
        /\ \A r \in Runs : Before(slots[r], f, g) =>
              fetch'[g] = "held" /\ (Before(slots'[r], f, g) \/ fetch'[f] = "sent")

\* At the gateway
LEMMA GateInOrder ==
    ASSUME SInv, Next, NEW f \in Fetch, NEW g \in Fetch, Before(gate, f, g)
    PROVE  fetch'[g] = "queued" /\ (Before(gate', f, g) \/ fetch'[f] = "slot")
<1>0. /\ TypeOK /\ GateCounted /\ fetch \in [Fetch -> Stages] /\ gate \in Limiter
      /\ \A r \in Runs : SlotCounted(r)
  BY SInvParts DEF TypeOK
<1>1. fetch[f] = "queued" /\ fetch[g] = "queued"
  BY <1>0, BeforeWait DEF GateCounted, WaitsGate
<1>2. ASSUME gate' = gate, fetch'[g] = fetch[g] PROVE fetch'[g] = "queued" /\ Before(gate', f, g)
  BY <1>1, <1>2
<1>3. CASE \E r \in Runs : \/ Reject(r) \/ Start(r) \/ Lose(r) \/ Trip(r) \/ Judge(r) \/ Unreadable(r)
                           \/ \E answer \in {"results", "error"} : Finish(r, answer)
  <2>1. gate' = gate /\ fetch' = fetch
    BY <1>3 DEF Reject, Start, Lose, Trip, Judge, Unreadable, Finish, fetchVars
  <2>2. QED
    BY <1>2, <2>1
<1>4. ASSUME NEW h \in Fetch, RefuseVerb(h) \/ Ask(h) \/ ReadBody(h) \/ Forward(h)
      PROVE  fetch'[g] = "queued" /\ Before(gate', f, g)
  <2>1. gate' = gate /\ \E stage : fetch' = [fetch EXCEPT ![h] = stage]
    BY <1>4 DEF RefuseVerb, Ask, ReadBody, Forward
  <2>2. fetch[h] # "queued"
    BY <1>4 DEF RefuseVerb, Ask, ReadBody, Forward, AtHop
  <2>3. QED
    BY <1>0, <1>1, <1>2, <2>1, <2>2
<1>5. ASSUME NEW h \in Fetch, Settle(h) PROVE fetch'[g] = "queued" /\ Before(gate', f, g)
  <2>1. /\ gate' = gate /\ fetch[h] # "queued" /\ h[1] \in Runs
        /\ fetch' = [x \in Fetch |-> IF x = h THEN "settled"
                                     ELSE IF x \in Heir(slots[h[1]]) THEN "sent" ELSE fetch[x]]
    BY <1>5, RunOfFetch DEF Settle
  <2>2. g \notin Heir(slots[h[1]])
    <3>1. SlotCounted(h[1])
      BY <1>0, <2>1
    <3>2. Heir(slots[h[1]]) \subseteq ToSet(slots[h[1]].waiters)
      BY <3>1 DEF Heir, SlotCounted, Limiter, ToSet
    <3>3. QED
      BY <1>1, <3>1, <3>2 DEF SlotCounted, Counted, WaitsSlot
  <2>3. QED
    BY <1>1, <1>2, <2>1, <2>2
<1>6. ASSUME NEW h \in Fetch, Arrive(h) PROVE fetch'[g] = "queued" /\ Before(gate', f, g)
  <2>1. gate' = Acquire(gate, h) /\ fetch[h] = "sent" /\ \E stage : fetch' = [fetch EXCEPT ![h] = stage]
    BY <1>6 DEF Arrive
  <2>2. QED
    BY <1>0, <1>1, <2>1, AcquireOrder
<1>7. ASSUME NEW h \in Fetch, Refuse(h) \/ Network(h)
      PROVE  fetch'[g] = "queued" /\ (Before(gate', f, g) \/ fetch'[f] = "slot")
  <2>1. fetch[h] # "queued" /\ \E answer : Answer(h, answer)
    BY <1>7 DEF Refuse, Network, Respond, Break, AtHop
  <2>2. /\ gate' = Release(gate) /\ h # f /\ h # g
        /\ fetch'[f] = (IF f \in Heir(gate) THEN "slot" ELSE fetch[f])
        /\ fetch'[g] = (IF g \in Heir(gate) THEN "slot" ELSE fetch[g])
    BY <1>1, <2>1 DEF Answer
  <2>3. g \notin Heir(gate) /\ (f \in Heir(gate) \/ Before(Release(gate), f, g))
    <3>1. IsFiniteSet(WaitsGate)
      BY AllFinite
    <3>2. QED
      BY <1>0, <3>1, ReleaseOrder DEF GateCounted
  <2>4. QED
    BY <1>1, <2>2, <2>3
<1>8. QED
  BY <1>3, <1>4, <1>5, <1>6, <1>7 DEF Next, Suite, Hop

\* In the isolate
LEMMA SlotInOrder ==
    ASSUME SInv, Next, NEW r \in Runs, NEW f \in Fetch, NEW g \in Fetch, Before(slots[r], f, g)
    PROVE  fetch'[g] = "held" /\ (Before(slots'[r], f, g) \/ fetch'[f] = "sent")
<1>0. /\ TypeOK /\ GateCounted /\ fetch \in [Fetch -> Stages] /\ slots \in [Runs -> Limiter]
      /\ \A q \in Runs : SlotCounted(q)
  BY SInvParts DEF TypeOK
<1>1. fetch[f] = "held" /\ fetch[g] = "held" /\ f[1] = r /\ g[1] = r
  <2>1. Counted(slots[r], HoldsSlot(r), WaitsSlot(r))
    BY <1>0 DEF SlotCounted
  <2>2. f \in WaitsSlot(r) /\ g \in WaitsSlot(r)
    BY <2>1, BeforeWait
  <2>3. QED
    BY <2>2 DEF WaitsSlot, Of
<1>2. ASSUME slots'[r] = slots[r], fetch'[g] = fetch[g]
      PROVE  fetch'[g] = "held" /\ Before(slots'[r], f, g)
  BY <1>1, <1>2
<1>3. CASE \E q \in Runs : \/ Reject(q) \/ Start(q) \/ Lose(q) \/ Trip(q) \/ Judge(q) \/ Unreadable(q)
                           \/ \E answer \in {"results", "error"} : Finish(q, answer)
  <2>1. slots' = slots /\ fetch' = fetch
    BY <1>3 DEF Reject, Start, Lose, Trip, Judge, Unreadable, Finish, fetchVars
  <2>2. QED
    BY <1>2, <2>1
<1>4. ASSUME NEW h \in Fetch, RefuseVerb(h) \/ ReadBody(h) \/ Forward(h) \/ Arrive(h)
      PROVE  fetch'[g] = "held" /\ Before(slots'[r], f, g)
  <2>1. slots' = slots /\ \E stage : fetch' = [fetch EXCEPT ![h] = stage]
    BY <1>4 DEF RefuseVerb, Arrive, ReadBody, Forward
  <2>2. fetch[h] # "held"
    BY <1>4 DEF RefuseVerb, Arrive, ReadBody, Forward, AtHop
  <2>3. QED
    BY <1>0, <1>1, <1>2, <2>1, <2>2
<1>5. ASSUME NEW h \in Fetch, Refuse(h) \/ Network(h) PROVE fetch'[g] = "held" /\ Before(slots'[r], f, g)
  <2>1. slots' = slots /\ fetch[h] # "held" /\ \E answer : Answer(h, answer)
    BY <1>5 DEF Refuse, Network, Respond, Break, AtHop
  <2>2. g \notin Heir(gate)
    <3>1. Heir(gate) \subseteq ToSet(gate.waiters)
      BY <1>0 DEF Heir, TypeOK, Limiter, ToSet
    <3>2. QED
      BY <1>0, <1>1, <3>1 DEF GateCounted, Counted, WaitsGate
  <2>3. fetch'[g] = fetch[g]
    BY <1>1, <2>1, <2>2 DEF Answer
  <2>4. QED
    BY <1>2, <2>1, <2>3
<1>6. ASSUME NEW h \in Fetch, Ask(h) PROVE fetch'[g] = "held" /\ Before(slots'[r], f, g)
  <2>1. /\ slots' = [slots EXCEPT ![h[1]] = Acquire(slots[h[1]], h)] /\ fetch[h] = "none"
        /\ \E stage : fetch' = [fetch EXCEPT ![h] = stage]
    BY <1>6 DEF Ask
  <2>2. slots'[r] = slots[r] \/ slots'[r] = Acquire(slots[r], h)
    BY <1>0, <2>1
  <2>3. fetch'[g] = "held"
    BY <1>0, <1>1, <2>1
  <2>4. Before(Acquire(slots[r], h), f, g)
    BY <1>0, AcquireOrder
  <2>5. QED
    BY <2>2, <2>3, <2>4
<1>7. ASSUME NEW h \in Fetch, Settle(h)
      PROVE  fetch'[g] = "held" /\ (Before(slots'[r], f, g) \/ fetch'[f] = "sent")
  <2>1. /\ fetch[h] # "held" /\ h[1] \in Runs
        /\ slots' = [slots EXCEPT ![h[1]] = Release(slots[h[1]])]
        /\ fetch' = [x \in Fetch |-> IF x = h THEN "settled"
                                     ELSE IF x \in Heir(slots[h[1]]) THEN "sent" ELSE fetch[x]]
    BY <1>7, RunOfFetch DEF Settle
  <2>2. CASE h[1] = r
    <3>1. /\ slots'[r] = Release(slots[r]) /\ h # f /\ h # g
          /\ fetch'[f] = (IF f \in Heir(slots[r]) THEN "sent" ELSE fetch[f])
          /\ fetch'[g] = (IF g \in Heir(slots[r]) THEN "sent" ELSE fetch[g])
      BY <1>0, <1>1, <2>1, <2>2
    <3>2. g \notin Heir(slots[r]) /\ (f \in Heir(slots[r]) \/ Before(Release(slots[r]), f, g))
      <4>1. IsFiniteSet(WaitsSlot(r))
        BY AllFinite
      <4>2. QED
        BY <1>0, <4>1, ReleaseOrder DEF SlotCounted
    <3>3. QED
      BY <1>1, <3>1, <3>2
  <2>3. CASE h[1] # r
    <3>1. slots'[r] = slots[r]
      BY <1>0, <2>1, <2>3
    <3>2. g \notin Heir(slots[h[1]])
      <4>1. SlotCounted(h[1])
        BY <1>0, <2>1
      <4>2. Heir(slots[h[1]]) \subseteq ToSet(slots[h[1]].waiters)
        BY <4>1 DEF Heir, SlotCounted, Limiter, ToSet
      <4>3. QED
        BY <1>1, <2>3, <4>1, <4>2 DEF SlotCounted, Counted, WaitsSlot, Of
    <3>3. QED
      BY <1>1, <1>2, <2>1, <3>1, <3>2
  <2>4. QED
    BY <2>2, <2>3
<1>8. QED
  BY <1>3, <1>4, <1>5, <1>6, <1>7 DEF Next, Suite, Hop

\* createFetchLimiter, and its copy in the isolate's entry, whatever is refused, broken or lost:
\* the slot that is handed over goes to the fetch that waits the longest, and none is overtaken.
\* (The part of QueueMoves that is an action property: each answer moves the queue by one.)
THEOREM NoneIsOvertaken == Spec => [][FirstComeFirstServed]_vars
<1>1. SInv /\ [Next]_vars => [FirstComeFirstServed]_vars
  BY GateInOrder, SlotInOrder DEF FirstComeFirstServed
<1>2. QED
  BY SInit, SNext, <1>1, PTL DEF Spec

=============================================================================
