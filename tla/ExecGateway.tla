----------------------------- MODULE ExecGateway -----------------------------
(***************************************************************************)
(* The hosted runner of executable suites (exec/runner.ts) and the one     *)
(* egress gateway its runs share (exec/gateway.ts).                        *)
(*                                                                         *)
(* A run races its isolate against a wall-clock breaker.  The suite in the *)
(* isolate asks for fetches; each waits for a slot of the isolate, goes to *)
(* the gateway, waits for a slot there, has the body of its request read   *)
(* while it holds that slot, and is checked against the network floor at   *)
(* every redirect hop.  A refusal is recorded twice: in the sink  *)
(* of the gateway, which the runner drains when its isolate is done, and,  *)
(* by the marker of the gateway's answer, inside the isolate.              *)
(*                                                                         *)
(* Each of the runs has an isolate of its own.  What an isolate still has  *)
(* in flight when it is done, or when its breaker trips, goes on at the    *)
(* gateway.                                                                *)
(***************************************************************************)
EXTENDS FetchLimiter, FiniteSets, SequencesExt

CONSTANTS
    Runs,         \* the runs of this worker
    Fetch,        \* the fetches of the suites: a run and a number
    Bodied,       \* the fetches whose request has a body, which the suite sends as it likes
    Awaiting,     \* the runs whose suite awaits all its fetches; the others may do so
    MaxRedirects, \* EXEC_MAX_REDIRECTS
    MaxFaults     \* bound on the runs that are rejected or lost, on suites that break and
                  \* on records that cannot be read

ASSUME RunAssumption ==
    /\ IsFiniteSet(Runs) /\ IsFiniteSet(Fetch) /\ Fetch \subseteq Runs \X Nat
    /\ Awaiting \subseteq Runs /\ Bodied \subseteq Fetch
    /\ MaxRedirects \in Nat /\ MaxFaults \in Nat

Of(r) == {f \in Fetch : f[1] = r}

VARIABLES
    pc,        \* where workerLoaderExecRunner.run is, per run
    isolate,   \* "none", "running" or "done", per run
    body,      \* what the isolate answered: "results" or "error", per run
    record,    \* violations inside the isolate: fetches, per run
    slots,     \* the limiter of the isolate, per run
    gate,      \* the limiter of the gateway
    sink,      \* violations of the gateway, oldest first
    fetch,     \* where a fetch is; at the end the gateway's answer: "ok" or a marker
    before,    \* gatewayFetch's violations.length at its start, per fetch
    hop,       \* redirect hops of a fetch
    verdict,   \* ExecRunOutcome.status, per run
    faults,    \* faults so far, bounded by MaxFaults
    barred,    \* history: the fetches a gate has refused
    taken      \* history: what a run drained from the sink

vars == <<pc, isolate, body, record, slots, gate, sink, fetch, before, hop,
          verdict, faults, barred, taken>>
runVars   == <<pc, isolate, body, verdict, faults, taken>>
fetchVars == <<slots, gate, sink, fetch, before, hop, barred>>

Init ==
    /\ pc = [r \in Runs |-> "idle"] /\ isolate = [r \in Runs |-> "none"]
    /\ body = [r \in Runs |-> "none"] /\ record = [r \in Runs |-> {}]
    /\ slots = [r \in Runs |-> NewLimiter] /\ gate = NewLimiter /\ sink = <<>>
    /\ fetch = [f \in Fetch |-> "none"]
    /\ before = [f \in Fetch |-> 0] /\ hop = [f \in Fetch |-> 0]
    /\ verdict = [r \in Runs |-> "none"] /\ faults = 0
    /\ barred = {} /\ taken = [r \in Runs |-> {}]

-----------------------------------------------------------------------------
(* The fetch of the isolate's entry                                          *)

\* The suite calls fetch: the verb gate refuses it, or it acquires a slot or queues.
RefuseVerb(f) ==
    /\ isolate[f[1]] = "running" /\ fetch[f] = "none"
    /\ fetch' = [fetch EXCEPT ![f] = "settled"]
    /\ record' = [record EXCEPT ![f[1]] = @ \cup {f}]
    /\ barred' = barred \cup {f}
    /\ UNCHANGED <<runVars, slots, gate, sink, before, hop>>

Ask(f) ==
    /\ isolate[f[1]] = "running" /\ fetch[f] = "none"
    /\ slots' = [slots EXCEPT ![f[1]] = Acquire(@, f)]
    /\ fetch' = [fetch EXCEPT ![f] = IF HasSlot(slots[f[1]]) THEN "sent" ELSE "held"]
    /\ UNCHANGED <<runVars, record, gate, sink, before, hop, barred>>

\* The answer of the gateway: the marker "violation" is recorded; the slot is released.
Settle(f) ==
    /\ isolate[f[1]] = "running" /\ fetch[f] \in {"ok", "violation", "error"}
    /\ record' = IF fetch[f] = "violation" THEN [record EXCEPT ![f[1]] = @ \cup {f}] ELSE record
    /\ fetch' = [g \in Fetch |-> IF g = f THEN "settled"
                                 ELSE IF g \in Heir(slots[f[1]]) THEN "sent" ELSE fetch[g]]
    /\ slots' = [slots EXCEPT ![f[1]] = Release(@)]
    /\ UNCHANGED <<runVars, gate, sink, before, hop, barred>>

-----------------------------------------------------------------------------
(* gatewayFetch                                                              *)

Arrive(f) ==
    /\ fetch[f] = "sent"
    /\ before' = [before EXCEPT ![f] = Len(sink)]
    /\ gate' = Acquire(gate, f)
    /\ fetch' = [fetch EXCEPT ![f] = IF HasSlot(gate) THEN "slot" ELSE "queued"]
    /\ UNCHANGED <<runVars, record, slots, sink, hop, barred>>

\* request.text(): with the slot held, and before the floor is asked.
ReadBody(f) ==
    /\ fetch[f] = "slot"
    /\ fetch' = [fetch EXCEPT ![f] = "ready"]
    /\ UNCHANGED <<runVars, record, slots, gate, sink, before, hop, barred>>

\* The finally block: the answer goes back, the slot goes on and the locals are gone.
Answer(f, answer) ==
    /\ before' = [before EXCEPT ![f] = 0] /\ hop' = [hop EXCEPT ![f] = 0]
    /\ fetch' = [g \in Fetch |-> IF g = f THEN answer
                                 ELSE IF g \in Heir(gate) THEN "slot" ELSE fetch[g]]
    /\ gate' = Release(gate)

\* Slip: one redirect too many.
AtHopOneMore(f) == fetch[f] = "ready" \/ (fetch[f] = "upstream" /\ hop[f] <= MaxRedirects)

\* A host is checked: with its body read for the first one, with a redirect for the next ones.
AtHop(f) == fetch[f] = "ready" \/ (fetch[f] = "upstream" /\ hop[f] < MaxRedirects)

\* Slip: a refusal leaves before the slot is released.
RefuseKeepsSlot(f) ==
    /\ AtHop(f)
    /\ sink' = Append(sink, f) /\ barred' = barred \cup {f}
    /\ fetch' = [fetch EXCEPT ![f] = IF Len(sink') > before[f] THEN "violation" ELSE "error"]
    /\ before' = [before EXCEPT ![f] = 0] /\ hop' = [hop EXCEPT ![f] = 0]
    /\ UNCHANGED <<runVars, gate, record, slots>>

\* Refused by the floor; the marker compares two lengths of the shared sink.
Refuse(f) ==
    /\ AtHop(f)
    /\ sink' = Append(sink, f) /\ barred' = barred \cup {f}
    /\ Answer(f, IF Len(sink') > before[f] THEN "violation" ELSE "error")
    /\ UNCHANGED <<runVars, record, slots>>

\* Let through, to the first host or to that of a redirect.
Forward(f) ==
    /\ AtHop(f)
    /\ fetch' = [fetch EXCEPT ![f] = "upstream"]
    /\ hop' = IF fetch[f] = "ready" THEN hop ELSE [hop EXCEPT ![f] = @ + 1]
    /\ UNCHANGED <<runVars, record, slots, gate, sink, before, barred>>

\* The response is in memory, or is an event stream.
Respond(f) ==
    /\ fetch[f] = "upstream"
    /\ Answer(f, "ok")
    /\ UNCHANGED <<runVars, record, slots, sink, barred>>

\* realFetch or the read of a body throws, the request's or the response's, or there were too
\* many redirects.
Break(f) ==
    /\ fetch[f] = "upstream" \/ (fetch[f] = "slot" /\ f \in Bodied)
    /\ Answer(f, IF Len(sink) > before[f] THEN "violation" ELSE "error")
    /\ UNCHANGED <<runVars, record, slots, sink, barred>>

-----------------------------------------------------------------------------
(* workerLoaderExecRunner.run                                                *)

Fault == faults < MaxFaults /\ faults' = faults + 1

\* No gateway is bound or the source is outside the subset: no isolate exists.
Reject(r) ==
    /\ pc[r] = "idle" /\ Fault
    /\ pc' = [pc EXCEPT ![r] = "over"] /\ verdict' = [verdict EXCEPT ![r] = "failed"]
    /\ UNCHANGED <<fetchVars, isolate, body, record, taken>>

Start(r) ==
    /\ pc[r] = "idle"
    /\ pc' = [pc EXCEPT ![r] = "racing"] /\ isolate' = [isolate EXCEPT ![r] = "running"]
    /\ UNCHANGED <<fetchVars, body, record, verdict, faults, taken>>

\* The isolate is done; an answer after the breaker finds nobody.
Finish(r, answer) ==
    /\ isolate[r] = "running"
    /\ IF answer = "error" THEN Fault ELSE UNCHANGED faults
    /\ answer = "results" /\ r \in Awaiting => \A f \in Of(r) : fetch[f] \in {"none", "settled"}
    /\ isolate' = [isolate EXCEPT ![r] = "done"]
    /\ IF pc[r] = "racing"
       THEN pc' = [pc EXCEPT ![r] = "body"] /\ body' = [body EXCEPT ![r] = answer]
       ELSE UNCHANGED <<pc, body>>
    /\ UNCHANGED <<fetchVars, record, verdict, taken>>

\* The isolate breaks (CPU limit, crash), or its answer is not readable.
Lose(r) ==
    /\ pc[r] \in {"racing", "body"} /\ Fault
    /\ pc' = [pc EXCEPT ![r] = "lost"] /\ isolate' = [isolate EXCEPT ![r] = "done"]
    /\ UNCHANGED <<fetchVars, body, record, verdict, taken>>

\* Slip: the breaker is armed only between fetches.
TripBetweenFetches(r) ==
    /\ pc[r] = "racing" /\ \A f \in Of(r) : fetch[f] \in {"none", "settled"}
    /\ pc' = [pc EXCEPT ![r] = "lost"]
    /\ UNCHANGED <<fetchVars, isolate, body, record, verdict, faults, taken>>

\* The wall clock runs out: the isolate is left running.
Trip(r) ==
    /\ pc[r] = "racing"
    /\ pc' = [pc EXCEPT ![r] = "lost"]
    /\ UNCHANGED <<fetchVars, isolate, body, record, verdict, faults, taken>>

\* Slip: only the record of the parent is folded.
OutcomeOfParent(r, what) ==
    IF pc[r] = "lost" \/ body[r] = "error" \/ what # {} THEN "failed" ELSE "ran"

\* The outcome of a run that has drained what: a lost run fails whatever was drained,
\* any other is folded from both records.
Outcome(r, what) ==
    IF pc[r] = "lost" \/ body[r] = "error" \/ what # {} \/ record[r] # {} THEN "failed" ELSE "ran"

\* Slip: a record that cannot be read is an empty one.
UnreadableIsEmpty(r) ==
    /\ pc[r] \in {"body", "lost"} /\ Fault
    /\ sink' \in {sink, <<>>}
    /\ taken' = [taken EXCEPT ![r] = ToSet(sink) \ ToSet(sink')]
    /\ pc' = [pc EXCEPT ![r] = "over"]
    /\ verdict' = [verdict EXCEPT ![r] = Outcome(r, {})]
    /\ UNCHANGED <<isolate, body, record, slots, gate, fetch, before, hop, barred>>

\* The drain: everything in the sink is this run's now.
Judge(r) ==
    /\ pc[r] \in {"body", "lost"}
    /\ sink' = <<>> /\ taken' = [taken EXCEPT ![r] = ToSet(sink)]
    /\ pc' = [pc EXCEPT ![r] = "over"]
    /\ verdict' = [verdict EXCEPT ![r] = Outcome(r, ToSet(sink))]
    /\ UNCHANGED <<faults, isolate, body, record, slots, gate, fetch, before, hop, barred>>

\* The call that drains fails, before or after the record was cleared.
Unreadable(r) ==
    /\ pc[r] \in {"body", "lost"} /\ Fault
    /\ sink' \in {sink, <<>>}
    /\ taken' = [taken EXCEPT ![r] = ToSet(sink) \ ToSet(sink')]
    /\ pc' = [pc EXCEPT ![r] = "over"]
    /\ verdict' = [verdict EXCEPT ![r] = "failed"]
    /\ UNCHANGED <<isolate, body, record, slots, gate, fetch, before, hop, barred>>

-----------------------------------------------------------------------------
Suite(f)   == RefuseVerb(f) \/ Ask(f) \/ ReadBody(f) \/ Settle(f)
Network(f) == Respond(f) \/ Break(f)
Hop(f)     == Refuse(f) \/ Forward(f)

Next ==
    \/ \E f \in Fetch : Suite(f) \/ Arrive(f) \/ Hop(f) \/ Network(f)
    \/ \E r \in Runs : \/ Reject(r) \/ Start(r) \/ Lose(r) \/ Trip(r) \/ Judge(r) \/ Unreadable(r)
                       \/ \E answer \in {"results", "error"} : Finish(r, answer)

Spec == Init /\ [][Next]_vars

\* The timer fires, and what was awaited and has settled is resumed; a request without a body
\* has nothing to be awaited.  Nothing is assumed of the suite, which may never end a body, or
\* of the network.
FairSpec ==
    /\ Spec
    /\ \A f \in Fetch \ Bodied : WF_vars(ReadBody(f))
    /\ \A f \in Fetch : WF_vars(fetch[f] = "ready" /\ Hop(f))
    /\ \A r \in Runs : WF_vars(Trip(r)) /\ WF_vars(Judge(r))

-----------------------------------------------------------------------------
Stages == {"none", "held", "sent", "queued", "slot", "ready", "upstream", "ok", "violation", "error", "settled"}
Limiter == [inFlight : 0 .. MaxInFlight, waiters : Seq(Fetch)]

\* Every variable has its type; no fetch follows more than MaxRedirects redirects.
TypeOK ==
    /\ pc \in [Runs -> {"idle", "racing", "body", "lost", "over"}]
    /\ isolate \in [Runs -> {"none", "running", "done"}]
    /\ body \in [Runs -> {"none", "results", "error"}]
    /\ record \in [Runs -> SUBSET Fetch]
    /\ slots \in [Runs -> Limiter] /\ gate \in Limiter
    /\ sink \in Seq(Fetch) /\ barred \subseteq Fetch
    /\ fetch \in [Fetch -> Stages]
    /\ before \in [Fetch -> Nat] /\ hop \in [Fetch -> 0 .. MaxRedirects]
    /\ verdict \in [Runs -> {"none", "failed", "ran"}] /\ faults \in 0 .. MaxFaults
    /\ taken \in [Runs -> SUBSET Fetch]

\* The limiters count what is there: the fetches that hold a slot are as many as inFlight,
\* those that wait are the waiters, each once, and nobody waits while a slot is free.
Counted(l, holding, waiting) ==
    /\ l.inFlight = Cardinality(holding)
    /\ ToSet(l.waiters) = waiting /\ Len(l.waiters) = Cardinality(waiting)
    /\ waiting # {} => l.inFlight = MaxInFlight
SlotsCounted ==
    /\ Counted(gate, {f \in Fetch : fetch[f] \in {"slot", "ready", "upstream"}},
                     {f \in Fetch : fetch[f] = "queued"})
    /\ \A r \in Runs :
          Counted(slots[r], {f \in Of(r) : fetch[f] \notin {"none", "held", "settled"}},
                            {f \in Of(r) : fetch[f] = "held"})

\* Fail-closed totality of the shared sink: a refusal of the gateway is still in the sink
\* or is in the hands of a run that fails; no drain, whatever becomes of it, loses one.
RefusalsAreFailed ==
    \A f \in barred :
        \/ f \in ToSet(sink) \/ f \in record[f[1]]
        \/ \E r \in Runs : f \in taken[r] /\ verdict[r] = "failed"

\* A run whose own fetch was refused passes only when a neighbour drained the refusal, or
\* when the refusal came after the run's own drain; what the isolate recorded fails it.
RefusedRunFails ==
    \A r \in Runs : verdict[r] = "ran" =>
        \A f \in barred \cap Of(r) :
            /\ f \notin record[r]
            /\ f \in ToSet(sink) \/ \E q \in Runs \ {r} : f \in taken[q]

\* Every run that starts ends with a verdict, though the suite or an upstream never ends.
RunsEnd == \A r \in Runs : pc[r] = "racing" ~> pc[r] = "over"

\* While no upstream keeps a connection for ever and no suite leaves the body of a request
\* without an end, no fetch waits at the gateway for ever.
QueueMoves ==
    /\ \A f \in Fetch  : []<>(fetch[f] # "upstream")
    /\ \A f \in Bodied : []<>(fetch[f] # "slot")
    => \A f \in Fetch : []<>(fetch[f] # "queued")

\* gateway.ts: with one sink for concurrent runs, "a run may be failed by a neighbour's
\* refusal, never passed by one": a run with a refusal that another run drained fails too.
NeverPassedByNeighbour ==
    \A r, q \in Runs :
        r # q /\ verdict[r] = "ran" /\ r \in Awaiting => taken[q] \cap Of(r) = {}
=============================================================================
