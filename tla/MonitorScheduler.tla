--------------------------- MODULE MonitorScheduler ---------------------------
(***************************************************************************)
(* The AFK monitor of api.qa: the KV-backed registry (monitors.ts), the    *)
(* scheduled tick that re-verifies every due monitor (worker.ts,           *)
(* runLocalTick), and the per-host cooldown it reserves from (cooldown.ts).*)
(*                                                                         *)
(* Every awaited KV or Durable Object call is a step of its own, so ticks  *)
(* that overlap interleave with each other and with registrations and      *)
(* deletions exactly where the code yields.  The two KV keys behind a      *)
(* monitor stay apart: `index' is monitors:index and rec[m] is             *)
(* monitor:{m}; KV has no compare-and-swap, so each read-modify-write of   *)
(* the index is a read step and a write step.                              *)
(***************************************************************************)
EXTENDS Integers, Sequences, FiniteSets

CONSTANTS
    Monitors,    \* monitor ids: content addresses of (host, suite, environment)
    Hosts,       \* cooldown keys
    HostOf,      \* [Monitors -> Hosts]: hostKey of a monitor's target
    SelfHost,    \* api.qa, which loops back and is never held by the cooldown
    Ticks,       \* scheduledTick invocations that may be in flight together
    Clients,     \* registration and deletion requests in flight
    Intervals,   \* registrable intervals
    Ttl,         \* MONITOR_TTL_DAYS
    MinGap,      \* COOLDOWN_MIN_INTERVAL_MS
    MaxPerTick,  \* MONITOR_MAX_PER_TICK
    MaxMonitors, \* MAX_MONITORS
    HistoryCap,  \* RUN_HISTORY_CAP
    TickBound,   \* a tick ends within this time of its nowMs (environment)
    MaxNow,      \* bound on the clock
    MaxGen,      \* bound on the number of registrations
    MaxStarts,   \* bound on the number of ticks started
    MaxFaults,   \* bound on the number of exceptions, aborted requests and crashes
    None         \* no record, no item, no tick

\* A monitor's record; `gen' numbers the registrations, to tell them apart.
Record == [gen : Nat, interval : Intervals, due : Nat, expires : Nat]
Item   == Monitors \X Record      \* an element of the list a tick works through
Slot   == Monitors \X Nat \X Nat  \* <<monitor, registration, nextDueAt>>
Never  == -1

ASSUME ConstantsAssumption ==
    /\ HostOf \in [Monitors -> Hosts]
    /\ Intervals \subseteq Nat \ {0}
    /\ Ttl \in Nat /\ MinGap \in Nat /\ MaxPerTick \in Nat /\ MaxMonitors \in Nat
    /\ HistoryCap \in Nat \ {0} /\ TickBound \in Nat /\ MaxNow \in Nat /\ MaxGen \in Nat
    /\ MaxStarts \in Nat /\ MaxFaults \in Nat

ASSUME ProcessAssumption == None \notin Ticks /\ Ticks \cap Clients = {}

ASSUME NoneAssumption == None \notin Record

VARIABLES
    now,        \* the wall clock
    index,      \* monitors:index
    rec,        \* monitor:{id}
    runs,       \* runs:{id}: the times of the recorded runs, oldest first
    reserved,   \* DomainCooldown: host -> time of the last probe granted
    gen,        \* registrations so far
    chain,      \* claimChain: the tick inside claimDue's read-then-write
    pc,         \* where each tick and each client is
    tick,       \* the local variables of each tick
    req,        \* the local variables of each client's request
    starts,     \* ticks started so far, bounded by MaxStarts
    faults,     \* faults so far, bounded by MaxFaults
    claimed,    \* history: the slots claimed
    reclaimed,  \* history: the slots claimed more than once
    passed      \* history: monitors claimed past a due one since it became due

vars == <<now, index, rec, runs, reserved, gen, chain, pc, tick, req, starts, faults,
          claimed, reclaimed, passed>>
bounds  == <<starts, faults>>
history == <<claimed, reclaimed, passed>>

\* at: nowMs.  dead: expired monitors still to be deleted.  snap: the index read
\* for a deletion.  queue: due items still to be handled.  ran: summary.ran.
\* cur, held, hist: the item being handled, the record and run history read for it.
NoTick == [at |-> 0, dead |-> {}, snap |-> {}, queue |-> {}, ran |-> 0,
           cur |-> None, held |-> None, hist |-> <<>>]
NoReq  == [id |-> None, new |-> None, snap |-> {}]

Init ==
    /\ now = 0 /\ index = {} /\ gen = 0 /\ chain = None
    /\ rec = [m \in Monitors |-> None]
    /\ runs = [m \in Monitors |-> <<>>]
    /\ reserved = [h \in Hosts |-> Never]
    /\ pc = [p \in Ticks \cup Clients |-> "idle"]
    /\ tick = [t \in Ticks |-> NoTick]
    /\ req = [c \in Clients |-> NoReq]
    /\ starts = 0 /\ faults = 0
    /\ claimed = {} /\ reclaimed = {} /\ passed = [m \in Monitors |-> {}]

Goto(p, from, to) == pc[p] = from /\ pc' = [pc EXCEPT ![p] = to]

\* MonitorStore.get: the record, provided the index names the monitor.
Get(m) == IF m \in index THEN rec[m] ELSE None

\* MonitorStore.list
Listed == {m \in index : rec[m] # None}

\* decideCooldown, on the time of the last probe granted for the host
CooldownAllows(h) == reserved[h] = Never \/ now - reserved[h] >= MinGap

\* Slip: the claim only asks whether the monitor still exists.
StillDueAnySlot(t) == Get(tick[t].cur[1]) # None

\* Both re-read the record and compare its nextDueAt with the listed one.
StillDue(t) ==
    LET r == Get(tick[t].cur[1]) IN r # None /\ r.due = tick[t].cur[2].due

\* What claimDue and the catch block write: the next slot, one interval after nowMs.
Advanced(r, t) == [r EXCEPT !.due = tick[t].at + tick[t].cur[2].interval]

\* RUN_HISTORY_CAP: the last HistoryCap entries
Bounded(s) == IF Len(s) <= HistoryCap THEN s
              ELSE SubSeq(s, Len(s) - HistoryCap + 1, Len(s))

\* A monitor that leaves the index or gets a new slot starts a new wait.
ForgetPassed(keep) ==
    /\ passed' = [m \in Monitors |-> IF m \in keep THEN passed[m] ELSE {}]
    /\ UNCHANGED <<claimed, reclaimed>>

\* A monitor that is registered anew starts over: it waits anew and has passed nobody.
ForgetMonitor(m) ==
    /\ passed' = [x \in Monitors |-> IF x = m THEN {} ELSE passed[x] \ {m}]
    /\ UNCHANGED <<claimed, reclaimed>>

-----------------------------------------------------------------------------
(* Registration: POST /monitors                                              *)

\* monitors.get, then the cap on active monitors (a new id only), then the record
\* is built.  A refused registration changes nothing.
RegisterCheck(c, m, i) ==
    /\ Goto(c, "idle", "regPut")
    /\ gen < MaxGen
    /\ \/ Get(m) # None
       \/ Cardinality({x \in Listed : rec[x].expires > now}) < MaxMonitors
    /\ gen' = gen + 1
    /\ req' = [req EXCEPT ![c].id = m,
                          ![c].new = [gen |-> gen + 1, interval |-> i, due |-> now,
                                      expires |-> now + Ttl]]
    /\ UNCHANGED <<now, index, rec, runs, reserved, chain, tick, bounds, history>>

\* MonitorStore.register: the record is put before the index names it.
RegisterPut(c) ==
    /\ Goto(c, "regPut", "regRead")
    /\ rec' = [rec EXCEPT ![req[c].id] = req[c].new]
    /\ ForgetMonitor(req[c].id)
    /\ UNCHANGED <<now, index, runs, reserved, gen, chain, tick, req, bounds>>

RegisterRead(c) ==
    /\ IF req[c].id \in index
       THEN /\ Goto(c, "regRead", "idle")
            /\ req' = [req EXCEPT ![c] = NoReq]
       ELSE /\ Goto(c, "regRead", "regWrite")
            /\ req' = [req EXCEPT ![c].snap = index]
    /\ UNCHANGED <<now, index, rec, runs, reserved, gen, chain, tick, bounds, history>>

RegisterWrite(c) ==
    /\ Goto(c, "regWrite", "idle")
    /\ index' = req[c].snap \cup {req[c].id}
    /\ req' = [req EXCEPT ![c] = NoReq]
    /\ ForgetPassed(index')
    /\ UNCHANGED <<now, rec, runs, reserved, gen, chain, tick, bounds>>

(* DELETE /monitors/:id: an id the index does not name is a 404.             *)
DeleteRead(c, m) ==
    /\ Goto(c, "idle", "delWrite")
    /\ m \in index
    /\ req' = [req EXCEPT ![c].id = m, ![c].snap = index]
    /\ UNCHANGED <<now, index, rec, runs, reserved, gen, chain, tick, bounds, history>>

\* Slip: the record goes with the index entry.
DeleteWriteAndRecord(c) ==
    /\ Goto(c, "delWrite", "idle")
    /\ index' = req[c].snap \ {req[c].id}
    /\ rec' = [rec EXCEPT ![req[c].id] = None]
    /\ req' = [req EXCEPT ![c] = NoReq]
    /\ ForgetPassed(index')
    /\ UNCHANGED <<now, runs, reserved, gen, chain, tick, bounds>>

DeleteWrite(c) ==
    /\ Goto(c, "delWrite", "idle")
    /\ index' = req[c].snap \ {req[c].id}
    /\ req' = [req EXCEPT ![c] = NoReq]
    /\ ForgetPassed(index')
    /\ UNCHANGED <<now, rec, runs, reserved, gen, chain, tick, bounds>>

\* The request's isolate goes away between two of its KV operations.
ClientCrash(c) ==
    /\ pc[c] # "idle"
    /\ pc' = [pc EXCEPT ![c] = "idle"]
    /\ req' = [req EXCEPT ![c] = NoReq]
    /\ faults < MaxFaults /\ faults' = faults + 1
    /\ UNCHANGED <<now, index, rec, runs, reserved, gen, chain, tick, starts, history>>

\* GET /{domain} and POST /verify spend the same per-host cooldown.
OnDemandVerify(h) ==
    /\ h # SelfHost /\ CooldownAllows(h)
    /\ reserved' = [reserved EXCEPT ![h] = now]
    /\ UNCHANGED <<now, index, rec, runs, gen, chain, pc, tick, req, bounds, history>>

-----------------------------------------------------------------------------
(* The tick: eviction, listing                                               *)

StartTick(t) ==
    /\ Goto(t, "idle", "evict")
    /\ tick' = [tick EXCEPT ![t].at = now]
    /\ starts < MaxStarts /\ starts' = starts + 1
    /\ UNCHANGED <<now, index, rec, runs, reserved, gen, chain, req, faults, history>>

\* evictExpired lists, then deletes one by one what the listing showed expired.
EvictList(t) ==
    /\ Goto(t, "evict", "evictRead")
    /\ tick' = [tick EXCEPT ![t].dead = {m \in Listed : rec[m].expires <= tick[t].at}]
    /\ UNCHANGED <<now, index, rec, runs, reserved, gen, chain, req, bounds, history>>

EvictRead(t) ==
    /\ Goto(t, "evictRead", "evictWrite")
    /\ tick[t].dead # {}
    /\ tick' = [tick EXCEPT ![t].snap = index]
    /\ UNCHANGED <<now, index, rec, runs, reserved, gen, chain, req, bounds, history>>

EvictWrite(t) ==
    /\ Goto(t, "evictWrite", "evictRead")
    /\ \E m \in tick[t].dead :
          /\ tick' = [tick EXCEPT ![t].dead = @ \ {m}, ![t].snap = {}]
          /\ index' = IF m \in tick[t].snap THEN tick[t].snap \ {m} ELSE index
    /\ ForgetPassed(index')
    /\ UNCHANGED <<now, rec, runs, reserved, gen, chain, req, bounds>>

ListDue(t) ==
    /\ Goto(t, "evictRead", "next")
    /\ tick[t].dead = {}
    /\ tick' = [tick EXCEPT ![t].queue =
                   {<<m, rec[m]>> : m \in {x \in Listed : rec[x].due <= tick[t].at}}]
    /\ UNCHANGED <<now, index, rec, runs, reserved, gen, chain, req, bounds, history>>

-----------------------------------------------------------------------------
(* The tick: one due monitor after the other, the most overdue first         *)

\* Slip: the due monitors are taken in the order of the registry.
RegistryOrder(t) == tick[t].queue

MostOverdue(t) == {q \in tick[t].queue : \A o \in tick[t].queue : q[2].due <= o[2].due}

\* The cap is reached: what is left stays due for a later tick.
Defer(t) ==
    /\ pc[t] = "next" /\ tick[t].queue # {} /\ tick[t].ran >= MaxPerTick
    /\ tick' = [tick EXCEPT ![t].queue = {}]
    /\ UNCHANGED <<now, index, rec, runs, reserved, gen, chain, pc, req, bounds, history>>

\* The host is in cooldown: the monitor is skipped and stays due.
SkipCooldown(t) ==
    /\ pc[t] = "next" /\ tick[t].ran < MaxPerTick
    /\ \E q \in MostOverdue(t) :
          /\ HostOf[q[1]] # SelfHost /\ ~CooldownAllows(HostOf[q[1]])
          /\ tick' = [tick EXCEPT ![t].queue = @ \ {q}]
          /\ ForgetPassed(Monitors \ {q[1]})
    /\ UNCHANGED <<now, index, rec, runs, reserved, gen, chain, pc, req, bounds>>

\* The probe is reserved before the slot is claimed; api.qa itself never gates.
Reserve(t) ==
    /\ Goto(t, "next", "claimGet") /\ tick[t].ran < MaxPerTick
    /\ \E q \in MostOverdue(t) :
          /\ tick' = [tick EXCEPT ![t].cur = q, ![t].queue = @ \ {q}]
          /\ IF HostOf[q[1]] = SelfHost THEN UNCHANGED reserved
             ELSE /\ CooldownAllows(HostOf[q[1]])
                  /\ reserved' = [reserved EXCEPT ![HostOf[q[1]]] = now]
    /\ UNCHANGED <<now, index, rec, runs, gen, chain, req, bounds, history>>

\* The item is done with: its local variables go out of scope.
Release(t) == tick' = [tick EXCEPT ![t].cur = None, ![t].held = None, ![t].hist = <<>>]

EndTick(t) ==
    /\ Goto(t, "next", "idle") /\ tick[t].queue = {}
    /\ tick' = [tick EXCEPT ![t] = NoTick]
    /\ UNCHANGED <<now, index, rec, runs, reserved, gen, chain, req, bounds, history>>

-----------------------------------------------------------------------------
(* MonitorStore.claimDue: attempts are serialized by claimChain.             *)

\* Slip: claims are not serialized, so two ticks read before either writes.
ClaimReadUnserialized(t) ==
    /\ Goto(t, "claimGet", "claimPut")
    /\ StillDue(t)
    /\ tick' = [tick EXCEPT ![t].held = Get(tick[t].cur[1])]
    /\ UNCHANGED <<now, index, rec, runs, reserved, gen, chain, req, bounds, history>>

\* The slot is still the one the tick listed: keep the record that was read.
ClaimRead(t) ==
    /\ Goto(t, "claimGet", "claimPut") /\ chain = None
    /\ StillDue(t)
    /\ tick' = [tick EXCEPT ![t].held = Get(tick[t].cur[1])]
    /\ chain' = t
    /\ UNCHANGED <<now, index, rec, runs, reserved, gen, req, bounds, history>>

\* The monitor is gone or another tick advanced it: not due for this one any more.
ClaimLost(t) ==
    /\ Goto(t, "claimGet", "next") /\ chain = None
    /\ ~StillDue(t)
    /\ Release(t)
    /\ UNCHANGED <<now, index, rec, runs, reserved, gen, chain, req, bounds, history>>

ClaimWrite(t) ==
    /\ Goto(t, "claimPut", "verify")
    /\ LET m == tick[t].cur[1]
           r == Advanced(tick[t].held, t)
           slot == <<m, tick[t].held.gen, tick[t].held.due>>
       IN  /\ rec' = [rec EXCEPT ![m] = r]
           /\ tick' = [tick EXCEPT ![t].held = r]
           /\ reclaimed' = reclaimed \cup ({slot} \cap claimed)
           /\ claimed' = claimed \cup {slot}
           /\ passed' = [x \in Monitors |->
                            IF x = m THEN {}
                            ELSE IF x \in Listed /\ rec[x].due <= tick[t].at
                                 THEN passed[x] \cup {m} ELSE passed[x]]
    /\ chain' = None
    /\ UNCHANGED <<now, index, runs, reserved, gen, req, bounds>>

-----------------------------------------------------------------------------
(* The verification and its records                                          *)

\* verifyTarget (and the stored suite) answered; appendRun reads the history.
Verified(t) ==
    /\ Goto(t, "verify", "append")
    /\ tick' = [tick EXCEPT ![t].hist = runs[tick[t].cur[1]]]
    /\ UNCHANGED <<now, index, rec, runs, reserved, gen, chain, req, bounds, history>>

AppendRun(t) ==
    /\ Goto(t, "append", "record")
    /\ runs' = [runs EXCEPT ![tick[t].cur[1]] = Bounded(Append(tick[t].hist, tick[t].at))]
    /\ UNCHANGED <<now, index, rec, reserved, gen, chain, tick, req, bounds, history>>

\* The series is written and the alerts are dispatched; the run counts.
Recorded(t) ==
    /\ Goto(t, "record", "finish")
    /\ tick' = [tick EXCEPT ![t].ran = @ + 1]
    /\ UNCHANGED <<now, index, rec, runs, reserved, gen, chain, req, bounds, history>>

\* monitors.update(claimed): the record AS CLAIMED is written back, with a new TTL.
Finish(t) ==
    /\ Goto(t, "finish", "next")
    /\ rec' = [rec EXCEPT ![tick[t].cur[1]] =
                  [tick[t].held EXCEPT !.expires = tick[t].at + Ttl]]
    /\ Release(t)
    /\ ForgetPassed(Monitors \ {tick[t].cur[1]})
    /\ UNCHANGED <<now, index, runs, reserved, gen, chain, req, bounds>>

-----------------------------------------------------------------------------
(* Failures                                                                  *)

\* Slip: an exception inside claimDue leaves the chain unsettled.
ThrowKeepsChain(t) ==
    /\ pc[t] \in {"claimGet", "claimPut", "verify", "append", "record", "finish"}
    /\ pc' = [pc EXCEPT ![t] = "errGet"]
    /\ faults < MaxFaults /\ faults' = faults + 1
    /\ UNCHANGED <<now, index, rec, runs, reserved, gen, chain, tick, req, starts, history>>

\* Anything from the claim on may throw; the catch re-reads the record...
Throw(t) ==
    /\ pc[t] \in {"claimGet", "claimPut", "verify", "append", "record", "finish"}
    /\ pc' = [pc EXCEPT ![t] = "errGet"]
    /\ chain' = IF chain = t THEN None ELSE chain
    /\ faults < MaxFaults /\ faults' = faults + 1
    /\ UNCHANGED <<now, index, rec, runs, reserved, gen, tick, req, starts, history>>

\* Slip: the catch does not ask whether the record is still there.
ErrorReadUnchecked(t) ==
    /\ Goto(t, "errGet", "errPut")
    /\ tick' = [tick EXCEPT ![t].held = Get(tick[t].cur[1])]
    /\ UNCHANGED <<now, index, rec, runs, reserved, gen, chain, req, bounds, history>>

\* ...and forces the schedule forward only if the slot is still the listed one.
ErrorRead(t) ==
    /\ pc[t] = "errGet"
    /\ IF StillDue(t)
       THEN /\ Goto(t, "errGet", "errPut")
            /\ tick' = [tick EXCEPT ![t].held = Get(tick[t].cur[1])]
       ELSE /\ Goto(t, "errGet", "next")
            /\ Release(t)
    /\ UNCHANGED <<now, index, rec, runs, reserved, gen, chain, req, bounds, history>>

ErrorWrite(t) ==
    /\ Goto(t, "errPut", "next")
    /\ rec' = [rec EXCEPT ![tick[t].cur[1]] = Advanced(tick[t].held, t)]
    /\ Release(t)
    /\ ForgetPassed(Monitors \ {tick[t].cur[1]})
    /\ UNCHANGED <<now, index, runs, reserved, gen, chain, req, bounds>>

\* Outside the per-monitor catch an exception ends the whole tick.
Abort(t) ==
    /\ pc[t] \in {"evict", "evictRead", "evictWrite", "next", "errGet", "errPut"}
    /\ pc' = [pc EXCEPT ![t] = "idle"]
    /\ tick' = [tick EXCEPT ![t] = NoTick]
    /\ faults < MaxFaults /\ faults' = faults + 1
    /\ UNCHANGED <<now, index, rec, runs, reserved, gen, chain, req, starts, history>>

\* The scheduler Durable Object goes away, and every tick it runs with it.
CrashScheduler ==
    /\ \E t \in Ticks : pc[t] # "idle"
    /\ pc' = [p \in Ticks \cup Clients |-> IF p \in Ticks THEN "idle" ELSE pc[p]]
    /\ tick' = [t \in Ticks |-> NoTick]
    /\ chain' = None
    /\ faults < MaxFaults /\ faults' = faults + 1
    /\ UNCHANGED <<now, index, rec, runs, reserved, gen, req, starts, history>>

\* Time passes; TickBound is the environment's promise that a tick ends in time.
Advance ==
    /\ now < MaxNow
    /\ \A t \in Ticks : pc[t] # "idle" => now < tick[t].at + TickBound
    /\ now' = now + 1
    /\ UNCHANGED <<index, rec, runs, reserved, gen, chain, pc, tick, req, bounds, history>>

\* Nothing is in flight: the Worker waits for the next cron or request.
Quiet ==
    /\ \A p \in Ticks \cup Clients : pc[p] = "idle"
    /\ UNCHANGED vars

-----------------------------------------------------------------------------
RunStep(t) ==
    \/ EvictList(t) \/ EvictRead(t) \/ EvictWrite(t) \/ ListDue(t)
    \/ Defer(t) \/ SkipCooldown(t) \/ Reserve(t) \/ EndTick(t)
    \/ ClaimRead(t) \/ ClaimLost(t) \/ ClaimWrite(t)
    \/ Verified(t) \/ AppendRun(t) \/ Recorded(t) \/ Finish(t)
    \/ ErrorRead(t) \/ ErrorWrite(t)

TickStep(t) == StartTick(t) \/ RunStep(t) \/ Throw(t) \/ Abort(t)

ClientStep(c) ==
    \/ \E m \in Monitors, i \in Intervals : RegisterCheck(c, m, i)
    \/ \E m \in Monitors : DeleteRead(c, m)
    \/ RegisterPut(c) \/ RegisterRead(c) \/ RegisterWrite(c) \/ DeleteWrite(c)
    \/ ClientCrash(c)

Next ==
    \/ \E t \in Ticks : TickStep(t)
    \/ \E c \in Clients : ClientStep(c)
    \/ \E h \in Hosts : OnDemandVerify(h)
    \/ CrashScheduler
    \/ Advance
    \/ Quiet

Spec == Init /\ [][Next]_vars

\* The runtime resumes a tick whose await settled; claimChain is a FIFO promise
\* chain, so a tick that waits for its turn at claimDue gets it.
FairSpec == Spec /\ \A t \in Ticks :
                       WF_vars(RunStep(t)) /\ SF_vars(ClaimRead(t) \/ ClaimLost(t))

-----------------------------------------------------------------------------
(* Types, and what a tick holds at each of its steps.                        *)

Handling   == {"claimGet", "claimPut", "verify", "append", "record", "finish", "errGet", "errPut"}
Holding    == {"claimPut", "verify", "append", "record", "finish", "errPut"}
Requesting == {"regPut", "regRead", "regWrite", "delWrite"}

TickRec == [at : Nat, dead : SUBSET Monitors, snap : SUBSET Monitors, queue : SUBSET Item,
            ran : Nat, cur : Item \cup {None}, held : Record \cup {None}, hist : Seq(Nat)]
ReqRec  == [id : Monitors \cup {None}, new : Record \cup {None}, snap : SUBSET Monitors]

StoreTypeOK ==
    /\ now \in Nat /\ gen \in Nat /\ starts \in Nat /\ faults \in Nat
    /\ index \in SUBSET Monitors
    /\ rec \in [Monitors -> Record \cup {None}]
    /\ runs \in [Monitors -> Seq(Nat)]
    /\ reserved \in [Hosts -> Nat \cup {Never}]
    /\ chain \in Ticks \cup {None}

PcTypeOK ==
    pc \in [Ticks \cup Clients ->
              Handling \cup Requesting \cup {"idle", "evict", "evictRead", "evictWrite", "next"}]

TickTypeOK == tick \in [Ticks -> TickRec]

ReqTypeOK == req \in [Clients -> ReqRec]

HistoryTypeOK ==
    /\ claimed \in SUBSET Slot /\ reclaimed \in SUBSET Slot
    /\ passed \in [Monitors -> SUBSET Monitors]

\* A record that will be written back was read before, and only a tick inside claimDue
\* holds the claim chain.
HoldsOK ==
    /\ \A t \in Ticks :
          /\ pc[t] \in Handling => tick[t].cur \in Item
          /\ pc[t] \in Holding => tick[t].held \in Record
          /\ chain = t <=> pc[t] = "claimPut"
    /\ \A c \in Clients :
          /\ pc[c] \in Requesting => req[c].id \in Monitors
          /\ pc[c] = "regPut" => req[c].new \in Record

\* Every variable has its type and no step writes back a record that was never read.
TypeOK == StoreTypeOK /\ PcTypeOK /\ TickTypeOK /\ ReqTypeOK /\ HistoryTypeOK /\ HoldsOK

\* The environment keeps every tick shorter than every interval.
TimelyTicks == \A i \in Intervals : TickBound < i

Claimed == {"verify", "append", "record", "finish"}

\* The record number of a registration that is not stored yet is not in use anywhere.
FreshRegistrations ==
    /\ \A m \in Monitors : rec[m] # None => rec[m].gen <= gen
    /\ \A t \in Ticks : pc[t] \in Holding => tick[t].held.gen <= gen
    /\ \A s \in claimed : s[2] <= gen
    /\ \A c \in Clients : pc[c] = "regPut" =>
          /\ req[c].new.gen <= gen
          /\ \A m \in Monitors : rec[m] # None => rec[m].gen # req[c].new.gen
          /\ \A t \in Ticks : pc[t] \in Holding => tick[t].held.gen # req[c].new.gen
          /\ \A s \in claimed : s[2] # req[c].new.gen
          /\ \A d \in Clients \ {c} : pc[d] = "regPut" => req[d].new.gen # req[c].new.gen

\* What a tick works on was due at its nowMs, and the tick is still within TickBound.
TicksTimely ==
    \A t \in Ticks :
       /\ pc[t] = "idle" => tick[t].queue = {}
       /\ pc[t] # "idle" => tick[t].at <= now /\ now <= tick[t].at + TickBound
       /\ \A q \in tick[t].queue : q[2].due <= tick[t].at
       /\ pc[t] \in Handling => tick[t].cur[2].due <= tick[t].at

\* No record, stored or about to be written by a tick, carries a slot already claimed.
SlotsUnclaimed ==
    /\ \A m \in Monitors : rec[m] # None => <<m, rec[m].gen, rec[m].due>> \notin claimed
    /\ \A s \in claimed : s[3] <= now
    /\ \A t \in Ticks :
          /\ pc[t] = "claimPut" =>
                /\ tick[t].held.due = tick[t].cur[2].due
                /\ <<tick[t].cur[1], tick[t].held.gen, tick[t].held.due>> \notin claimed
          /\ pc[t] \in Claimed => \E i \in Intervals : tick[t].held.due = tick[t].at + i

\* A due slot of a registration is run by one tick at most, however many ticks overlap
\* and whatever is re-registered, thrown or crashed meanwhile: claimDue's promise that a
\* slot is never double-run.
SlotClaimedOnce == reclaimed = {}

\* The index never names a monitor without a record, even when a registration dies
\* half-way or two index writes race: MonitorStore.register puts the record first, and
\* delete leaves the record alone.
IndexedHasRecord == \A m \in index : rec[m] # None

\* The most-overdue-first order of runLocalTick carries a deferred monitor over: nobody
\* is claimed twice past a monitor that stays due and is not held by the cooldown, unless it
\* was registered anew in between.
CapNeverStarves ==
    [][\A t \in Ticks :
         pc[t] = "claimPut" /\ pc'[t] = "verify" =>
            \A x \in Listed \ {tick[t].cur[1]} :
               rec[x].due <= tick[t].at => tick[t].cur[1] \notin passed[x]]_vars

\* What a re-registration stored stays in force: no later write brings back an older
\* registration of the monitor (MonitorStore.register replaces idempotently).
RegistrationNeverReverts ==
    [][\A m \in Monitors : rec[m] # None => rec'[m].gen >= rec[m].gen]_vars

\* Every tick ends: no tick waits for ever for its turn at claimDue.
TicksEnd == \A t \in Ticks : pc[t] # "idle" ~> pc[t] = "idle"

=============================================================================
