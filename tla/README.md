# Verification of api.qa

api.qa verifies APIs by observation: it probes a target, judges the evidence, and serves
the verdict. Around that judgement sits a small distributed system: a Worker that runs in
many isolates at once, a Durable Object that owns the schedule, Workers KV underneath, and
user-supplied suites that run in isolates of their own behind an egress gateway. This
directory holds TLA+ models of that system, the TLC configurations that check them, and
proofs that TLAPS checks. Every definition is written from the code; `PROJECT.json` maps
each one to its lines, lists the hazards the properties are for, and gives for each checked
property a mutation of the code that breaks it.

    tlc -config MonitorScheduler.cfg MCMonitorScheduler     # model-check one run
    tlapm MonitorScheduler_proof.tla                        # check one module's proofs

## The system

| Component | State | Operations | Interacts with |
|---|---|---|---|
| Monitor registry (`monitors.ts`) | KV: the index, one record per monitor, the run history | register, get, delete, listDue, evictExpired, claimDue, appendRun | written by `POST/DELETE /monitors` in any isolate and by ticks, without a lock |
| Scheduler (`worker.ts` runLocalTick, MonitorScheduler DO) | the claim chain and the tick's locals in one Durable Object; nothing durable | one tick per cron | registry, cooldown, verifier, time series, alerts |
| Per-host cooldown (`cooldown.ts`) | the time of the last granted probe of a host, in a Durable Object per host | reserve | requests and ticks spend the same slot |
| Alert dispatcher (`alerts.ts`) | KV: per rule, firing, the last notification and its value | evaluateAlertRules, decideAlert, dispatch | called by a tick after each run; calls email, webhook and Slack channels |
| Time series (`timeseries.ts`) | KV: a ring of raw samples and hourly buckets per monitor | record, query | a tick writes, requests and windowed alert rules read |
| Verdict cache (`cache.ts`) | KV with TTL: domain heads, reports by digest, pinned and suite verdicts, suites and mocks by digest | get and put of each | request handling |
| Request handling (`worker.ts`) | none of its own | `GET /{domain}`, `POST /verify`, `POST /suite`, `/monitors`, `/mock`, `/rejudge`, assets | cache, cooldown, verifier, registry |
| Executable suites (`exec/runner.ts`, `exec/gateway.ts`, `exec/dialect.ts`) | per run: breaker, isolate, the isolate's record; shared: the gateway's limiter and refusal sink | run, the patched fetch, the gateway's fetch, drain, fold | the suite and the network, both untrusted |
| Suite harness (`exec/harness.ts`) | the tests registered in one isolate | describe/test/expect, run | inside an isolate |
| Judge (`checks.ts`, `contract.ts`, `grade.ts`) | none: a recorded bundle to a report | each check, score, grade | the verifier, `/rejudge` |
| Discovery and observer (`discovery.ts`, `http.ts`, `verify.ts`) | the budget of one run, the bundle it records | the stages of observeTarget, redirects, body cap, sampling by seed, the run of a published suite | the network, the judge |
| Pinned specs and suites (`pinned.ts`, `suite-doc.ts`, `expect.ts`) | the bindings of one run | admission by digest, observation with captures, probes of the card, judgement | observer, judge, the network |
| Test-suite interface and gate (`test-suite.ts`, `gate.ts`) | the bindings of one run of rows | gates of the card and of the document, rows, run | discovery, judge, executable suites |
| Contracts, schemas, datasets (`contract*.ts`, `json-schema.ts`, `datasets.ts`, ...) | none | compare two documents | judge |
| Optional interfaces and GS1 resolver | none | claims of a card and their checks | judge |
| Mock server (`mock*.ts`) | KV: documents by digest with an index | put, evict, serve | cache, request handling |
| Attestation (`attest*.ts`, `digest.ts`) | none | hash, sign, verify | everywhere a digest is used |
| MCP server, local runner, command line | none | one verification each | verifier |
| Views, reporters, assets | none | rendering | request handling |

### What is hard in it, and what makes it correct

* **Registry and scheduler.** Ticks overlap (a cron fires while the last tick still
  verifies), clients register and delete in other isolates, KV offers single reads and
  writes only, a tick can throw at any await, the Durable Object can go away. Correct means:
  a slot is run once, a monitor that is due is not starved by the per-tick cap, the index
  never dangles, a tick always ends, a re-registration is not undone.
* **Alerts.** Debounce, renotification, escalation and resolution share one stored state
  that is written before the channels are tried. Correct means: never two notifications
  inside the debounce time, only news notifies, a breach that stays is eventually notified.
* **Executable suites.** A run races a timer against an isolate that nobody stops; its
  fetches go through a limiter and a gateway that other runs share; refusals are read
  through a drain that may fail. Correct means: a refusal always fails somebody, slots are
  neither lost nor duplicated, every run ends.
* **Cache and requests.** Two entries per domain with their own expiry, verdicts shared by
  key, a cooldown that requests and ticks share, a warm cache in front of the pin check.
  Correct means: nobody gets an answer to another question, with a bad pin, or with a wrong
  age, and the promise of Retry-After is kept.
* **Time series.** One record is two puts; both stores are capped; windows cut buckets.
  Correct means: a sample is held once, nothing but the oldest is dropped, a window query
  counts everything inside and nothing outside what it touches.
* **Pinned specs and suites.** Two loops over the same document, one that asks and one that
  judges, share recorded evidence and nothing else; captured answers, the card's manifest and
  a dataset's rows steer what is asked; requirements may be exempt. Correct means: only what
  the pin and the origin warrant is fetched, the judge speaks of what was asked, nothing
  passes unobserved and no exemption comes from silence.
* **Discovery.** Thirty-one stages, each planned from documents that an untrusted site
  serves, share one budget of requests; answers are lost, redirect, or are reused by a later
  stage; what a seed samples differs from run to run. Correct means: only the target and
  what it delegates to is contacted, the stages that every verdict needs are never starved,
  every verification ends.
* **Judge.** Forty-six checks read the same bundle, most of them other checks' exchanges too,
  and must tell a claim that is untrue from one that was not made or not observed. Correct
  means: exactly what a site breaks fails, whatever was sampled, redirected or lost
  elsewhere; what is claimed is not skipped; a lie is never outweighed.
* **Published suites.** A card names an artifact that the verifier fetches and runs; the
  claim, the fetched bytes and the run are three records. Correct means: a pass is a
  complete run of the pinned bytes.

`PROJECT.json` lists the single hazards under "hazards", each with the properties that cover
it or the reason why none does.

## The modules

| Module | Models | State and actions against the code |
|---|---|---|
| `MonitorScheduler` | registry, tick, Durable Object, cooldown of ticks | `index`, `rec`, `runs` are the KV entries; `chain` is `claimChain`; `pc`, `tick`, `req` hold where a tick or a request stands between two awaits and its locals there. One action per KV operation: `RegisterCheck`, `RegisterPut`, `RegisterRead`, `RegisterWrite` are `POST /monitors`; `EvictList` to `Finish` are runLocalTick in order; `Throw` enters the catch, `ErrorRead` and `ErrorWrite` are its body; `CrashScheduler` loses the Durable Object with all ticks |
| `RunHistory` | `runs:{id}`, the history that `appendRun` reads and writes without a lock | the steps of `MonitorScheduler`, and `exposed`, which watches them: the monitors that fell due again while a run of theirs lasted |
| `NotificationGate` | the abstract debounce | what a receiver of notifications is promised: never two within the debounce time |
| `AlertDedupe` | one rule of one monitor | `state` is the stored DedupeState with ages for times; `Run` is evaluateAlertRules on a new run, `Decide` is decideAlert, `Store` the put, `Deliver` one channel, `Fail` a dispatch that dies; `standing` is the value of the alert that no `resolved` has taken back, `muted` that a breach came back debounced by its own resolution |
| `FetchLimiter` | createFetchLimiter | `Acquire` and `Release` over `inFlight` and `waiters`; used by each isolate and by the gateway |
| `ExecGateway` | runs, isolates, gateway | a fetch is a pair of its run and a number and goes through `Ask`, `Settle` (isolate slot), `Arrive` (gateway slot), `ReadBody` (the request's own body, read with the slot held), `Refuse`/`Forward` at each hop, `Respond`/`Break`; `Trip` is the breaker, `Lose` an isolate that breaks or answers unreadably, `Judge` the drain and the fold, `Unreadable` a drain that fails |
| `FrontDoor` | verdict cache, cooldown and the handlers of `GET /{domain}`, `POST /verify`, `POST /suite` | one request is a record `ask`; `LookupVerdict`, `LookupHead`, `LookupReport` are the cache reads, `Reserve` the cooldown, `VerifyDocument`, `VerifyDomain` the run with its first put, `PutRest` the second |
| `PinnedRun` | one pinned spec, suite or data-driven suite against a target | `job` is the document with what is asked, `manifest` the card's probes; `Admit`, `StartRow`, `RefuseRow` are the gates, `ObserveTarget` discovery, `ObserveEndpoint`, `PlanProbe`, `ObserveEntry`, `ObserveFlip` the awaits of verifyPinnedSpec in order, `Judge` one turn of its second loop, `Report` the end of an iteration; `items` and `used` are the observer, `scope` is `bindings` and then `judgeBindings`; `at` is the requirement a loop is at, and `PlanProbe` takes the first probe that is `Unplanned`, those of phase 1 before those with a derived amount |
| `Surfaces` | what the verifier reads of a site: roles, evidence, the documents in it (`types.ts`, the parsers of `discovery.ts`) | operators over a `bundle`, a function from roles to exchanges; both sides of the verifier read it through them |
| `SuiteFace` | a card's test-suite claim, its gates, its rows, the verdicts read off its run (`test-suite.ts`) | operators; `Admitted`, `DocumentFits`, `Rows`, `Ran` |
| `Judge` | the checks, the contract diff, the grade (`checks.ts`, `contract.ts`, `grade.ts`) | one operator per check, `Checks` the report, `Points` and `GradeRank` the grade |
| `Discovery` | one verification of a site (`observeTarget`, `Observer`, the run of a published suite) | `Stages` is the order of observeTarget, a `Plan...` operator is what a stage asks given the bundle; `Send` (answered or not), `Followed` and `Refuse` are the observer, `used` its budget; `StopWalk` ends the walk over the doors, `SkipRow` and `Deadline` the rows; `bindings` is what suite rows capture, `judged` that the report is made |
| `Timeseries` | record and query | `raw` is the ring, `rolled` the buckets, each the bag of the samples it has counted; `ReadRaw`, `ReadRolled`, `PutFirst`, `PutSecond` are record's four KV operations, `Die` ends it between them; `Count` is what query counts for a window |
| `MC*` | instances for TLC | host assignments, request kinds, contracts and manifests, symmetry sets; `MCDiscovery` the sites, each labelled with the checks it breaks |
| `*_proof`, `Ranks` | theorems; `Ranks` holds the lemmas on finite ordered sets that they share | see below |

`MonitorScheduler` composes the registry, the scheduler and the cooldown; `FrontDoor` the
cache, the cooldown and the handlers, with the tick as another spender of the cooldown;
`ExecGateway` many isolates and one gateway, each with a `FetchLimiter`; `AlertDedupe` is
related to `NotificationGate` by refinement; `Discovery` composes the observer with the
judge of its bundle (`Judge`, which extends `SuiteFace` and `Surfaces`).

Channels' messages and verdicts are model values or booleans, since no property depends on
their content. In `Surfaces` a document is the record of the fields that some verdict or some
later request depends on, a URL is the origin it leads to, and what a scan of a text finds
(a secret, a stack trace, a link) is one Boolean of the text. Times are small integers. Where a code
change would be a plausible slip, the module holds the slip as an operator next to the
original (`ClaimReadUnserialized`, `RecordedNever`, ...), which no specification uses.

## The runs

| Run | Checks | What it shows |
|---|---|---|
| `scheduler` | `TypeOK`, `SlotClaimedOnce`, `SlotsUnclaimed`, `HistoryLosesNoRun` | three ticks, all in flight at once if they like, over one monitor with registration, re-registration and deletion, a fault and a crash: no slot is run twice while ticks are shorter than intervals; three runs go into a history of two and none but the oldest is lost, unless the monitor fell due again during a run |
| `registry` | `IndexedHasRecord`, `CapNeverStarves` | two clients and one tick, cap one per tick, eviction by TTL: the index never dangles and the most-overdue-first order starves nobody |
| `ticks_end` | `TicksEnd` | two ticks over two monitors on two hosts, under fairness: every tick ends, though it waits for its turn at the claim, whatever throws or crashes |
| `reregister` | violates `RegistrationNeverReverts` | the write-back of a tick undoes a registration made during its verification |
| `alerts` | `TypeOK`, `ImplementsGate`, `OnlyNewsIsAlerted`, `SettledBreachIsAlerted` | for each rule and each setting of debounce, renotify and resolve, with failing channels; that a settled breach stands announced has the one exception that `muted` names |
| `alert_resolved` | violates `ClearIsResolved` | a rule that clears inside the debounce time is never resolved |
| `exec` | `TypeOK`, `SlotsCounted`, `RefusalsAreFailed`, `RefusedRunFails`, `RunsEnd`, `QueueMoves` | two runs share one gateway slot, one of them with two fetches, with a request body that may never end, redirects and a fault |
| `exec_neighbour` | violates `NeverPassedByNeighbour` | with three runs, one drain makes another run's refusal invisible to it |
| `front_door` | `PinGuardsEveryAnswer`, `VerdictIsWhatWasAsked`, `AgeIsHonest`, `FreshHeadHasReport`, `RetryAfterIsKept` | two concurrent requests, three in all, over two origins of one host and the service's own, with and without document, seed and pin |
| `timeseries` | `SampleHeldOnce`, `RecordedIsHeld`, `RingIsNewest`, `WindowIsCovered` | records of a run and an endpoint over a ring of two and two buckets, with one that dies between its puts; all windows |
| `pinned` | `TypeOK`, `FetchesAreWarranted`, `RolesDistinct`, `JudgedAsAsked`, `CapturesAreOwn`, `PassIsObserved`, `ExemptionIsProven` | fourteen contracts, eight of them valid, under every gate, against five manifests and all sequences of seven answers, with discovery spending any part of the budget |
| `discovery` | `TypeOK`, `ProbesStayWarranted`, `FixedProbesFit`, `ReportIsExact`, `NoFalsePass`, `PassedSuiteRan`, `VerificationEnds` | some two hundred sites: complying ones, and next to each the ones that differ from it in one respect, under two sampling orders, with one answer lost anywhere on the sites that lose one: what is contacted is warranted, the report is exact where nothing is lost, what a site breaks is passed only where a lost answer excuses it, a suite passes only if it ran, every verification ends though the budget may not suffice |

### Bounds

`MaxNow`, `Horizon` (time), `MaxGen` (registrations), `MaxStarts` (ticks), `MaxAsks`
(requests), `MaxFaults` (throws, crashes, lost drains), and the caps of the code themselves
(`MaxPerTick`, `HistoryCap`, `MaxInFlight`, `RawCap`, `RollupCap`, `MaxRedirects`) made
small. They are enough for what the properties speak of: two ticks suffice to overlap, and
the double run needs one late and one timely one; two monitors and a cap of one force a
deferral. The history is checked with three ticks, since three runs are needed to exceed a history
of two, and with two registrations, so that a monitor falls due again in the middle of a run; with
the exception for that left out of `HistoryLosesNoRun`, the same run loses a run. One
gateway slot and three fetches give a waiter behind a waiter. A ring of two overflows with
the third sample and `MaxNow = 7` spans three hours of length three, so that buckets are cut
as well. In `front_door` time three is one beyond the TTL and the full cooldown. In `pinned` each contract is
there for one hazard and has at most three requirements: a capture and its use need two, a
rebinding and a probe after it three, metering a source, a dependent probe and a check. A
manifest has at most two entries on a channel (a duplicate, one without a parameter, one off
the origin), and a `Budget` of four is exhausted at every place of every contract, since
discovery leaves any number of requests. In `discovery` the budget of 32, the three redirects,
the three and twelve doors, the two typed paths and the eight contract paths are the code's own values; a suite
has at most three rows, one answer is lost at most (on every plain, guarded or agentic site, and on
some of each other kind), and the two sampling orders differ in
what comes first of the doors and of the typed paths, which are numbers. Each site is a complying site changed in one
respect, so that a check that fails for another's reason shows; thirteen doors and a site
that has every surface exhaust the budget. Ages in
`AlertDedupe` stop at `Horizon`, past which the code compares all of them alike. `TickBound`
is not a bound of the search but a promise of the environment, below.

`CHECK_DEADLOCK FALSE` stands where the number of requests, runs or records is bounded and
the system may have handled them all (`ExecGateway`, `FrontDoor`, `Timeseries`,
`PinnedRun`, `Discovery`).
`MonitorScheduler` and `AlertDedupe` are checked for deadlock; `Quiet` is the Worker that
waits for the next cron, possible only when nothing is in flight.

### Assumptions on the environment

* A KV get or put is atomic and takes effect when it is issued, and a read sees the last
  write. Workers KV is eventually consistent; what it adds by stale reads is not modelled.
* `TickBound`: a tick ends within that time. `TimelyTicks` (TickBound below every interval)
  is assumed for `SlotClaimedOnce` and `SlotsUnclaimed`; without it a slot does run twice, as
  the finding at `monitors.ts:190` describes.
* `HistoryLosesNoRun` assumes nothing of the duration of ticks. What it excepts are the appends to a
  monitor that fell due again while a run of it lasted, whoever made it due.
* `list` reads the index and then each record in a KV get of its own; here they are one step
  (`Listed`). A claim reads the record again, and what changed in between is lost to it as
  what changed after one step would be.
* A monitor has one dispatch and one record at a time. The claim gives that except where the
  monitor falls due again during a run; the overlaps are listed as hazards.
* `FrontDoor`: a request names an origin, and the service's own is one of them; that
  `worker.ts:779` compares the domain with `api.qa` by case, so that `GET /API.qa` is cached and
  gated, is not modelled.
* The fold's own caps and its refusal of a suite without tests (`dialect.ts:444-467`) are left out of
  `ExecGateway`: they turn a verdict that would be `ran` into `failed`, never the other way.
* A pinned run is remote: private targets are refused. Ids are sequences of numbers in which
  a colon separates, bodies are one value, a request goes to its own name with one
  interpolated value. What an optional check or a surface says to it is a choice of
  the environment: `Judge` models the checks over a bundle of their own.
* A site answers a role with one reply for the time of a verification. Its answer may be
  lost, be too long for the body cap, or lead through redirects to any origin. A URL leads to
  one origin: what DNS makes of it is not modelled. The reply is the role's, whatever the origin
  it is sent to: a second server behind the same role is not told from the first.
* Suites and networks may do anything, including nothing.

### Fairness

`MonitorScheduler`: a tick whose await has settled is resumed (weak fairness of its steps);
the claim chain is a chain of promises, served in order, so a tick that waits there gets its
turn (strong fairness of the claim, since other ticks' turns disable it). Nothing is assumed
of clients, crons or crashes. `AlertDedupe`: the cron goes on and a dispatch that has begun
goes on; channels may refuse. `ExecGateway`: the timer fires and a settled await is resumed
at the gateway and in the runner. An upstream need never answer, and the body of a request is the
suite's own (`Bodied`): the gateway awaits it with the slot held and before the floor is asked,
so that one that never ends keeps the slot for good. Nothing is assumed of either, and `QueueMoves` is
conditional on connections and bodies that end; that every run ends is not. `Discovery`: weak fairness of the next step, since every
await of a verification is a request with a timeout or a run with a deadline, and nothing else
is waited for.

## What is proved

Each theorem holds for all values of the constants that meet the modules' named assumptions.

* `MonitorScheduler_proof!TypeCorrect`, `[]TypeOK`. The type of the locals depends on the
  program counter (a tick that writes a record has read one), hence the conjunct `HoldsOK`;
  the proof has one lemma per group of steps. `IndexNeverDangles`, `[]IndexedHasRecord`:
  deletion and eviction take a monitor off the index and leave its record, so whoever holds
  a copy of the index, however old, holds monitors with a record (`IndexInv`); that the
  record is put before the index is the step that would fail in the other order.
* `MonitorScheduler_proof!ClaimsExclusive`, `TimelyTicks => (Spec => []SlotClaimedOnce)`.
  `SlotClaimedOnce` is not inductive. The invariant adds `FreshRegistrations` (a number given
  to a registration in progress is used nowhere else), `TicksTimely` (whatever a tick holds
  was due at its start and the tick is within its bound) and `SlotsUnclaimed` (no record,
  stored or about to be written back, carries a claimed slot). The step that needs the
  assumption is the write-back: its record is due one interval after the start of its tick,
  which lies in the future, so that nobody can have claimed it. `ClaimedSlotsStayClaimed` is
  `[]SlotsUnclaimed` under the same assumption.
* `MonitorScheduler_proof!CapIsFair`, `TimelyTicks => (Spec => CapNeverStarves)`. Whoever was
  claimed past a waiting monitor has a slot in the future of that claim (`PassedAreLater`), so
  an entry for it in an older tick's list is out of date and its claim is lost, and a tick
  that lists it again lists the waiting one, which is overdue longer, in front of it
  (`MostOverdueFirst`, `PassedAreQueued`). A registration starts over: a monitor registered
  anew waits anew, hence `ForgetMonitor`.
* `MonitorScheduler_proof!HistoryIsALog`, `HistorySpec => HistoryLosesNoRun`, with no assumption on
  ticks, intervals or registrations. `appendRun` reads the history, appends and writes without a
  lock; of a monitor that is not exposed no two ticks are in a run (`RunsApart`), none is about to
  write a claim while another is in a run (`ReadsApart`), and what a tick has read of the history
  is what is stored (`HistoryCurrent`). A claim reads a record that was due at the start of its
  tick (`DueInTime`): if another tick is in a run of that monitor then, the monitor is exposed.
* `MonitorScheduler_proof!EachStepNearsTheEnd` and `NoTickIsStuck` are what `TicksEnd` rests on
  without its fairness. Whoever takes a step, a tick stays where it is, starts, ends, shrinks its
  list of expired monitors or its queue, or takes its item forward (`TickNearer`; an error enters the
  catch once). And it has something to do (`TickAble`): an eviction has a
  monitor, a queue has a most overdue item, and a claim waits for no one but the one tick that is
  between the read and the write of its own.
* `AlertDedupe_proof!TypeCorrect` and `DispatcherImplementsGate`: each step of the dispatcher
  is a step of `NotificationGate` or a stutter, the notification being the `Store` of a
  decision to deliver. It rests on the fact that such a decision was taken outside the
  debounce time and that no time passes within a dispatch. `OnlyNews` is `OnlyNewsIsAlerted`:
  a rule whose state is not firing was never announced or has been clear since, and a
  decision to fire is news when it is taken (`NewsInv`). `NoEscalationIsSwallowed` is the invariant
  in `SettledBreachIsAlerted`: a dispatch that decides on silence over a breach is inside the
  debounce time, or the breach is firing, not due again, and either no worse than the alert that
  stands or `muted`. It rests on `StandingInv`: a firing state is muted or has the value of an alert
  that no resolution has taken back.
* `ExecGateway_proof!RefusalsNeverLost` and `RefusalFailsTheRun`: from the types of the sink
  and the records and from what a verdict implies of the drained refusals, by cases on who
  reads or clears the sink. `ExecGateway_proof!TypeCorrect` and `SlotsNeverLost`: every
  limiter counts the fetches in the states that hold its slot and queues those in the states
  that wait for it; a step of a fetch moves it between those sets, and a release hands the
  slot to the first waiter. `NoneIsOvertaken`, the action property in `QueueMoves`: of two
  fetches in one queue, at the gateway or in an isolate, the one behind keeps waiting behind the other until that
  one has its slot, so that each answer brings every waiter one place nearer.
* `FrontDoor_proof`, five theorems from one invariant. `StoresTrue` says of the stores that a
  report is put at the time of its run, that it is only ever replaced by one that is no
  older, and that a head is no newer than the report under its key; `Knows` says of each
  request what it knows between two awaits (a request about to read a report has seen a head
  that is no newer than it) and that its answer is `Due` to it. `HeadNamesReport`
  follows because the report's TTL starts no earlier than the head's;
  `AgeNeverUnderstated` because what is read second is no older than what was read first;
  `RetryAfterKept` from the number of probes granted, which tells whether somebody
  else has spent the slot since.
* `PinnedRun_proof`: observer and judge walk the same trail of bindings (`Trail`: what the
  bindings were before each requirement, given the record). The record's endpoint
  exchanges have one role each and are complete when the judge starts, so the judge's
  captures repeat the observer's: `JudgeSpeaksOfWhatWasAsked`. `Own` carries the origin of
  every binding: `NoBindingIsForeign`. `AdmittedRight` carries the gates:
  `NothingAskedUnpinned`, which no run checks in that form. `NoTwoShareARole`,
  `[]RolesDistinct`, needs to know whose every recorded role is (`RInv`): an endpoint's has one
  part, a probe's two or three; of a probe not yet planned nothing is recorded, and of the one
  that is being observed nothing beyond the entry that is next. `TypeCorrect` and
  `NothingAskedUnwarranted` (`FetchesAreWarranted`) are from `TInv`: every exchange in the
  record was made for a requirement that warrants it, and the exchanges that were sent are no
  more than the budget counts. `NoPassUnobserved` (`PassIsObserved`) and
  `NothingExemptUnproven` (`ExemptionIsProven`) are from `PInv`: a requirement that is planned as
  exempt is not applicable and was not asked, one that is probed has as many declared URLs as
  its amount, a role of an entry has the URL of the manifest, and a verdict is about the record
  as it is. An exemption that was right stays right, since what was found in the record stays in it. That a
  deduplicated list has as many URLs as entries is shown with `Ranks`.
* `Discovery_proof!ProbesWarranted`, `[]ProbesStayWarranted`: evidence is recorded once under
  a role and stays (`Extends`), and every operator that names an origin reads recorded
  evidence only, so a warrant, once given, is never taken away; the invariant `Backed` says it of
  the queue as well as of what was contacted. `BudgetKept` is the budget's part of it.
  `TypeCorrect`, whose content is that `used` is the number of exchanges that were sent and that
  every check has a verdict, is from `CountInv`: each role has one stage (`Home`), so nothing is
  asked for or counted twice; the two roles that a later stage may ask for again are those of the
  registry's remote, and it does only if the remote is another (`AskedOf`).
  `FixedProbesReserved` is `[]FixedProbesFit` for every budget of at least
  16 + MaxKeylessTotal + 2 MaxTyped, which for the code's numbers is the 32 of `http.ts:72`:
  sixteen fixed roles, the ceiling of the walk over the doors, and two requests for each
  of the paths sampled. It needs that the sample has no more than `MaxTyped` paths, which holds since the
  recorded card and contract are the site's (`FitInv`), so that each path has a place in the
  seed's order. `SuitePassedOnlyIfRun` is `[]PassedSuiteRan`: the document that the rows are
  read from is the site's (`SuiteInv`), the fold over its rows has a result in the place of
  each row, and a row without an answer does not pass. The fold is a recursive function; that
  it exists and what it yields is shown by taking the least number of rows for which it would
  not (`JudgementExists`, `EachRowJudged`). About
  the judge, of every bundle and every report: `SuitePassIsOfPinnedArtifact`,
  `FailingMoreNeverPays`, by the monotonicity of the points in the passed items, and
  `BestGradeIsFlawless`: the best grade is given exactly where nothing fails.
* `Discovery_proof!LossNeverFlatters` is the part of `NoFalsePass` that holds of every site, with no
  label on it: one record completes another if it has the same exchanges but for some that were
  silent or not made (`Completes`), and a check that passes on a record fails on none that
  completes it, but for the checks of `ByAbsence` and, where RFC 8414's document was lost, those
  that were left with OpenID's. The proof goes check by check: what a check reads that is heard
  is the same in both records, and what is silent it must skip or fail, which needs
  that the doors and the price are read from roles of their own (`KindInv`).
  `AnswersNeverRefute` names one record that completes: what the site would have told (`Told`, by
  `ToldInv`: whatever was heard is the site's own answer).  `UndisturbedIsTold` says that where
  nothing was lost or refused the record is just that and the report the judge's of it (`HeardInv`):
  the part of `ReportIsExact` that concerns discovery and not the label.
* `Discovery_proof!NeverWaits` and `EachStepIsNearer` are what `VerificationEnds` rests on without
  its fairness: up to the report some request, stage or judgement can be next (`EndInv`: what
  waits is finite in number and has its turns, so that one is first, and it can be sent, refused or
  skipped), and each step leaves a request or a stage behind for good.
* `Timeseries_proof`, for records that follow one another (`OneAtATime`), with any caps, hour,
  endpoints and gaps, and records that die between their puts: `CountedOnce`
  (`SampleHeldOnce`), `NothingLost` (`RecordedIsHeld`), `RingStaysNewest` (`RingIsNewest`) and
  `WindowsCovered` (`WindowIsCovered`). `StoreInv` says of ring and buckets that they are in order,
  that what is in the buckets comes before what is in the ring, and that both keep their caps;
  `ProgressInv` what a record holds at each of its four operations; `RecordedInv` that a sample
  is held, lost with its record, or waits for the second put. Which buckets survive the cap is
  a question of rank: the module names a bucket by how many come before it, and `Ranks` shows
  that these numbers are taken without gaps, so that what goes is what is oldest.
  Records that overlap are the hazard at `alerts.ts:591`, which no property covers.
* `Ranks`: the rank of an element of a finite strictly ordered set tells the elements apart
  and takes every value below the size; the first c are c; a set of naturals has a least element,
  and a greatest one if bounded; a function has no more values than arguments.

Only model-checked: all liveness (`TicksEnd`, `SettledBreachIsAlerted`, `RunsEnd`,
`QueueMoves`, `VerificationEnds`), since liveness under fairness and ENABLED are out of
this prover's reach (what the steps contribute to them is proved, as far as it is named above; that the steps are
taken is the fairness); and `ReportIsExact` and `NoFalsePass`, which compare the report with the
label that the instance gives each of its sites and say nothing of a site without one: that
a judge finds what is broken can only be said of sites of which one knows what is broken. No module
declares a RECURSIVE operator.

## Disagreements found

Three runs end in a counterexample to a sentence of the code's own comments: `reregister`,
`alert_resolved`, `exec_neighbour`. More were met while modelling and have no run.

In the registry, alerts, gateway and cache: a slot runs twice when a tick outlasts an
interval; a monitor that falls due again during a run, because it is registered anew, because a
tick whose read precedes another tick's claim fails and writes it back due earlier than the claim
made it, or because the run outlasts the interval, is run again, and the two runs append to one
reading of the history, so that one of them is lost; a refusal after the breaker's drain is carried into the next run;
`lastNotifiedAt` is stored before anything is sent; a breach that comes back, no worse than it was,
inside the debounce time of its own `resolved` notification is stored as firing and not announced
then or later, though `decideAlert` is described as alerting on the transition into breach; the design document's request budget is
not the code's; the idle TTL evicts monitors with long intervals; pinned runs and suites
never ask the cooldown; a stale verdict is rarely there to be served, since it expires when
it stops being fresh; an endpoint's freshness is 0 again after its samples left the ring.

In pinned runs: an attested data-driven run refuses each of its rows, because the digest is
cleared and the flag is not; a probe that depends on one with a derived amount is planned
before it; the budget of 64 has no worst case to be above.

In the observer and the judge: a streamed body of exactly the cap counts as truncated; three
checks never read that flag; the budget of 32 is exceeded by a site with thirteen doors and
a protected remote; a declared stream off the card's origin is dropped without a record; the
typed bodies that are fetched for the check of the home are read by none; where the contract's answer is lost `coverage` passes, though its comment says
that it fails closed, and where the price's is lost `manifest` does; where the card was lost
`openapi` and `keyless-flow` pass from the default address, where RFC 8414's metadata was lost
four checks pass from OpenID's, and where a root was lost the other root's face stands for it; a protected MCP
server that answers POST only always fails a check that was made to allow for it; two checks share one id; the registry checks skip
when their document was lost; a suite's document is fetched under the parent's budget.
`PROJECT.json` quotes the lines of each.

## What is left

In this order:

1. An abstract specification of `PinnedRun` (a verdict as a function of what the target
   answered) and its refinement, and a harness module for the hooks of an executable suite.
2. Compositions: overlapping ticks over `Timeseries` and `AlertDedupe`; the warm isolate of a
   loader; the index of the mock registry, which is read and written like the monitors'.
3. Contracts, schemas and datasets as operators against reference definitions over bounded
   documents.
4. Theorems: `Timeseries` with records that overlap (which samples may then be lost) and the
   refinement of 1.

Not modelled: hashing and signing (a digest is a model value), rendering, static assets,
argument parsing and the MCP server (one verification each), `gate.ts` (an exit code
from a finished report), the recursive walk of a JSON schema, the parsing of datasets, the
generator of mock responses, and the vitest matchers of the harness, which are sequential and pure.
