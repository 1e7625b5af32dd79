------------------------------- MODULE FrontDoor -------------------------------
(***************************************************************************)
(* The verification requests of the Worker (worker.ts: GET /{domain}, POST *)
(* /verify, POST /suite), the verdict cache they are answered from         *)
(* (cache.ts) and the per-host cooldown in front of a domain's probes      *)
(* (cooldown.ts).                                                          *)
(*                                                                         *)
(* A verdict of domain mode is two KV entries, the report and the head that*)
(* names it, written and read one after the other.  A verdict on a document*)
(* (a pinned spec, or a suite in one of its environments) is one entry.  An*)
(* entry lives for Ttl after its put.  The verification itself is a step   *)
(* that answers or throws; what it finds is not modelled here.             *)
(***************************************************************************)
EXTENDS Integers

CONSTANTS
    Requests,  \* requests in flight
    Origins,   \* targets: scheme, host and port
    Hosts,     \* host keys
    HostOf,    \* [Origins -> Hosts]: hostKey
    SelfHost,  \* api.qa, which is neither cached nor held by the cooldown
    Documents, \* texts of specs and of suites in an environment
    Suites,    \* the suites among them
    Seeds,     \* seeds a request may ask for
    Digests,   \* evidence digests
    Asked,     \* what the requests of an instance ask for
    Ttl,       \* CACHE_TTL_SECONDS
    MinGap,    \* COOLDOWN_MIN_INTERVAL_MS
    MaxNow,    \* bound on the clock
    MaxAsks,   \* bound on the number of requests
    MaxFaults, \* bound on the verifications that throw and on the requests that die
    None       \* no seed, no document, no entry

ASSUME FrontDoorAssumption ==
    /\ HostOf \in [Origins -> Hosts] /\ Suites \subseteq Documents
    /\ Ttl \in Nat \ {0} /\ MinGap \in Nat /\ MaxNow \in Nat /\ MaxAsks \in Nat
    /\ MaxFaults \in Nat
    /\ None \notin Seeds \cup Documents \cup Digests

\* What a request may ask for.  pin: the expectedDigest, against the document's own digest.
\* stored: the suite is named by its digest only.
Ask == [origin : Origins, doc : Documents \cup {None}, seed : Seeds \cup {None},
        pin : {"none", "match", "mismatch"}, attested : BOOLEAN, stored : BOOLEAN]

ASSUME AskedAssumption ==
    /\ Asked \subseteq Ask
    /\ \A a \in Asked : a.doc = None => a.pin = "none" /\ ~a.attested

Never == -1

\* A finished run, with the nowMs it is stored under.
Report  == [origin : Origins, doc : Documents \cup {None}, seed : Seeds \cup {None}, at : Nat]
Pointer == [digest : Digests, at : Nat]
Keys    == Origins \X Documents \X (Seeds \cup {None})
Stored(Values) == [value : Values, till : Nat]  \* a KV entry and the time it expires at

ASSUME NoneAssumption == None \notin Report \cup Stored(Report)

VARIABLES
    now,       \* the wall clock
    reserved,  \* DomainCooldown: host -> time of the last probe granted
    granted,   \* history: host -> number of probes granted
    head,      \* head:{host}: a stored Pointer
    report,    \* report:{host}:{digest}: a stored Report
    verdict,   \* pinned:... and suite:...: a stored Report per key
    registry,  \* suitetext:{digest}
    pc,        \* where each request is
    ask,       \* what it asked for
    seen,      \* the head it has read, with its age at that time
    stale,     \* staleHit
    run,       \* the run it has made, with its evidence digest
    answer,    \* what it was answered
    asks,      \* requests so far, bounded by MaxAsks
    faults     \* faults so far, bounded by MaxFaults

vars == <<now, reserved, granted, head, report, verdict, registry, pc, ask, seen, stale, run,
          answer, asks, faults>>
stores == <<head, report, verdict, registry>>
gate   == <<reserved, granted>>
locals == <<ask, seen, stale, run>>

Init ==
    /\ now = 0 /\ asks = 0 /\ faults = 0
    /\ reserved = [h \in Hosts |-> Never] /\ granted = [h \in Hosts |-> 0]
    /\ head = [h \in Hosts |-> None]
    /\ report = [k \in Hosts \X Digests |-> None]
    /\ verdict = [k \in Keys |-> None]
    /\ registry = {}
    /\ pc = [r \in Requests |-> "idle"]
    /\ ask = [r \in Requests |-> None] /\ seen = [r \in Requests |-> None]
    /\ stale = [r \in Requests |-> None] /\ run = [r \in Requests |-> None]
    /\ answer = [r \in Requests |-> None]

Goto(r, from, to) == pc[r] = from /\ pc' = [pc EXCEPT ![r] = to]

\* The request is answered; what it held is gone.
Reply(r, what) ==
    /\ pc' = [pc EXCEPT ![r] = "idle"] /\ answer' = [answer EXCEPT ![r] = what]
    /\ seen' = [seen EXCEPT ![r] = None] /\ stale' = [stale EXCEPT ![r] = None]
    /\ run' = [run EXCEPT ![r] = None]
    /\ UNCHANGED ask

\* A KV entry, and what a read finds of it.
Entry(value) == [value |-> value, till |-> now + Ttl]
Read(entry)  == IF entry = None \/ now >= entry.till THEN None ELSE entry.value

\* An answer with a verdict stored at at, that was age old at the lookup.
Served(how, what, at, age) ==
    [how |-> how, report |-> what, age |-> age, asof |-> at + age, retry |-> 0, from |-> 0,
     nth |-> 0]
Refused == [how |-> "refused", report |-> None, age |-> 0, asof |-> now, retry |-> 0, from |-> 0,
            nth |-> 0]

Host(r)   == HostOf[ask[r].origin]
Bypass(r) == Host(r) = SelfHost
Fresh(age) == age < Ttl

\* Slip: two runs on different seeds share a verdict.
SeedlessKey(r) == <<ask[r].origin, ask[r].doc, None>>

\* pinnedK and suiteK: the origin, the document's digest and the seed ASKED for
Key(r) == <<ask[r].origin, ask[r].doc, ask[r].seed>>

-----------------------------------------------------------------------------
(* The request                                                               *)

\* A request comes in.  An inline suite is registered, even when the request is refused
\* next: attested, and without a pin.
Enter(r, a) ==
    /\ pc[r] = "idle" /\ asks < MaxAsks /\ asks' = asks + 1
    /\ ask' = [ask EXCEPT ![r] = a]
    /\ a.stored => a.doc \in registry
    /\ registry' = IF a.doc \in Suites /\ ~a.stored THEN registry \cup {a.doc} ELSE registry
    /\ IF a.attested /\ a.pin = "none"
       THEN pc' = pc /\ answer' = [answer EXCEPT ![r] = Refused]
       ELSE /\ pc' = [pc EXCEPT ![r] = "lookup"] /\ answer' = [answer EXCEPT ![r] = None]
    /\ UNCHANGED <<now, gate, head, report, verdict, seen, stale, run, faults>>

\* Slip: the cache is asked before the pin is held against the document.
LooksUpAnyPin(r) == ~Bypass(r)

\* pinOk: a request whose pin is not the document's digest never reaches the cache.
LooksUp(r) == ~Bypass(r) /\ ask[r].pin # "mismatch"

\* getPinned, getSuite
LookupVerdict(r) ==
    /\ pc[r] = "lookup" /\ ask[r].doc # None
    /\ LET hit == IF LooksUp(r) THEN Read(verdict[Key(r)]) ELSE None
       IN  IF hit # None /\ Fresh(now - hit.at)
           THEN Reply(r, Served("HIT", hit, hit.at, now - hit.at))
           ELSE Goto(r, "lookup", "verify") /\ UNCHANGED <<locals, answer>>
    /\ UNCHANGED <<now, gate, stores, asks, faults>>

\* getDomain: the head, whose age is taken now, then the report it names
Aged(it) == [digest |-> it.digest, at |-> it.at, age |-> now - it.at]

LookupHead(r) ==
    /\ pc[r] = "lookup" /\ ask[r].doc = None
    /\ LET found == IF Bypass(r) THEN None ELSE Read(head[Host(r)])
       IN  /\ seen' = [seen EXCEPT ![r] = IF found = None THEN None ELSE Aged(found)]
           /\ Goto(r, "lookup", IF Bypass(r) THEN "verify" ELSE
                                IF found = None THEN "reserve" ELSE "read")
    /\ UNCHANGED <<now, gate, stores, ask, stale, run, answer, asks, faults>>

LookupReport(r) ==
    /\ pc[r] = "read"
    /\ LET hit == Read(report[<<Host(r), seen[r].digest>>])
       IN  IF hit # None /\ Fresh(seen[r].age)
           THEN Reply(r, Served("HIT", hit, seen[r].at, seen[r].age))
           ELSE /\ Goto(r, "read", "reserve")
                /\ stale' = [stale EXCEPT ![r] = hit]
                /\ UNCHANGED <<ask, seen, run, answer>>
    /\ UNCHANGED <<now, gate, stores, asks, faults>>

-----------------------------------------------------------------------------
(* The cooldown                                                              *)

\* decideCooldown
Allowed(h) == reserved[h] = Never \/ now - reserved[h] >= MinGap

\* Slip: a denied request counts as a probe.
SpendAlways(h) == reserved' = [reserved EXCEPT ![h] = now] /\ UNCHANGED granted

Spend(h) ==
    IF Allowed(h) THEN /\ reserved' = [reserved EXCEPT ![h] = now]
                       /\ granted' = [granted EXCEPT ![h] = @ + 1]
                  ELSE UNCHANGED gate

\* An answer with the time that is left of the cooldown as its Retry-After
Waiting(r, it) == [it EXCEPT !.retry = reserved[Host(r)] + MinGap - now, !.from = now,
                             !.nth = granted[Host(r)]]
\* What was read, stale, or 429
Denied(r) == Waiting(r, IF stale[r] # None THEN Served("STALE", stale[r], seen[r].at, seen[r].age)
                        ELSE [Refused EXCEPT !.how = "denied"])

\* Granted, or answered with what was read, or with the time to come back after.
Reserve(r) ==
    /\ pc[r] = "reserve"
    /\ Spend(Host(r))
    /\ IF Allowed(Host(r)) THEN Goto(r, "reserve", "verify") /\ UNCHANGED <<locals, answer>>
       ELSE Reply(r, Denied(r))
    /\ UNCHANGED <<now, stores, asks, faults>>

\* A tick of the monitor spends the same cooldown, and stores no verdict.
TickReserve(h) ==
    /\ h # SelfHost /\ Allowed(h) /\ Spend(h)
    /\ UNCHANGED <<now, stores, pc, locals, answer, asks, faults>>

-----------------------------------------------------------------------------
(* The verification, and its verdict's way into the cache                    *)

Made(r) == [origin |-> ask[r].origin, doc |-> ask[r].doc, seed |-> ask[r].seed, at |-> now]

\* verifyPinnedSpec and verifySuite throw on a pin that is not the document's digest.
RefusePin(r) ==
    /\ pc[r] = "verify" /\ ask[r].pin = "mismatch"
    /\ Reply(r, Refused)
    /\ UNCHANGED <<now, gate, stores, asks, faults>>

VerifySelf(r) ==
    /\ pc[r] = "verify" /\ ask[r].pin # "mismatch" /\ Bypass(r)
    /\ Reply(r, Served("MISS", Made(r), now, 0))
    /\ UNCHANGED <<now, gate, stores, asks, faults>>

\* putPinned, putSuite
VerifyDocument(r) ==
    /\ pc[r] = "verify" /\ ask[r].pin # "mismatch" /\ ~Bypass(r) /\ ask[r].doc # None
    /\ verdict' = [verdict EXCEPT ![Key(r)] = Entry(Made(r))]
    /\ Reply(r, Served("MISS", Made(r), now, 0))
    /\ UNCHANGED <<now, gate, head, report, registry, asks, faults>>

\* Slip: the head is put before the report it names.
HeadFirst == <<"head", "report">>

\* putDomain
PutOrder == <<"report", "head">>

\* Slip: the second put asks the clock again.
PutNow(h, what, it) ==
    /\ head' = IF what # "head" THEN head ELSE
                [head EXCEPT ![h] = Entry([digest |-> it.digest, at |-> now])]
    /\ report' = IF what # "report" THEN report ELSE
                [report EXCEPT ![<<h, it.digest>>] = Entry(it.report)]

Put(h, what, it) ==
    /\ head' = IF what # "head" THEN head ELSE
                [head EXCEPT ![h] = Entry([digest |-> it.digest, at |-> it.report.at])]
    /\ report' = IF what # "report" THEN report ELSE
                [report EXCEPT ![<<h, it.digest>>] = Entry(it.report)]

VerifyDomain(r, digest) ==
    /\ Goto(r, "verify", "put") /\ ~Bypass(r) /\ ask[r].doc = None
    /\ LET it == [digest |-> digest, report |-> Made(r)]
       IN  Put(Host(r), PutOrder[1], it) /\ run' = [run EXCEPT ![r] = it]
    /\ UNCHANGED <<now, gate, verdict, registry, ask, seen, stale, answer, asks, faults>>

PutRest(r) ==
    /\ pc[r] = "put"
    /\ Put(Host(r), PutOrder[2], run[r])
    /\ Reply(r, Served("MISS", run[r].report, run[r].report.at, 0))
    /\ UNCHANGED <<now, gate, verdict, registry, asks, faults>>

\* The verification or a KV call throws, or the client or the isolate goes away.
Fail(r) ==
    /\ pc[r] # "idle" /\ Reply(r, Refused)
    /\ faults < MaxFaults /\ faults' = faults + 1
    /\ UNCHANGED <<now, gate, stores, asks>>

Advance ==
    /\ now < MaxNow /\ now' = now + 1
    /\ UNCHANGED <<gate, stores, pc, locals, answer, asks, faults>>

-----------------------------------------------------------------------------
Step(r) ==
    \/ \E a \in Asked : Enter(r, a)
    \/ LookupVerdict(r) \/ LookupHead(r) \/ LookupReport(r) \/ Reserve(r)
    \/ RefusePin(r) \/ VerifySelf(r) \/ VerifyDocument(r)
    \/ (\E d \in Digests : VerifyDomain(r, d)) \/ PutRest(r)
    \/ Fail(r)

Next == (\E r \in Requests : Step(r)) \/ (\E h \in Hosts : TickReserve(h)) \/ Advance

Spec == Init /\ [][Next]_vars

-----------------------------------------------------------------------------
Reported(r) == answer[r] # None /\ answer[r].report # None

\* Attested admission fails closed and a bad pin is refused, whatever is in the cache: a
\* request without the pin it needs, or with a pin that is not the document's digest, is
\* never answered with a verdict.
PinGuardsEveryAnswer ==
    \A r \in Requests : Reported(r) =>
        ask[r].pin # "mismatch" /\ (ask[r].attested => ask[r].pin = "match")

\* A verdict on a document is the verdict of a run of that document, against that origin
\* and on the seed that was asked for: no entry is shared by two different runs.
VerdictIsWhatWasAsked ==
    \A r \in Requests : Reported(r) /\ ask[r].doc # None =>
        LET got == answer[r].report
        IN  got.origin = ask[r].origin /\ got.doc = ask[r].doc /\ got.seed = ask[r].seed

\* The age that is reported with a verdict is never less than the age that the report had
\* at the lookup, though the age is the head's and the report is another entry.
AgeIsHonest ==
    \A r \in Requests : Reported(r) => answer[r].age >= answer[r].asof - answer[r].report.at

\* A head that is fresh names a report that is there, though the two are put one after the
\* other, expire each on its own, and a request may die between the two puts.
FreshHeadHasReport ==
    \A h \in Hosts :
        LET named == Read(head[h])
        IN  named # None /\ Fresh(now - named.at) => Read(report[<<h, named.digest>>]) # None

\* Retry-After is kept, with a 429 and with a stale verdict: it names a time that is still to
\* come and at most the cooldown away, and when that has passed, the host may be probed again
\* unless somebody else's probe was granted meanwhile.
RetryAfterIsKept ==
    \A r \in Requests : answer[r] # None /\ answer[r].how \in {"denied", "STALE"} =>
        /\ answer[r].retry \in 1 .. MinGap
        /\ now >= answer[r].from + answer[r].retry =>
              Allowed(Host(r)) \/ granted[Host(r)] > answer[r].nth
=============================================================================
