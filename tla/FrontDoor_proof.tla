---------------------------- MODULE FrontDoor_proof ----------------------------
(***************************************************************************)
(* Proofs about FrontDoor, for any number of requests, targets, documents, *)
(* digests and any faults: a bad pin is never answered with a verdict, a   *)
(* cached verdict is that of the run that was asked for, its age is never  *)
(* understated, a fresh head names a report, and Retry-After is kept.      *)
(*                                                                         *)
(* The five promises meet in one invariant.  Of the stores it says that a  *)
(* report is only ever replaced by a later one, so that whoever has read a *)
(* head - the head itself, or a request between its two reads or its two   *)
(* puts - still finds a report, and none older than the head; of each      *)
(* request, what its answer was given for.                                 *)
(***************************************************************************)
EXTENDS FrontDoor, TLAPS

Answers == [how : {"HIT", "STALE", "MISS", "refused", "denied"}, report : Report \cup {None},
            age : Nat, asof : Nat, retry : Nat, from : Nat, nth : Nat]
Seen    == [digest : Digests, at : Nat, age : Nat]
Run     == [digest : Digests, report : Report]

GateTyped == /\ reserved \in [Hosts -> Nat \cup {Never}] /\ granted \in [Hosts -> Nat]
             /\ \A h \in Hosts : reserved[h] <= now

StoreTyped ==
    /\ now \in Nat
    /\ head \in [Hosts -> Stored(Pointer) \cup {None}]
    /\ report \in [Hosts \X Digests -> Stored(Report) \cup {None}]
    /\ verdict \in [Keys -> Stored(Report) \cup {None}]

LocalsTyped ==
    /\ pc \in [Requests -> {"idle", "lookup", "read", "reserve", "verify", "put"}]
    /\ ask \in [Requests -> Asked \cup {None}]
    /\ seen \in [Requests -> Seen \cup {None}]
    /\ stale \in [Requests -> Report \cup {None}]
    /\ run \in [Requests -> Run \cup {None}]
    /\ answer \in [Requests -> Answers \cup {None}]

\* The report under a key is there and no older than a time.
Holds(k, t) == report[k] \in Stored(Report) /\ t <= report[k].value.at

\* A report is put at the time of its run, and no head is newer than the report it names.
StoresTrue ==
    /\ \A k \in Hosts \X Digests : report[k] # None =>
          report[k].till = report[k].value.at + Ttl /\ report[k].value.at <= now
    /\ \A h \in Hosts : head[h] # None => Holds(<<h, head[h].value.digest>>, head[h].value.at)
    /\ \A k \in Keys : verdict[k] # None =>
          LET it == verdict[k].value
          IN  it.origin = k[1] /\ it.doc = k[2] /\ it.seed = k[3] /\ it.at <= now

\* An answer that its request may be given: a verdict on what was asked, and a Retry-After
\* that names the end of the cooldown, where it says that there is one.
Vouched(r, it) ==
    it.report # None =>
        /\ ask[r].pin # "mismatch" /\ (ask[r].attested => ask[r].pin = "match")
        /\ ask[r].doc # None => /\ it.report.origin = ask[r].origin
                                /\ it.report.doc = ask[r].doc /\ it.report.seed = ask[r].seed
        /\ it.asof - it.report.at <= it.age
Timed(r, it) ==
    it.how \in {"denied", "STALE"} =>
        /\ it.retry \in 1 .. MinGap /\ it.nth <= granted[Host(r)]
        /\ granted[Host(r)] = it.nth => /\ reserved[Host(r)] # Never
                                        /\ reserved[Host(r)] + MinGap = it.from + it.retry
Due(r, it) == Vouched(r, it) /\ Timed(r, it)

\* What a request knows at each of its steps.
Knows(r) ==
    /\ pc[r] # "idle" \/ answer[r] # None => ask[r] \in Asked
    /\ pc[r] # "idle" => ~(ask[r].attested /\ ask[r].pin = "none")
    /\ pc[r] \in {"read", "reserve", "put"} => ask[r].doc = None
    /\ pc[r] = "read" => seen[r] \in Seen /\ Holds(<<Host(r), seen[r].digest>>, seen[r].at)
    /\ stale[r] # None => /\ pc[r] \in {"reserve", "verify", "put"}
                           /\ seen[r] \in Seen /\ seen[r].at <= stale[r].at
    /\ pc[r] = "put" => run[r] \in Run /\ Holds(<<Host(r), run[r].digest>>, run[r].report.at)
    /\ answer[r] # None => Due(r, answer[r])

IInv == GateTyped /\ StoreTyped /\ LocalsTyped /\ StoresTrue /\ \A r \in Requests : Knows(r)

-----------------------------------------------------------------------------
LEMMA InvInit == Init => IInv
<1> SUFFICES ASSUME Init PROVE IInv
  OBVIOUS
<1>1. GateTyped /\ StoreTyped
  BY DEF Init, GateTyped, StoreTyped, Never
<1>2. LocalsTyped
  BY DEF Init, LocalsTyped
<1>3. StoresTrue
  BY DEF Init, StoresTrue
<1>4. \A r \in Requests : Knows(r)
  BY DEF Init, Knows
<1>5. QED
  BY <1>1, <1>2, <1>3, <1>4 DEF IInv

LEMMA AskedTypes ==
    ASSUME NEW r \in Requests, ask[r] \in Asked
    PROVE  /\ ask[r].origin \in Origins /\ Host(r) \in Hosts
           /\ ask[r].doc \in Documents \cup {None} /\ ask[r].seed \in Seeds \cup {None}
           /\ ask[r].pin \in {"none", "match", "mismatch"} /\ ask[r].attested \in BOOLEAN
           /\ ask[r].doc = None => ask[r].pin = "none" /\ ~ask[r].attested
BY FrontDoorAssumption, AskedAssumption DEF Ask, Host

LEMMA ReportOfRun ==
    ASSUME NEW r \in Requests, ask[r] \in Asked, now \in Nat
    PROVE  Made(r) \in Report
BY AskedTypes DEF Made, Report

-----------------------------------------------------------------------------
(* What a step leaves alone                                                  *)

\* Nothing a request relies on goes away: a report is replaced by a later one at most, and
\* the cooldown of a host moves only when a probe is granted.
Steady ==
    /\ \A k \in Hosts \X Digests, t \in Nat : Holds(k, t) => Holds(k, t)'
    /\ \A h \in Hosts : \/ reserved'[h] = reserved[h] /\ granted'[h] = granted[h]
                        \/ granted'[h] > granted[h]

\* A request that a step does not touch knows what it knew.
Untouched(q) ==
    /\ pc'[q] = pc[q] /\ ask'[q] = ask[q] /\ seen'[q] = seen[q]
    /\ stale'[q] = stale[q] /\ run'[q] = run[q] /\ answer'[q] = answer[q]

LEMMA SameStoresSteady == ASSUME IInv, UNCHANGED report, UNCHANGED gate PROVE Steady
BY DEF Steady, Holds, gate

LEMMA KnowsFrame ==
    ASSUME IInv, GateTyped', NEW q \in Requests, Steady, Untouched(q) PROVE Knows(q)'
<1>0. Knows(q) /\ seen[q] \in Seen \cup {None} /\ run[q] \in Run \cup {None}
      /\ answer[q] \in Answers \cup {None} /\ granted \in [Hosts -> Nat]
  BY DEF IInv, LocalsTyped, GateTyped
<1>1. Host(q)' = Host(q)
  BY DEF Untouched, Host
<1>2. ASSUME pc[q] = "read" PROVE Holds(<<Host(q), seen[q].digest>>, seen[q].at)'
  <2>1. Holds(<<Host(q), seen[q].digest>>, seen[q].at) /\ Host(q) \in Hosts /\ seen[q] \in Seen
    BY <1>0, <1>2, AskedTypes DEF Knows
  <2>2. <<Host(q), seen[q].digest>> \in Hosts \X Digests /\ seen[q].at \in Nat
    BY <2>1 DEF Seen
  <2>3. QED
    BY <1>1, <2>1, <2>2 DEF Steady, Holds, Untouched
<1>3. ASSUME pc[q] = "put" PROVE Holds(<<Host(q), run[q].digest>>, run[q].report.at)'
  <2>1. Holds(<<Host(q), run[q].digest>>, run[q].report.at) /\ Host(q) \in Hosts /\ run[q] \in Run
    BY <1>0, <1>3, AskedTypes DEF Knows
  <2>2. <<Host(q), run[q].digest>> \in Hosts \X Digests /\ run[q].report.at \in Nat
    BY <2>1 DEF Run, Report
  <2>3. QED
    BY <1>1, <2>1, <2>2 DEF Steady, Holds, Untouched
<1>4. ASSUME answer[q] # None PROVE Due(q, answer[q])'
  <2>1. Due(q, answer[q]) /\ Host(q) \in Hosts /\ answer[q].nth \in Nat
    BY <1>0, <1>4, AskedTypes DEF Knows, Answers
  <2>2. \/ reserved'[Host(q)] = reserved[Host(q)] /\ granted'[Host(q)] = granted[Host(q)]
        \/ granted'[Host(q)] > granted[Host(q)]
    BY <2>1 DEF Steady
  <2>3. granted[Host(q)] \in Nat
    BY <1>0, <2>1
  <2>4. ask'[q] = ask[q] /\ answer'[q] = answer[q]
    BY DEF Untouched
  <2>5. CASE reserved'[Host(q)] = reserved[Host(q)] /\ granted'[Host(q)] = granted[Host(q)]
    BY <1>1, <2>1, <2>4, <2>5 DEF Due, Vouched, Timed
  <2>6. CASE granted'[Host(q)] > granted[Host(q)]
    BY <1>1, <2>1, <2>3, <2>4, <2>6 DEF Due, Vouched, Timed, GateTyped
  <2>7. QED
    BY <2>2, <2>5, <2>6
<1>5. QED
  BY <1>0, <1>2, <1>3, <1>4 DEF Knows, Untouched

\* A step that only one request takes part in keeps what all the others know.
LEMMA StepKeepsInv ==
    ASSUME IInv, GateTyped', StoreTyped', LocalsTyped', StoresTrue', Steady, NEW r \in Requests,
           Knows(r)', \A q \in Requests \ {r} : Untouched(q)
    PROVE  IInv'
<1>1. ASSUME NEW q \in Requests PROVE Knows(q)'
  BY <1>1, KnowsFrame
<1>2. QED
  BY <1>1 DEF IInv

-----------------------------------------------------------------------------
(* An answer, and a step on the way to one                                   *)

LEMMA ReplyStep ==
    ASSUME IInv, NEW r \in Requests, NEW it \in Answers, pc[r] # "idle", Due(r, it), Reply(r, it),
           UNCHANGED gate, StoreTyped', StoresTrue', now' = now, Steady
    PROVE  IInv'
<1>1. /\ pc' = [pc EXCEPT ![r] = "idle"] /\ answer' = [answer EXCEPT ![r] = it] /\ ask' = ask
      /\ seen' = [seen EXCEPT ![r] = None] /\ stale' = [stale EXCEPT ![r] = None]
      /\ run' = [run EXCEPT ![r] = None]
  BY DEF Reply
<1>2. LocalsTyped /\ Knows(r)
  BY DEF IInv
<1>3. LocalsTyped'
  BY <1>1, <1>2 DEF LocalsTyped
<1>4. GateTyped'
  BY DEF IInv, GateTyped, gate
<1>5. \A q \in Requests \ {r} : Untouched(q)
  BY <1>1, <1>2 DEF Untouched, LocalsTyped
<1>6. Knows(r)'
  <2>1. Due(r, it)'
    BY <1>1 DEF Due, Vouched, Timed, Host, gate
  <2>2. pc'[r] = "idle" /\ answer'[r] = it /\ stale'[r] = None /\ ask'[r] \in Asked
    BY <1>1, <1>2 DEF LocalsTyped, Knows
  <2>3. QED
    BY <2>1, <2>2 DEF Knows
<1>7. QED
  BY <1>3, <1>4, <1>5, <1>6, StepKeepsInv

\* Nothing but the request's own locals moves.
LEMMA LocalStep ==
    ASSUME IInv, NEW r \in Requests, UNCHANGED <<now, gate, head, report, verdict>>,
           LocalsTyped', Knows(r)', \A q \in Requests \ {r} : Untouched(q)
    PROVE  IInv'
<1>1. GateTyped' /\ StoreTyped' /\ StoresTrue'
  BY DEF IInv, GateTyped, StoreTyped, StoresTrue, Holds, gate
<1>2. Steady
  BY SameStoresSteady
<1>3. QED
  BY <1>1, <1>2, StepKeepsInv

\* A refusal is due to anybody.
LEMMA RefusedDue ==
    ASSUME NEW r \in Requests, now \in Nat PROVE Refused \in Answers /\ Due(r, Refused)
BY DEF Refused, Answers, Due, Vouched, Timed

\* A verdict that is served with the age of what it was found by.
LEMMA ServedVouched ==
    ASSUME NEW r \in Requests, NEW how \in {"HIT", "STALE", "MISS"}, NEW what \in Report,
           NEW at \in Nat, NEW age \in Nat, at <= what.at,
           ask[r].pin # "mismatch", ask[r].attested => ask[r].pin = "match",
           ask[r].doc # None => what.origin = ask[r].origin /\ what.doc = ask[r].doc
                                /\ what.seed = ask[r].seed
    PROVE  Served(how, what, at, age) \in Answers /\ Vouched(r, Served(how, what, at, age))
<1>1. what.at \in Nat
  BY DEF Report
<1>2. QED
  BY <1>1 DEF Served, Answers, Vouched

LEMMA ServedDue ==
    ASSUME NEW r \in Requests, NEW how \in {"HIT", "MISS"}, NEW what \in Report,
           NEW at \in Nat, NEW age \in Nat, at <= what.at,
           ask[r].pin # "mismatch", ask[r].attested => ask[r].pin = "match",
           ask[r].doc # None => what.origin = ask[r].origin /\ what.doc = ask[r].doc
                                /\ what.seed = ask[r].seed
    PROVE  Served(how, what, at, age) \in Answers /\ Due(r, Served(how, what, at, age))
<1>1. Served(how, what, at, age) \in Answers /\ Vouched(r, Served(how, what, at, age))
  BY ServedVouched
<1>2. QED
  BY <1>1 DEF Served, Due, Timed

\* A request that is being handled has the pin it needs, if the pin is not a bad one.
LEMMA PinOk ==
    ASSUME IInv, NEW r \in Requests, pc[r] # "idle"
    PROVE  /\ ask[r] \in Asked
           /\ ask[r].pin # "mismatch" => (ask[r].attested => ask[r].pin = "match")
           /\ ask[r].doc = None => ask[r].pin # "mismatch" /\ ~ask[r].attested
<1>1. ask[r] \in Asked /\ ~(ask[r].attested /\ ask[r].pin = "none")
  BY DEF IInv, Knows
<1>2. QED
  BY <1>1, AskedTypes

-----------------------------------------------------------------------------
LEMMA EnterStep == ASSUME IInv, NEW r \in Requests, NEW a \in Asked, Enter(r, a) PROVE IInv'
<1>1. /\ pc[r] = "idle" /\ ask' = [ask EXCEPT ![r] = a]
      /\ UNCHANGED <<now, gate, head, report, verdict, seen, stale, run>>
  BY DEF Enter
<1>2. \/ /\ a.attested /\ a.pin = "none"
         /\ pc' = pc /\ answer' = [answer EXCEPT ![r] = Refused]
      \/ /\ ~(a.attested /\ a.pin = "none")
         /\ pc' = [pc EXCEPT ![r] = "lookup"] /\ answer' = [answer EXCEPT ![r] = None]
  BY DEF Enter
<1>3. LocalsTyped /\ now \in Nat /\ Knows(r)
  BY DEF IInv, StoreTyped
<1>4. LocalsTyped'
  BY <1>1, <1>2, <1>3, RefusedDue DEF LocalsTyped
<1>5. \A q \in Requests \ {r} : Untouched(q)
  BY <1>1, <1>2, <1>3 DEF Untouched, LocalsTyped
<1>6. Knows(r)'
  <2>1. ask'[r] = a /\ stale'[r] = stale[r]
    BY <1>1, <1>3 DEF LocalsTyped
  <2>2. stale[r] = None
    BY <1>1, <1>3 DEF Knows
  <2>3. CASE a.attested /\ a.pin = "none" /\ pc' = pc /\ answer' = [answer EXCEPT ![r] = Refused]
    <3>1. pc'[r] = "idle" /\ answer'[r] = Refused
      BY <1>1, <1>3, <2>3 DEF LocalsTyped
    <3>2. answer[r]' # None => Due(r, answer[r])'
      BY <3>1 DEF Due, Vouched, Timed, Refused
    <3>4. QED
      BY <2>1, <2>2, <3>1, <3>2 DEF Knows
  <2>4. CASE /\ ~(a.attested /\ a.pin = "none")
             /\ pc' = [pc EXCEPT ![r] = "lookup"] /\ answer' = [answer EXCEPT ![r] = None]
    <3>1. pc'[r] = "lookup" /\ answer'[r] = None
      BY <1>3, <2>4 DEF LocalsTyped
    <3>2. QED
      BY <2>1, <2>2, <2>4, <3>1 DEF Knows
  <2>5. QED
    BY <1>2, <2>3, <2>4
<1>7. QED
  BY <1>1, <1>4, <1>5, <1>6, LocalStep

\* A hit is due to the request that asked for its key; otherwise the run comes next.
LEMMA LookupVerdictStep == ASSUME IInv, NEW r \in Requests, LookupVerdict(r) PROVE IInv'
<1> DEFINE hit == IF LooksUp(r) THEN Read(verdict[Key(r)]) ELSE None
<1>1. pc[r] = "lookup" /\ ask[r].doc # None /\ UNCHANGED <<now, gate, stores>>
  BY DEF LookupVerdict
<1>2. ask[r] \in Asked /\ Knows(r) /\ LocalsTyped /\ now \in Nat /\ StoresTrue
      /\ verdict \in [Keys -> Stored(Report) \cup {None}]
  BY <1>1, PinOk DEF IInv, StoreTyped
<1>3. CASE Reply(r, Served("HIT", hit, hit.at, now - hit.at)) /\ hit # None
  <2>1. LooksUp(r) /\ hit = Read(verdict[Key(r)])
    BY <1>3
  <2>2. Key(r) \in Keys
    BY <1>1, <1>2, AskedTypes DEF Key, Keys
  <2>3. verdict[Key(r)] \in Stored(Report) /\ verdict[Key(r)] # None
        /\ hit = verdict[Key(r)].value
    BY <1>2, <1>3, <2>1, <2>2 DEF Read
  <2>4. /\ hit \in Report /\ hit.origin = ask[r].origin /\ hit.doc = ask[r].doc
        /\ hit.seed = ask[r].seed /\ hit.at <= now
    BY <1>2, <2>2, <2>3 DEF StoresTrue, Stored, Key
  <2> HIDE DEF hit
  <2>5. hit.at \in Nat /\ now - hit.at \in Nat /\ hit.at <= hit.at
    BY <1>2, <2>4 DEF Report
  <2>6. ask[r].pin # "mismatch" /\ (ask[r].attested => ask[r].pin = "match")
    BY <1>1, <2>1, PinOk DEF LooksUp
  <2>7. /\ Served("HIT", hit, hit.at, now - hit.at) \in Answers
        /\ Due(r, Served("HIT", hit, hit.at, now - hit.at))
    BY <2>4, <2>5, <2>6, ServedDue
  <2>8. StoreTyped' /\ StoresTrue' /\ Steady
    BY <1>1, SameStoresSteady DEF IInv, StoreTyped, StoresTrue, Holds, stores
  <2>9. QED
    BY <1>1, <1>3, <2>7, <2>8, ReplyStep
<1>4. CASE Goto(r, "lookup", "verify") /\ UNCHANGED <<locals, answer>>
  <2>1. LocalsTyped' /\ \A q \in Requests \ {r} : Untouched(q)
    BY <1>2, <1>4 DEF LocalsTyped, Untouched, Goto, locals
  <2>2. Knows(r)'
    <3>1. pc'[r] = "verify" /\ pc[r] = "lookup"
      BY <1>2, <1>4 DEF Goto, LocalsTyped
    <3>2. answer[r] # None => Due(r, answer[r])'
      BY <1>1, <1>2, <1>4 DEF Knows, Due, Vouched, Timed, Host, locals, gate
    <3>3. QED
      BY <1>2, <1>4, <3>1, <3>2 DEF Knows, locals
  <2>3. QED
    BY <1>1, <2>1, <2>2, LocalStep DEF stores
<1>5. QED
  BY <1>3, <1>4 DEF LookupVerdict

\* A fresh head is kept with its age; the report it names is there and no older.
LEMMA LookupHeadStep == ASSUME IInv, NEW r \in Requests, LookupHead(r) PROVE IInv'
<1> DEFINE found == IF Bypass(r) THEN None ELSE Read(head[Host(r)])
           to == IF Bypass(r) THEN "verify" ELSE IF found = None THEN "reserve" ELSE "read"
<1>1. /\ pc[r] = "lookup" /\ ask[r].doc = None /\ pc' = [pc EXCEPT ![r] = to]
      /\ seen' = [seen EXCEPT ![r] = IF found = None THEN None ELSE Aged(found)]
      /\ UNCHANGED <<now, gate, stores, ask, stale, run, answer>>
  BY DEF LookupHead, Goto
<1>2. /\ ask[r] \in Asked /\ Knows(r) /\ LocalsTyped /\ now \in Nat /\ StoresTrue
      /\ head \in [Hosts -> Stored(Pointer) \cup {None}] /\ Host(r) \in Hosts
      /\ report \in [Hosts \X Digests -> Stored(Report) \cup {None}]
  BY <1>1, PinOk, AskedTypes DEF IInv, StoreTyped
<1>3. found # None => /\ head[Host(r)] \in Stored(Pointer) /\ head[Host(r)] # None
                      /\ found = head[Host(r)].value
  BY <1>2 DEF Read
<1>4. found # None => /\ found \in Pointer /\ Holds(<<Host(r), found.digest>>, found.at)
  BY <1>2, <1>3 DEF StoresTrue, Stored
<1> HIDE DEF found
<1>5. found # None => /\ Aged(found) \in Seen /\ Aged(found).digest = found.digest
                      /\ Aged(found).at = found.at
  <2>1. ASSUME found # None PROVE now - found.at \in Nat
    <3>1. /\ found \in Pointer /\ Holds(<<Host(r), found.digest>>, found.at)
          /\ <<Host(r), found.digest>> \in Hosts \X Digests
      BY <1>2, <1>4, <2>1 DEF Pointer
    <3>2. report[<<Host(r), found.digest>>] # None
      BY <3>1, NoneAssumption DEF Holds
    <3>3. report[<<Host(r), found.digest>>].value.at \in Nat
      BY <3>1 DEF Holds, Stored, Report
    <3>4. found.at <= report[<<Host(r), found.digest>>].value.at
      BY <3>1 DEF Holds
    <3>5. report[<<Host(r), found.digest>>].value.at <= now
      BY <1>2, <3>1, <3>2 DEF StoresTrue
    <3>6. found.at \in Nat
      BY <3>1 DEF Pointer
    <3>7. QED
      BY <1>2, <3>3, <3>4, <3>5, <3>6
  <2>2. QED
    BY <1>4, <2>1 DEF Aged, Seen, Pointer
<1>6. stale[r] = None
  BY <1>1, <1>2 DEF Knows
<1>7. LocalsTyped' /\ \A q \in Requests \ {r} : Untouched(q)
  BY <1>1, <1>2, <1>5 DEF LocalsTyped, Untouched
<1>8. Knows(r)'
  <2>1. pc'[r] = to /\ seen'[r] = IF found = None THEN None ELSE Aged(found)
    BY <1>1, <1>2 DEF LocalsTyped
  <2>2. pc'[r] = "read" => seen'[r] \in Seen /\ Holds(<<Host(r), seen[r].digest>>, seen[r].at)'
    <3>1. SUFFICES ASSUME pc'[r] = "read"
                   PROVE  seen'[r] \in Seen /\ Holds(<<Host(r), seen[r].digest>>, seen[r].at)'
      OBVIOUS
    <3>2. found # None /\ seen'[r] = Aged(found)
      BY <2>1, <3>1
    <3>3. Host(r)' = Host(r) /\ report' = report
      BY <1>1 DEF Host, stores
    <3>4. QED
      BY <1>4, <1>5, <3>2, <3>3 DEF Holds, Seen
  <2>3. answer[r] # None => Due(r, answer[r])'
    BY <1>1, <1>2 DEF Knows, Due, Vouched, Timed, Host, gate
  <2>4. QED
    BY <1>1, <1>2, <1>6, <2>1, <2>2, <2>3 DEF Knows
<1>9. QED
  BY <1>1, <1>7, <1>8, LocalStep DEF stores

\* The report that is found is served with the head's age, or kept for a denied probe.
LEMMA LookupReportStep == ASSUME IInv, NEW r \in Requests, LookupReport(r) PROVE IInv'
<1> DEFINE key == <<Host(r), seen[r].digest>>
           hit == Read(report[key])
<1>1. pc[r] = "read" /\ UNCHANGED <<now, gate, stores>>
  BY DEF LookupReport
<1>2. /\ ask[r] \in Asked /\ ask[r].doc = None /\ Knows(r) /\ LocalsTyped /\ now \in Nat
      /\ seen[r] \in Seen /\ Holds(key, seen[r].at)
      /\ ask[r].pin # "mismatch" /\ ~ask[r].attested
  BY <1>1, PinOk DEF IInv, StoreTyped, Knows
<1>3. hit # None => hit \in Report /\ seen[r].at <= hit.at
  BY <1>2 DEF Holds, Read, Stored
<1> HIDE DEF hit
<1>4. StoreTyped' /\ StoresTrue' /\ Steady
  BY <1>1, SameStoresSteady DEF IInv, StoreTyped, StoresTrue, Holds, stores
<1>5. CASE hit # None /\ Reply(r, Served("HIT", hit, seen[r].at, seen[r].age))
  <2>1. /\ Served("HIT", hit, seen[r].at, seen[r].age) \in Answers
        /\ Due(r, Served("HIT", hit, seen[r].at, seen[r].age))
    BY <1>2, <1>3, <1>5, ServedDue DEF Seen
  <2>2. QED
    BY <1>1, <1>4, <1>5, <2>1, ReplyStep
<1>6. CASE /\ Goto(r, "read", "reserve") /\ stale' = [stale EXCEPT ![r] = hit]
           /\ UNCHANGED <<ask, seen, run, answer>>
  <2>1. LocalsTyped' /\ \A q \in Requests \ {r} : Untouched(q)
    BY <1>2, <1>3, <1>6 DEF LocalsTyped, Untouched, Goto
  <2>2. Knows(r)'
    <3>1. pc'[r] = "reserve" /\ stale'[r] = hit /\ seen'[r] = seen[r] /\ ask'[r] = ask[r]
      BY <1>2, <1>6 DEF Goto, LocalsTyped
    <3>2. answer[r] # None => Due(r, answer[r])'
      BY <1>1, <1>2, <1>6 DEF Knows, Due, Vouched, Timed, Host, gate
    <3>3. QED
      BY <1>2, <1>3, <1>6, <3>1, <3>2 DEF Knows
  <2>3. QED
    BY <1>1, <2>1, <2>2, LocalStep DEF stores
<1>7. QED
  BY <1>5, <1>6 DEF LookupReport, hit

-----------------------------------------------------------------------------
(* The cooldown                                                              *)

LEMMA SpendSteady ==
    ASSUME IInv, NEW h \in Hosts, Spend(h), UNCHANGED <<now, report>> PROVE GateTyped' /\ Steady
<1>1. GateTyped /\ now \in Nat
  BY DEF IInv, StoreTyped
<1>2. CASE Allowed(h)
  <2>1. /\ reserved' = [reserved EXCEPT ![h] = now]
        /\ granted' = [granted EXCEPT ![h] = granted[h] + 1]
    BY <1>2 DEF Spend
  <2>2. GateTyped'
    BY <1>1, <2>1 DEF GateTyped
  <2>3. \A g \in Hosts : \/ reserved'[g] = reserved[g] /\ granted'[g] = granted[g]
                         \/ granted'[g] > granted[g]
    BY <1>1, <2>1 DEF GateTyped
  <2>4. QED
    BY <2>2, <2>3 DEF Steady, Holds
<1>3. CASE ~Allowed(h)
  BY <1>1, <1>3 DEF Spend, gate, GateTyped, Steady, Holds
<1>4. QED
  BY <1>2, <1>3

\* A denied request names what is left of the cooldown, and the probe that it waits for.
LEMMA ReserveStep == ASSUME IInv, NEW r \in Requests, Reserve(r) PROVE IInv'
<1>1. pc[r] = "reserve" /\ Spend(Host(r)) /\ UNCHANGED <<now, stores>>
  BY DEF Reserve, Goto, Reply
<1>2. /\ ask[r] \in Asked /\ ask[r].doc = None /\ Knows(r) /\ LocalsTyped /\ GateTyped
      /\ now \in Nat /\ Host(r) \in Hosts /\ ask[r].pin # "mismatch" /\ ~ask[r].attested
  BY <1>1, PinOk, AskedTypes DEF IInv, StoreTyped, Knows
<1>3. StoreTyped' /\ StoresTrue'
  BY <1>1 DEF IInv, StoreTyped, StoresTrue, Holds, stores
<1>4. GateTyped' /\ Steady
  BY <1>1, <1>2, SpendSteady DEF stores
<1>5. CASE Allowed(Host(r))
  <2>1. pc' = [pc EXCEPT ![r] = "verify"] /\ UNCHANGED <<locals, answer>>
    BY <1>5 DEF Reserve, Goto
  <2>2. LocalsTyped' /\ \A q \in Requests \ {r} : Untouched(q)
    BY <1>2, <2>1 DEF LocalsTyped, Untouched, locals
  <2>3. Knows(r)'
    <3>1. pc'[r] = "verify" /\ ask'[r] = ask[r] /\ Host(r)' = Host(r)
      BY <1>2, <2>1 DEF LocalsTyped, locals, Host
    <3>2. answer[r] # None => Due(r, answer[r])'
      <4>1. SUFFICES ASSUME answer[r] # None PROVE Due(r, answer[r])'
        OBVIOUS
      <4>2. Due(r, answer[r]) /\ answer'[r] = answer[r] /\ answer[r].nth \in Nat
        BY <1>2, <2>1, <4>1 DEF Knows, LocalsTyped, Answers, locals
      <4>3. granted'[Host(r)] > granted[Host(r)] /\ granted[Host(r)] \in Nat
        BY <1>1, <1>2, <1>5 DEF Spend, GateTyped
      <4>4. granted'[Host(r)] \in Nat
        BY <1>2, <1>4 DEF GateTyped
      <4>5. QED
        BY <3>1, <4>2, <4>3, <4>4 DEF Due, Vouched, Timed
    <3>3. QED
      BY <1>2, <2>1, <3>1, <3>2 DEF Knows, locals
  <2>4. QED
    BY <1>3, <1>4, <2>2, <2>3, StepKeepsInv
<1>6. CASE ~Allowed(Host(r))
  <2>1. Reply(r, Denied(r)) /\ UNCHANGED gate
    BY <1>1, <1>6 DEF Reserve, Spend
  <2> DEFINE it == IF stale[r] # None THEN Served("STALE", stale[r], seen[r].at, seen[r].age)
                   ELSE [Refused EXCEPT !.how = "denied"]
  <2>2. it \in Answers /\ Vouched(r, it)
    <3>1. CASE stale[r] # None
      <4>1. stale[r] \in Report /\ seen[r] \in Seen /\ seen[r].at <= stale[r].at
        BY <1>2, <3>1 DEF Knows, LocalsTyped
      <4>2. QED
        BY <1>2, <3>1, <4>1, ServedVouched DEF Seen
    <3>2. CASE stale[r] = None
      BY <1>2, <3>2 DEF Refused, Answers, Vouched
    <3>3. QED
      BY <3>1, <3>2
  <2>3. Denied(r) = [it EXCEPT !.retry = reserved[Host(r)] + MinGap - now, !.from = now,
                               !.nth = granted[Host(r)]]
    BY DEF Denied, Waiting
  <2> HIDE DEF it
  <2>4. /\ reserved[Host(r)] \in Nat /\ reserved[Host(r)] <= now
        /\ now - reserved[Host(r)] < MinGap /\ MinGap \in Nat /\ granted[Host(r)] \in Nat
        /\ reserved[Host(r)] # Never
    BY <1>2, <1>6, FrontDoorAssumption DEF Allowed, GateTyped, Never
  <2>5. reserved[Host(r)] + MinGap - now \in 1 .. MinGap
    BY <1>2, <2>4
  <2>6. Denied(r) \in Answers
    <3> DEFINE left == reserved[Host(r)] + MinGap - now
               nth == granted[Host(r)]
    <3>1. left \in Nat /\ nth \in Nat /\ now \in Nat
      BY <1>2, <2>4, <2>5
    <3>2. Denied(r) = [it EXCEPT !.retry = left, !.from = now, !.nth = nth]
      BY <2>3
    <3> HIDE DEF left, nth
    <3>3. QED
      BY <2>2, <3>1, <3>2 DEF Answers
  <2>7. Vouched(r, Denied(r))
    BY <2>2, <2>3 DEF Answers, Vouched
  <2>8. Timed(r, Denied(r))
    BY <1>2, <2>2, <2>3, <2>4, <2>5 DEF Answers, Timed
  <2>9. QED
    BY <1>1, <1>3, <1>4, <2>1, <2>6, <2>7, <2>8, ReplyStep DEF Due
<1>7. QED
  BY <1>5, <1>6

\* A tick's probe and the passing of time concern no request.
LEMMA OutsideStep ==
    ASSUME IInv, Advance \/ \E h \in Hosts : TickReserve(h) PROVE IInv'
<1>1. UNCHANGED <<stores, pc, locals, answer>>
  BY DEF Advance, TickReserve
<1>2. now \in Nat /\ (now' = now \/ (now' = now + 1 /\ UNCHANGED gate)) /\ now' \in Nat
  BY DEF IInv, StoreTyped, Advance, TickReserve
<1>3. GateTyped' /\ Steady
  <2>1. CASE Advance
    <3>1. GateTyped'
      BY <2>1, <1>2 DEF Advance, IInv, GateTyped, gate, Never
    <3>2. Steady
      BY <2>1, SameStoresSteady DEF Advance, stores
    <3>3. QED
      BY <3>1, <3>2
  <2>2. CASE \E h \in Hosts : TickReserve(h)
    BY <2>2, SpendSteady DEF TickReserve, stores
  <2>3. QED
    BY <2>1, <2>2
<1>4. StoreTyped' /\ StoresTrue'
  <2>1. StoreTyped /\ StoresTrue /\ now <= now'
    BY <1>2 DEF IInv
  <2>2. UNCHANGED <<head, report, verdict>>
    BY <1>1 DEF stores
  <2>3. StoreTyped'
    BY <1>2, <2>1, <2>2 DEF StoreTyped
  <2>4. \A k \in Hosts \X Digests : report[k] # None =>
           report[k].till = report[k].value.at + Ttl /\ report[k].value.at <= now'
    BY <1>2, <2>1 DEF StoreTyped, StoresTrue, Stored, Report
  <2>5. \A k \in Keys : verdict[k] # None => verdict[k].value.at <= now'
    BY <1>2, <2>1 DEF StoreTyped, StoresTrue, Stored, Report
  <2>6. StoresTrue'
    BY <2>1, <2>2, <2>4, <2>5 DEF StoresTrue, Holds
  <2>7. QED
    BY <2>3, <2>6
<1>5. LocalsTyped' /\ \A q \in Requests : Untouched(q)
  BY <1>1 DEF IInv, LocalsTyped, Untouched, locals
<1>6. \A q \in Requests : Knows(q)'
  BY <1>3, <1>5, KnowsFrame
<1>7. QED
  BY <1>3, <1>4, <1>5, <1>6 DEF IInv
-----------------------------------------------------------------------------
(* The verification, and its verdict's way into the cache                    *)

\* A refusal, by a bad pin or by a fault, touches no store.
LEMMA RefuseStep ==
    ASSUME IInv, NEW r \in Requests, pc[r] # "idle", Reply(r, Refused),
           UNCHANGED <<now, gate, stores>>
    PROVE  IInv'
<1>1. Refused \in Answers /\ Due(r, Refused)
  BY RefusedDue DEF IInv, StoreTyped
<1>2. StoreTyped' /\ StoresTrue' /\ Steady
  BY SameStoresSteady DEF IInv, StoreTyped, StoresTrue, Holds, stores
<1>3. QED
  BY <1>1, <1>2, ReplyStep

\* A verdict that was just made is due to the request it was made for.
LEMMA MadeDue ==
    ASSUME IInv, NEW r \in Requests, pc[r] # "idle", ask[r].pin # "mismatch"
    PROVE  /\ Made(r) \in Report
           /\ Served("MISS", Made(r), now, 0) \in Answers
           /\ Due(r, Served("MISS", Made(r), now, 0))
<1>1. ask[r] \in Asked /\ now \in Nat /\ (ask[r].attested => ask[r].pin = "match")
  BY PinOk DEF IInv, StoreTyped
<1>2. Made(r) \in Report
  BY <1>1, ReportOfRun
<1>3. /\ Made(r).origin = ask[r].origin /\ Made(r).doc = ask[r].doc
      /\ Made(r).seed = ask[r].seed /\ now <= Made(r).at
  BY <1>1 DEF Made
<1>4. QED
  BY <1>1, <1>2, <1>3, ServedDue

LEMMA VerifySelfStep == ASSUME IInv, NEW r \in Requests, VerifySelf(r) PROVE IInv'
<1>1. /\ pc[r] # "idle" /\ ask[r].pin # "mismatch" /\ UNCHANGED <<now, gate, stores>>
      /\ Reply(r, Served("MISS", Made(r), now, 0))
  BY DEF VerifySelf
<1>2. StoreTyped' /\ StoresTrue' /\ Steady
  BY <1>1, SameStoresSteady DEF IInv, StoreTyped, StoresTrue, Holds, stores
<1>3. QED
  BY <1>1, <1>2, MadeDue, ReplyStep

LEMMA VerifyDocumentStep == ASSUME IInv, NEW r \in Requests, VerifyDocument(r) PROVE IInv'
<1>1. /\ pc[r] # "idle" /\ ask[r].pin # "mismatch" /\ ask[r].doc # None
      /\ verdict' = [verdict EXCEPT ![Key(r)] = Entry(Made(r))]
      /\ UNCHANGED <<now, gate, head, report>>
      /\ Reply(r, Served("MISS", Made(r), now, 0))
  BY DEF VerifyDocument
<1>2. ask[r] \in Asked /\ StoreTyped /\ StoresTrue
  BY <1>1, PinOk DEF IInv
<1>3. Key(r) \in Keys /\ Made(r) \in Report
  BY <1>1, <1>2, AskedTypes, MadeDue DEF Key, Keys
<1>4. Entry(Made(r)) \in Stored(Report)
  BY <1>2, <1>3, FrontDoorAssumption DEF StoreTyped, Entry, Stored
<1>5. StoreTyped'
  BY <1>1, <1>2, <1>3, <1>4 DEF StoreTyped
<1>6. StoresTrue'
  <2>1. ASSUME NEW k \in Keys, verdict'[k] # None
        PROVE  LET it == verdict'[k].value
               IN  it.origin = k[1] /\ it.doc = k[2] /\ it.seed = k[3] /\ it.at <= now
    <3>1. CASE k = Key(r)
      <4>1. verdict'[k] = Entry(Made(r))
        BY <1>1, <1>2, <1>3, <3>1 DEF StoreTyped
      <4>2. verdict'[k].value = Made(r)
        BY <4>1 DEF Entry
      <4>3. QED
        BY <1>2, <3>1, <4>2 DEF Made, Key, StoreTyped
    <3>2. CASE k # Key(r)
      BY <1>1, <1>2, <2>1, <3>2 DEF StoreTyped, StoresTrue
    <3>3. QED
      BY <3>1, <3>2
  <2>2. QED
    BY <1>1, <1>2, <2>1 DEF StoresTrue, Holds
<1>7. QED
  BY <1>1, <1>5, <1>6, MadeDue, ReplyStep, SameStoresSteady

\* A report is put: whoever finds one under that key finds one that is no older.
LEMMA VerifyDomainStep ==
    ASSUME IInv, NEW r \in Requests, NEW d \in Digests, VerifyDomain(r, d) PROVE IInv'
<1> DEFINE it == [digest |-> d, report |-> Made(r)]
           key == <<Host(r), d>>
<1>1. /\ pc[r] = "verify" /\ ask[r].doc = None /\ pc' = [pc EXCEPT ![r] = "put"]
      /\ report' = [report EXCEPT ![key] = Entry(Made(r))] /\ run' = [run EXCEPT ![r] = it]
      /\ UNCHANGED <<now, gate, head, verdict, ask, seen, stale, answer>>
  BY DEF VerifyDomain, Goto, Put, PutOrder
<1>2. /\ ask[r] \in Asked /\ StoreTyped /\ StoresTrue /\ LocalsTyped /\ GateTyped /\ Knows(r)
      /\ now \in Nat /\ Host(r) \in Hosts
  BY <1>1, PinOk, AskedTypes DEF IInv, StoreTyped
<1>3. Made(r) \in Report /\ Made(r).at = now
  BY <1>2, ReportOfRun DEF Made
<1>4. Entry(Made(r)) \in Stored(Report) /\ Entry(Made(r)).value = Made(r)
      /\ Entry(Made(r)).till = now + Ttl
  BY <1>2, <1>3, FrontDoorAssumption DEF Entry, Stored
<1>5. key \in Hosts \X Digests /\ report'[key] = Entry(Made(r))
      /\ \A k \in Hosts \X Digests : k # key => report'[k] = report[k]
  BY <1>1, <1>2 DEF StoreTyped
<1>6. StoreTyped'
  BY <1>1, <1>2, <1>4, <1>5 DEF StoreTyped
<1>7. Steady
  <2>1. ASSUME NEW k \in Hosts \X Digests, NEW t \in Nat, Holds(k, t) PROVE Holds(k, t)'
    <3>1. CASE k = key
      <4>1. report[k] \in Stored(Report) /\ t <= report[k].value.at /\ report[k] # None
        BY <2>1, NoneAssumption DEF Holds
      <4>2. report[k].value.at <= now /\ report[k].value.at \in Nat
        BY <1>2, <4>1 DEF StoresTrue, Stored, Report
      <4>3. t <= now
        BY <1>2, <4>1, <4>2
      <4>4. report'[k] \in Stored(Report) /\ report'[k].value.at = now
        BY <1>3, <1>4, <1>5, <3>1
      <4>5. QED
        BY <4>3, <4>4 DEF Holds
    <3>2. CASE k # key
      BY <1>5, <2>1, <3>2 DEF Holds
    <3>3. QED
      BY <3>1, <3>2
  <2>2. QED
    BY <1>1, <2>1 DEF Steady, gate
<1>8. StoresTrue'
  <2>1. ASSUME NEW k \in Hosts \X Digests, report'[k] # None
        PROVE  report'[k].till = report'[k].value.at + Ttl /\ report'[k].value.at <= now
    <3>1. CASE k = key
      BY <1>2, <1>3, <1>4, <1>5, <3>1
    <3>2. CASE k # key
      BY <1>2, <1>5, <2>1, <3>2 DEF StoresTrue
    <3>3. QED
      BY <3>1, <3>2
  <2>2. ASSUME NEW h \in Hosts, head[h] # None
        PROVE  Holds(<<h, head[h].value.digest>>, head[h].value.at)'
    <3>1. Holds(<<h, head[h].value.digest>>, head[h].value.at)
      BY <1>2, <2>2 DEF StoresTrue
    <3>2. <<h, head[h].value.digest>> \in Hosts \X Digests /\ head[h].value.at \in Nat
      BY <1>2, <2>2 DEF StoreTyped, Stored, Pointer
    <3>3. head' = head
      BY <1>1
    <3>4. QED
      BY <1>7, <3>1, <3>2, <3>3 DEF Steady, Holds
  <2>3. QED
    BY <1>1, <1>2, <2>1, <2>2 DEF StoresTrue
<1>9. LocalsTyped' /\ GateTyped' /\ \A q \in Requests \ {r} : Untouched(q)
  BY <1>1, <1>2, <1>3 DEF LocalsTyped, GateTyped, Untouched, Run, gate
<1>10. Knows(r)'
  <2>1. pc'[r] = "put" /\ run'[r] = it /\ ask'[r] = ask[r] /\ Host(r)' = Host(r)
    BY <1>1, <1>2 DEF LocalsTyped, Host
  <2>2. it \in Run /\ Holds(<<Host(r), run[r].digest>>, run[r].report.at)'
    BY <1>2, <1>3, <1>4, <1>5, <2>1 DEF Run, Holds
  <2>3. answer[r] # None => Due(r, answer[r])'
    BY <1>1, <1>2 DEF Knows, Due, Vouched, Timed, Host, gate
  <2>4. QED
    BY <1>1, <1>2, <2>1, <2>2, <2>3 DEF Knows
<1>11. QED
  BY <1>6, <1>7, <1>8, <1>9, <1>10, StepKeepsInv

\* The head is put when its report is there.
LEMMA PutRestStep == ASSUME IInv, NEW r \in Requests, PutRest(r) PROVE IInv'
<1> DEFINE at == run[r].report.at
           new == Entry([digest |-> run[r].digest, at |-> at])
<1>1. /\ pc[r] = "put" /\ head' = [head EXCEPT ![Host(r)] = new] /\ report' = report
      /\ Reply(r, Served("MISS", run[r].report, at, 0))
      /\ UNCHANGED <<now, gate, verdict>>
  BY DEF PutRest, Put, PutOrder
<1>2. /\ ask[r] \in Asked /\ ask[r].doc = None /\ StoreTyped /\ StoresTrue /\ now \in Nat
      /\ Host(r) \in Hosts /\ ask[r].pin # "mismatch" /\ ~ask[r].attested
      /\ run[r] \in Run /\ Holds(<<Host(r), run[r].digest>>, at)
  BY <1>1, PinOk, AskedTypes DEF IInv, StoreTyped, Knows
<1>3. run[r].report \in Report /\ at \in Nat /\ run[r].digest \in Digests
  BY <1>2 DEF Run, Report
<1>4. /\ new \in Stored(Pointer) /\ new.value.digest = run[r].digest /\ new.value.at = at
  BY <1>2, <1>3, FrontDoorAssumption DEF Entry, Stored, Pointer
<1> HIDE DEF new
<1>5. StoreTyped'
  BY <1>1, <1>2, <1>4 DEF StoreTyped
<1>6. StoresTrue'
  <2>1. ASSUME NEW h \in Hosts, head'[h] # None
        PROVE  Holds(<<h, head'[h].value.digest>>, head'[h].value.at)
    <3>1. CASE h = Host(r)
      <4>1. head'[h] = new
        BY <1>1, <1>2, <3>1 DEF StoreTyped
      <4>2. QED
        BY <1>2, <1>4, <3>1, <4>1
    <3>2. CASE h # Host(r)
      <4>1. head'[h] = head[h]
        BY <1>1, <1>2, <3>2 DEF StoreTyped
      <4>2. QED
        BY <1>2, <2>1, <4>1 DEF StoresTrue
    <3>3. QED
      BY <3>1, <3>2
  <2>2. QED
    BY <1>1, <1>2, <2>1 DEF StoresTrue, Holds
<1>7. /\ Served("MISS", run[r].report, at, 0) \in Answers
      /\ Due(r, Served("MISS", run[r].report, at, 0))
  BY <1>2, <1>3, ServedDue
<1>8. QED
  BY <1>1, <1>5, <1>6, <1>7, ReplyStep, SameStoresSteady

-----------------------------------------------------------------------------
LEMMA InvNext == IInv /\ [Next]_vars => IInv'
<1> SUFFICES ASSUME IInv, [Next]_vars PROVE IInv'
  OBVIOUS
<1>1. ASSUME NEW r \in Requests, Step(r) PROVE IInv'
  <2>1. ASSUME NEW a \in Asked, Enter(r, a) PROVE IInv'
    BY <2>1, EnterStep
  <2>2. CASE LookupVerdict(r)
    BY <2>2, LookupVerdictStep
  <2>3. CASE LookupHead(r)
    BY <2>3, LookupHeadStep
  <2>4. CASE LookupReport(r)
    BY <2>4, LookupReportStep
  <2>5. CASE Reserve(r)
    BY <2>5, ReserveStep
  <2>6. CASE RefusePin(r)
    BY <2>6, RefuseStep DEF RefusePin
  <2>7. CASE VerifySelf(r)
    BY <2>7, VerifySelfStep
  <2>8. CASE VerifyDocument(r)
    BY <2>8, VerifyDocumentStep
  <2>9. ASSUME NEW d \in Digests, VerifyDomain(r, d) PROVE IInv'
    BY <2>9, VerifyDomainStep
  <2>10. CASE PutRest(r)
    BY <2>10, PutRestStep
  <2>11. CASE Fail(r)
    BY <2>11, RefuseStep DEF Fail
  <2>12. QED
    BY <1>1, <2>1, <2>2, <2>3, <2>4, <2>5, <2>6, <2>7, <2>8, <2>9, <2>10, <2>11 DEF Step
<1>2. CASE Advance \/ \E h \in Hosts : TickReserve(h)
  BY <1>2, OutsideStep
<1>3. CASE UNCHANGED vars
  <2>1. Steady /\ \A q \in Requests : Untouched(q)
    BY <1>3, SameStoresSteady DEF vars, gate, Untouched
  <2>2. GateTyped' /\ StoreTyped' /\ LocalsTyped' /\ StoresTrue'
    BY <1>3 DEF IInv, GateTyped, StoreTyped, LocalsTyped, StoresTrue, Holds, vars
  <2>3. QED
    BY <2>1, <2>2, KnowsFrame DEF IInv
<1>4. QED
  BY <1>1, <1>2, <1>3 DEF Next

LEMMA Invariance == Spec => []IInv
<1>1. QED
  BY InvInit, InvNext, PTL DEF Spec

-----------------------------------------------------------------------------
\* Whatever is cached and whoever else is asking: an attested request without its pin, and
\* one whose pin is not the document's digest, is never answered with a verdict.
THEOREM BadPinNeverServed == Spec => []PinGuardsEveryAnswer
<1>1. IInv => PinGuardsEveryAnswer
  BY DEF IInv, Knows, Due, Vouched, Timed, PinGuardsEveryAnswer, Reported
<1>2. QED
  BY <1>1, Invariance, PTL

\* A cached verdict on a document is only ever given to a request for that document, against
\* that origin and on that seed.
THEOREM NoVerdictIsMixedUp == Spec => []VerdictIsWhatWasAsked
<1>1. IInv => VerdictIsWhatWasAsked
  BY DEF IInv, Knows, Due, Vouched, Timed, VerdictIsWhatWasAsked, Reported
<1>2. QED
  BY <1>1, Invariance, PTL

\* The age in an answer is at least the age its report had, whatever was put between the
\* two reads of the cache: a report is never replaced by an older one.
THEOREM AgeNeverUnderstated == Spec => []AgeIsHonest
<1>1. IInv => AgeIsHonest
  BY DEF IInv, Knows, Due, Vouched, Timed, AgeIsHonest, Reported
<1>2. QED
  BY <1>1, Invariance, PTL

\* The report is put before the head, at the time of the same run, and nobody puts an older
\* one under its key: so it outlives the head that names it, whoever dies between the puts.
THEOREM HeadNamesReport == Spec => []FreshHeadHasReport
<1>1. ASSUME IInv PROVE FreshHeadHasReport
  <2>1. SUFFICES ASSUME NEW h \in Hosts, Read(head[h]) # None,
                        Fresh(now - Read(head[h]).at)
                 PROVE  Read(report[<<h, Read(head[h]).digest>>]) # None
    BY DEF FreshHeadHasReport
  <2> DEFINE key == <<h, Read(head[h]).digest>>
  <2>2. StoreTyped /\ StoresTrue /\ now \in Nat
    BY <1>1 DEF IInv, StoreTyped
  <2>3. head[h] # None /\ Read(head[h]) = head[h].value
    BY <2>1 DEF Read
  <2>4. Read(head[h]) \in Pointer /\ Holds(key, Read(head[h]).at)
    BY <2>2, <2>3 DEF StoreTyped, StoresTrue, Stored
  <2>5. key \in Hosts \X Digests /\ Read(head[h]).at \in Nat
    BY <2>4 DEF Pointer
  <2>6. report[key] \in Stored(Report) /\ Read(head[h]).at <= report[key].value.at
    BY <2>4 DEF Holds
  <2>7. report[key] # None /\ report[key].value # None
    BY <2>6, NoneAssumption DEF Stored
  <2>8. report[key].till = report[key].value.at + Ttl /\ report[key].value.at \in Nat
    BY <2>2, <2>5, <2>6, <2>7 DEF StoresTrue, Stored, Report
  <2>9. now < report[key].till
    BY <2>1, <2>2, <2>5, <2>6, <2>8, FrontDoorAssumption DEF Fresh
  <2>10. now >= report[key].till <=> FALSE
    BY <2>2, <2>8, <2>9, FrontDoorAssumption
  <2>11. QED
    BY <2>7, <2>10 DEF Read
<1>2. QED
  BY <1>1, Invariance, PTL

\* A denied request, served a stale verdict or not, is told a time that is still to come, and when it has passed the host
\* may be probed, unless another probe was granted since.
THEOREM RetryAfterKept == Spec => []RetryAfterIsKept
<1>1. ASSUME IInv PROVE RetryAfterIsKept
  <2>1. SUFFICES ASSUME NEW r \in Requests, answer[r] # None, answer[r].how \in {"denied", "STALE"}
                 PROVE  /\ answer[r].retry \in 1 .. MinGap
                        /\ now >= answer[r].from + answer[r].retry =>
                             Allowed(Host(r)) \/ granted[Host(r)] > answer[r].nth
    BY DEF RetryAfterIsKept
  <2>2. /\ Due(r, answer[r]) /\ answer[r] \in Answers /\ Host(r) \in Hosts /\ now \in Nat
        /\ reserved[Host(r)] \in Nat \cup {Never} /\ granted[Host(r)] \in Nat
    BY <1>1, <2>1, AskedTypes DEF IInv, Knows, LocalsTyped, GateTyped, StoreTyped
  <2>3. /\ answer[r].retry \in 1 .. MinGap /\ answer[r].nth <= granted[Host(r)]
        /\ granted[Host(r)] = answer[r].nth =>
             /\ reserved[Host(r)] # Never
             /\ reserved[Host(r)] + MinGap = answer[r].from + answer[r].retry
    BY <2>1, <2>2 DEF Due, Vouched, Timed
  <2>4. answer[r].nth \in Nat
    BY <2>2 DEF Answers
  <2>5. CASE granted[Host(r)] = answer[r].nth
    BY <2>2, <2>3, <2>5, FrontDoorAssumption DEF Allowed
  <2>6. CASE granted[Host(r)] > answer[r].nth
    BY <2>3, <2>6
  <2>7. QED
    BY <2>2, <2>3, <2>4, <2>5, <2>6
<1>2. QED
  BY <1>1, Invariance, PTL
=============================================================================
