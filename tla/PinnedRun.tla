------------------------------- MODULE PinnedRun -------------------------------
(***************************************************************************)
(* A pinned contract against a target (pinned.ts, suite-doc.ts, expect.ts) *)
(* and a suite run once per row of a dataset (dataset.ts).  A run observes *)
(* first, all endpoint requirements in the order of the document and then  *)
(* the probes that the target's card declares, with the answers of the     *)
(* target captured into bindings that later requirements use; then it      *)
(* judges, rebuilding the bindings from the recorded evidence alone.       *)
(*                                                                         *)
(* An id is a sequence, <<7>> or <<7, 1>> for "7:1"; a body is one value,  *)
(* None when it is no JSON or lacks the path that is asked for; the wanted *)
(* status is 200.  A URL is the requirement's own name and the value that  *)
(* its path interpolates, or the manifest's.                               *)
(***************************************************************************)
EXTENDS Integers, SequencesExt

CONSTANTS
    None,
    Vars,       \* names that {{var}} and capture use
    Values,
    Foreign,    \* values that take a path to another origin
    Numeric,    \* values that are numbers
    Ok,         \* the envelope of type "OK"
    Channels,   \* probe channels of the card
    Answers,    \* what the target may answer
    Budget,     \* requests of one observer
    Jobs,       \* what is asked for, valid or not
    Manifests   \* what cards declare: channel -> sequence of entries

Maybe(S) == S \cup {None}
Id == Seq(Nat)
Status == {"none", "200", "500"}
Bindings == [Vars -> Maybe(Values)]
Targets == {"public", "private"}
Exempting == [arm : {"always", "probe", "card", "malformed"}, from : Maybe(Channels),
              equals : Maybe(Values), own : BOOLEAN]
Requirement ==
    [id : Id, kind : {"endpoint", "probe", "check", "surface", "other"}, applies : Exempting,
     path : Maybe(Vars), wants : Maybe(Values \cup Vars), capture : Maybe(Vars),
     channel : Maybe(Channels), min : Nat, amount : Maybe({"fixed"} \cup Channels),
     mustServeOk : BOOLEAN]
Row == [vars : Bindings, target : Maybe(Targets)]
Job == [door : {"spec", "suite", "rows"}, attested : BOOLEAN, pin : {None, "match", "mismatch"},
        known : BOOLEAN, explicit : Maybe(Targets), reqs : Seq(Requirement), env : Row,
        rows : Seq(Row)]
Entry == [url : Id, path : Id, local : BOOLEAN, param : BOOLEAN]
Answer == [status : Status, value : Maybe(Values), cut : BOOLEAN]

ASSUME PinnedAssumption ==
    /\ Foreign \subseteq Values /\ Numeric \subseteq Values /\ Ok \in Values
    /\ Vars \cap Values = {} /\ Channels \cap {"fixed"} = {}
    /\ None \notin Vars \cup Values \cup Channels \cup {"fixed", "match", "mismatch"} \cup Targets
    /\ Answers \subseteq Answer /\ \A a \in Answers : a.status = "none" => a.value = None
    /\ \A j \in Jobs : \A i \in DOMAIN j.reqs :
          j.reqs[i].kind = "probe" => j.reqs[i].channel # None
    /\ Jobs \subseteq Job /\ Manifests \subseteq [Channels -> Seq(Entry)]
    /\ Budget \in Nat

VARIABLES
    job, manifest,
    pc,         \* "asked", "row", "target", "endpoints", "probes", "entry", "flip", "judge", "over"
    row,        \* the iteration
    card,       \* what the card says of the optional interface
    surface,    \* the verdict of the check that surface and check requirements name
    items, used,  \* the observer
    scope,      \* the bindings: of the observation, then of the judgement
    at,         \* the requirement
    entry,      \* the entry of the manifest that is next
    plan,       \* probePlans, by requirement
    results, outcomes, outcome

asking == <<job, manifest>>
observed == <<card, surface, items, used>>
vars == <<asking, pc, row, observed, scope, at, entry, plan, results, outcomes, outcome>>

Reqs == job.reqs
NoPlan == [state |-> "none", refused |-> {}]

Init ==
    /\ job \in Jobs /\ manifest \in Manifests
    /\ pc = "asked" /\ row = 1
    /\ card = "unreadable" /\ surface = "fail" /\ items = <<>> /\ used = 0
    /\ scope = job.env.vars /\ at = 1 /\ entry = 1 /\ plan = <<>>
    /\ results = <<>> /\ outcomes = <<>> /\ outcome = "none"

-----------------------------------------------------------------------------
(* The document: validateRequirements, before anything is asked of anybody. *)

UniqueIds(reqs) == \A i, j \in DOMAIN reqs : reqs[i].id = reqs[j].id => i = j

\* pinned:<id> of an endpoint, pinned:<id>:<n> of a probe, n any entry
RolesApart(reqs) ==
    \A i, j \in DOMAIN reqs :
        reqs[i].kind = "probe" /\ reqs[j].kind \in {"endpoint", "probe"} =>
            ~IsStrictPrefix(reqs[i].id, reqs[j].id)

NoColon(reqs) == \A i \in DOMAIN reqs : Len(reqs[i].id) = 1

\* Only a check that the verifier holds for optional can depend on the card, on its own key.
AppliesWhenIsLegal(req) ==
    /\ req.applies.arm # "malformed"
    /\ req.applies.arm # "always" => req.kind \in {"probe", "check"}
    /\ req.applies.arm = "card" => req.kind = "check" /\ req.applies.own

ValidDuplicates(reqs) ==
    /\ reqs # <<>> /\ RolesApart(reqs) /\ NoColon(reqs)
    /\ \A i \in DOMAIN reqs : AppliesWhenIsLegal(reqs[i])
Valid(reqs) ==
    /\ reqs # <<>> /\ UniqueIds(reqs) /\ RolesApart(reqs) /\ NoColon(reqs)
    /\ \A i \in DOMAIN reqs : AppliesWhenIsLegal(reqs[i])

-----------------------------------------------------------------------------
(* Bindings and expectations.                                                *)

Over(vars1, vars2) == [v \in Vars |-> IF vars2[v] # None THEN vars2[v] ELSE vars1[v]]

\* env.vars and, in an iteration, the fields of the row on top
Layered(i) == IF job.door = "rows" THEN Over(job.env.vars, job.rows[i].vars) ELSE job.env.vars

TargetOf(i) ==
    CASE job.explicit # None -> job.explicit
      [] job.door = "rows" /\ job.rows[i].target # None -> job.rows[i].target
      [] OTHER -> job.env.target

Bound(ref, b) == IF ref \in Vars THEN b[ref] ELSE ref
Unbound(ref, b) == ref \in Vars /\ b[ref] = None

Url(req, b) == <<req.id, Bound(req.path, b)>>
ResolvesAnywhere(req, b) == ~Unbound(req.path, b) /\ ~Unbound(req.wants, b)
Resolves(req, b) ==
    ~Unbound(req.path, b) /\ ~Unbound(req.wants, b) /\ Bound(req.path, b) \notin Foreign

NoAnswer == [status |-> "none", value |-> None, cut |-> FALSE]
Item(role, url, a) ==
    [role |-> role, url |-> url, status |-> a.status, value |-> a.value, cut |-> a.cut]

\* The first item recorded under a role, if any (items.find)
Has(role) == \E i \in DOMAIN items : items[i].role = role
Find(role) == items[CHOOSE i \in DOMAIN items :
                      items[i].role = role /\ \A j \in 1 .. i - 1 : items[j].role # role]

Conforms(ev, wanted) ==
    ev.status = "200" /\ (wanted # None => ~ev.cut /\ ev.value = wanted)

\* captureInto, and only when the assertions pass
Capture(req, ev, b) ==
    IF /\ req.capture # None /\ Conforms(ev, Bound(req.wants, b))
       /\ ~ev.cut /\ ev.value # None
    THEN [b EXCEPT ![req.capture] = ev.value] ELSE b

-----------------------------------------------------------------------------
(* Probes: their order, their applicability and what the manifest declares. *)

Derived(req) == req.amount \in Channels
Probes == {i \in DOMAIN Reqs : Reqs[i].kind = "probe"}
Phase1 == {i \in Probes : ~Derived(Reqs[i])}

\* Phase 1 first, each phase in the order of the document
Unplanned == {i \in Probes : plan[i].state = "none"}
Before(i, j) == IF (i \in Phase1) = (j \in Phase1) THEN i < j ELSE i \in Phase1

\* The evidence of the first entry of the first requirement of a channel, the body of nothing
NoBody == Item(<<>>, <<>>, NoAnswer)
Source(channel, which) ==
    LET candidates == {i \in which : Reqs[i].channel = channel}
        role == Append(Reqs[Min(candidates)].id, 1)
    IN  IF candidates # {} /\ Has(role) THEN Find(role) ELSE NoBody

\* evaluateAppliesWhen: an observed value or a readable card exempts, nothing else does
AppliesIfSeen(req) ==
    CASE req.applies.arm = "probe" -> Source(req.applies.from, Probes).value = req.applies.equals
      [] req.applies.arm = "card" -> card = "declared"
      [] OTHER -> TRUE
Applies(req) ==
    CASE req.applies.arm = "probe" ->
            Source(req.applies.from, Probes).value \in {None, req.applies.equals}
      [] req.applies.arm = "card" -> card # "absent"
      [] OTHER -> TRUE

\* dedupeByUrl: the place of the first, the content of the last
Deduped(entries) ==
    LET firsts == {i \in DOMAIN entries : \A j \in 1 .. i - 1 : entries[j].url # entries[i].url}
        Nth(n) == CHOOSE i \in firsts : Cardinality({j \in firsts : j < i}) = n - 1
        LastLike(i) == CHOOSE j \in DOMAIN entries :
                          /\ entries[j].url = entries[i].url
                          /\ \A l \in j + 1 .. Len(entries) : entries[l].url # entries[i].url
    IN  [n \in 1 .. Cardinality(firsts) |-> entries[LastLike(Nth(n))]]
DeclaredAll(req) == manifest[req.channel]
Declared(req) == Deduped(manifest[req.channel])

\* The amount of a derived probe is a number that a probe of phase 1 observed.
Stops(req, e) ==
    \/ Derived(req) /\ Source(req.amount, Phase1).value \notin Numeric
    \/ req.amount # None /\ ~e.param

-----------------------------------------------------------------------------
(* Admission.                                                                *)

Pinned(attested, pin) == (attested => pin # None) /\ pin # "mismatch"

Admitted ==
    job.door = "rows" => job.pin # "mismatch" /\ Valid(Reqs) /\ job.known /\ job.rows # <<>>

\* verifySuite and verifyPinnedSpec; an iteration is handed no digest.
RowAdmitted(i) ==
    /\ Pinned(job.attested, IF job.door = "rows" THEN None ELSE job.pin)
    /\ Valid(Reqs) /\ (job.door # "spec" => job.known)
    /\ TargetOf(i) = "public"

Admit ==
    /\ pc = "asked"
    /\ IF Admitted THEN pc' = "row" /\ UNCHANGED outcome ELSE pc' = "over" /\ outcome' = "threw"
    /\ UNCHANGED <<asking, row, observed, scope, at, entry, plan, results, outcomes>>

StartRowCarriesOver ==
    /\ pc = "row" /\ RowAdmitted(row)
    /\ pc' = "target" /\ items' = <<>> /\ used' = 0
    /\ scope' = IF job.door = "rows" THEN Over(scope, job.rows[row].vars) ELSE job.env.vars
    /\ at' = 1 /\ results' = <<>> /\ plan' = [i \in DOMAIN Reqs |-> NoPlan]
    /\ UNCHANGED <<asking, row, card, surface, entry, outcomes, outcome>>
StartRow ==
    /\ pc = "row" /\ RowAdmitted(row)
    /\ pc' = "target" /\ scope' = Layered(row) /\ items' = <<>> /\ used' = 0
    /\ at' = 1 /\ results' = <<>> /\ plan' = [i \in DOMAIN Reqs |-> NoPlan]
    /\ UNCHANGED <<asking, row, card, surface, entry, outcomes, outcome>>

Advance(verdict) ==
    /\ outcomes' = Append(outcomes, verdict)
    /\ IF job.door = "rows" /\ row < Len(job.rows)
       THEN pc' = "row" /\ row' = row + 1 /\ UNCHANGED outcome
       ELSE /\ pc' = "over" /\ UNCHANGED row
            /\ outcome' = CASE job.door # "rows" /\ verdict = "error" -> "threw"
                            [] \E i \in DOMAIN outcomes' : outcomes'[i] # "passed" -> "failed"
                            [] OTHER -> "passed"

\* What throws ends the run, or its iteration.
RefuseRow ==
    /\ pc = "row" /\ ~RowAdmitted(row) /\ Advance("error")
    /\ UNCHANGED <<asking, observed, scope, at, entry, plan, results>>

-----------------------------------------------------------------------------
(* Observation.                                                              *)

\* Observer.observe: a request beyond the budget is recorded, not sent.
ObserveOneMore(role, url, a) ==
    /\ items' = Append(items, Item(role, url, IF used <= Budget THEN a ELSE NoAnswer))
    /\ used' = IF used <= Budget THEN used + 1 ELSE used
Observe(role, url, a) ==
    /\ items' = Append(items, Item(role, url, IF used < Budget THEN a ELSE NoAnswer))
    /\ used' = IF used < Budget THEN used + 1 ELSE used

\* observeTarget, which draws on the same budget and whose exchanges have roles of their own
ObserveTarget ==
    /\ pc = "target" /\ pc' = "endpoints"
    /\ card' \in {"unreadable", "declared", "absent"} /\ surface' \in {"pass", "fail", "skip"}
    /\ used' \in 0 .. Budget
    /\ UNCHANGED <<asking, row, items, scope, at, entry, plan, results, outcomes, outcome>>

SkipOthers ==
    /\ pc = "endpoints" /\ at <= Len(Reqs)
    /\ Reqs[at].kind # "endpoint" \/ ~Resolves(Reqs[at], scope)
    /\ at' = at + 1
    /\ UNCHANGED <<asking, pc, row, observed, scope, entry, plan, results, outcomes, outcome>>

ObserveEndpoint(a) ==
    /\ pc = "endpoints" /\ at <= Len(Reqs)
    /\ Reqs[at].kind = "endpoint" /\ Resolves(Reqs[at], scope)
    /\ Observe(Reqs[at].id, Url(Reqs[at], scope), a)
    /\ scope' = Capture(Reqs[at], items'[Len(items')], scope)
    /\ at' = at + 1
    /\ UNCHANGED <<asking, pc, row, card, surface, entry, plan, results, outcomes, outcome>>

EndpointsObserved ==
    /\ pc = "endpoints" /\ at > Len(Reqs)
    /\ pc' = "probes" /\ at' = 1
    /\ UNCHANGED <<asking, row, observed, scope, entry, plan, results, outcomes, outcome>>

PlanProbe ==
    /\ pc = "probes"
    /\ \E i \in Unplanned :
        /\ \A j \in Unplanned \ {i} : Before(i, j)
        /\ LET req == Reqs[i]
               state == CASE ~Applies(req) -> "exempt"
                          [] Applies(req) /\ Len(Declared(req)) < req.min -> "unresolved"
                          [] OTHER -> "probed"
           IN  /\ plan' = [plan EXCEPT ![i].state = state]
               /\ pc' = IF state = "probed" THEN "entry" ELSE pc
        /\ at' = i
    /\ entry' = 1
    /\ UNCHANGED <<asking, row, observed, scope, results, outcomes, outcome>>

NextProbe == pc' = "probes" /\ UNCHANGED entry

ObserveEntry(a) ==
    /\ pc = "entry"
    /\ LET req == Reqs[at]
           e == Declared(req)[entry]
       IN  IF entry > Len(Declared(req))
           THEN NextProbe /\ UNCHANGED <<items, used, plan>>
           ELSE \/ /\ ~e.local
                   /\ plan' = [plan EXCEPT ![at].refused = @ \cup {entry}]
                   /\ entry' = entry + 1 /\ UNCHANGED <<pc, items, used>>
                \/ /\ e.local /\ Stops(req, e)
                   /\ plan' = [plan EXCEPT ![at].state = "unresolved"]
                   /\ NextProbe /\ UNCHANGED <<items, used>>
                \/ /\ e.local /\ ~Stops(req, e)
                   /\ Observe(Append(req.id, entry), e.url, a)
                   /\ IF req.mustServeOk THEN pc' = "flip" /\ UNCHANGED entry
                                         ELSE entry' = entry + 1 /\ UNCHANGED pc
                   /\ UNCHANGED plan
    /\ UNCHANGED <<asking, row, card, surface, scope, at, results, outcomes, outcome>>

\* The query-flip: the entry's own path without its query
ObserveFlip(a) ==
    /\ pc = "flip" /\ pc' = "entry"
    /\ LET req == Reqs[at]
       IN  Observe(req.id \o <<entry, 0>>, Declared(req)[entry].path, a)
    /\ entry' = entry + 1
    /\ UNCHANGED <<asking, row, card, surface, scope, at, plan, results, outcomes, outcome>>

\* The judge starts from the same variables.
ProbesObservedShared ==
    /\ pc = "probes" /\ Unplanned = {}
    /\ pc' = "judge" /\ at' = 1
    /\ UNCHANGED <<asking, row, observed, scope, entry, plan, results, outcomes, outcome>>
ProbesObserved ==
    /\ pc = "probes" /\ Unplanned = {}
    /\ pc' = "judge" /\ at' = 1 /\ scope' = Layered(row)
    /\ UNCHANGED <<asking, row, observed, entry, plan, results, outcomes, outcome>>

-----------------------------------------------------------------------------
(* Judgement, from the recorded items alone.                                 *)

Evidence(role) == IF Has(role) THEN Find(role) ELSE NoBody

EndpointPasses(req) == Resolves(req, scope) /\ Conforms(Evidence(req.id), Bound(req.wants, scope))

\* pathMustServeOk: a flip that conforms also puts its path into okPathnamesOf.
BranchesOnQuery(req, n) == Conforms(Evidence(req.id \o <<n, 0>>), Ok)

ProbePasses(req, p) ==
    /\ p.state = "probed" /\ ~Unbound(req.wants, scope)
    /\ \A n \in DOMAIN Declared(req) :
          /\ n \notin p.refused
          /\ Conforms(Evidence(Append(req.id, n)), Bound(req.wants, scope))
          /\ req.mustServeOk => BranchesOnQuery(req, n)

Result ==
    LET req == Reqs[at]
        exempt == \/ req.kind = "probe" /\ plan[at].state = "exempt"
                  \/ req.kind = "check" /\ ~Applies(req)
        passes == CASE req.kind = "endpoint" -> EndpointPasses(req)
                    [] req.kind = "probe" -> exempt \/ ProbePasses(req, plan[at])
                    [] req.kind \in {"check", "surface"} -> exempt \/ surface = "pass"
                    [] OTHER -> FALSE
    IN  [verdict |-> IF passes THEN "pass" ELSE "fail", exempt |-> exempt]

Judge ==
    /\ pc = "judge" /\ at <= Len(Reqs)
    /\ results' = Append(results, Result)
    /\ scope' = IF Reqs[at].kind = "endpoint" /\ EndpointPasses(Reqs[at])
                THEN Capture(Reqs[at], Evidence(Reqs[at].id), scope) ELSE scope
    /\ at' = at + 1
    /\ UNCHANGED <<asking, pc, row, observed, entry, plan, outcomes, outcome>>

Passed == \A i \in DOMAIN results : results[i].verdict = "pass"

Report ==
    /\ pc = "judge" /\ at > Len(Reqs)
    /\ Advance(IF Passed THEN "passed" ELSE "failed")
    /\ UNCHANGED <<asking, observed, scope, at, entry, plan, results>>

-----------------------------------------------------------------------------
Next ==
    \/ Admit \/ StartRow \/ RefuseRow \/ ObserveTarget
    \/ SkipOthers \/ EndpointsObserved \/ PlanProbe \/ ProbesObserved
    \/ \E a \in Answers : ObserveEndpoint(a) \/ ObserveEntry(a) \/ ObserveFlip(a)
    \/ Judge \/ Report

Spec == Init /\ [][Next]_vars

-----------------------------------------------------------------------------
Running == pc \in {"endpoints", "probes", "entry", "flip", "judge"}
Judged == pc = "judge" /\ at > Len(Reqs)

\* Every variable has its type; a run records at most what its budget allows as sent.
TypeOK ==
    /\ pc \in {"asked", "row", "target", "endpoints", "probes", "entry", "flip", "judge", "over"}
    /\ row \in 1 .. Len(job.rows) + 1 /\ at \in Nat /\ entry \in Nat
    /\ card \in {"unreadable", "declared", "absent"} /\ surface \in {"pass", "fail", "skip"}
    /\ \A i \in DOMAIN items : items[i].role \in Id /\ items[i].status \in Status
                               /\ items[i].value \in Maybe(Values) /\ items[i].cut \in BOOLEAN
    /\ Cardinality({i \in DOMAIN items : items[i].status # "none"}) <= used /\ used <= Budget
    /\ scope \in Bindings
    /\ \A i \in DOMAIN plan : plan[i].state \in {"none", "exempt", "unresolved", "probed"}
    /\ \A i \in DOMAIN results : results[i] \in [verdict : {"pass", "fail"}, exempt : BOOLEAN]
    /\ outcomes \in Seq({"passed", "failed", "error"})
    /\ outcome \in {"none", "threw", "passed", "failed"}

\* Nothing is asked of a target but under the digest the caller pinned, at a public target
\* and on its own origin, whatever a card, a row or a captured answer says.
FetchesAreWarranted ==
    Running => \A i \in DOMAIN items :
        /\ job.pin # "mismatch" /\ (job.attested => job.pin = "match")
        /\ TargetOf(row) = "public"
        /\ \E r \in ToSet(Reqs) :
              \/ /\ r.kind = "endpoint" /\ items[i].role = r.id
                 /\ items[i].url[2] \notin Foreign
              \/ /\ r.kind = "probe"
                 /\ \E e \in ToSet(DeclaredAll(r)) : e.local /\ items[i].url \in {e.url, e.path}

\* No two exchanges share a role: what the judge looks up by role is what was recorded for
\* that requirement and entry.
RolesDistinct ==
    \A i, j \in DOMAIN items : items[i].role = items[j].role => i = j

\* Observer and judge agree by construction: when an endpoint is judged it was asked exactly
\* if the judge's bindings resolve it, and at the URL that they give.
JudgedAsAsked ==
    pc = "judge" /\ at <= Len(Reqs) /\ Reqs[at].kind = "endpoint" =>
        /\ Has(Reqs[at].id) <=> Resolves(Reqs[at], scope)
        /\ Has(Reqs[at].id) => Find(Reqs[at].id).url = Url(Reqs[at], scope)

\* A binding is the environment's or the row's, or was captured in this very iteration from
\* a conforming answer that was read to its end.
CapturesAreOwn ==
    Running => \A v \in Vars : scope[v] # Layered(row)[v] =>
        \E k \in DOMAIN Reqs, i \in DOMAIN items :
            /\ Reqs[k].capture = v /\ items[i].role = Reqs[k].id
            /\ items[i].status = "200" /\ ~items[i].cut /\ items[i].value = scope[v]

\* A contract is never met unobserved: in a run that passes each requirement that applies has
\* answers of the target of its own, a probe one for every entry and at least its minimum.
PassIsObserved ==
    Judged /\ Passed => \A k \in DOMAIN Reqs :
        LET req == Reqs[k]
            Answered(role) == Has(role) /\ Find(role).status = "200"
        IN  ~results[k].exempt =>
               /\ req.kind = "endpoint" => Answered(req.id)
               /\ req.kind = "probe" =>
                     /\ \A n \in DOMAIN Declared(req) : Answered(Append(req.id, n))
                     /\ Cardinality({items[i].url : i \in {j \in DOMAIN items :
                            items[j].role # req.id /\ Front(items[j].role) = req.id}}) >= req.min

\* In a run that passes, a requirement is exempt only by a readable card that omits the key of
\* an optional check, or by another value that a requirement judged and passed has observed.
ExemptionIsProven ==
    Judged /\ Passed => \A k \in DOMAIN Reqs : results[k].exempt =>
        LET on == Reqs[k].applies
        IN  \/ on.arm = "card" /\ on.own /\ Reqs[k].kind = "check" /\ card = "absent"
            \/ /\ on.arm = "probe"
               /\ \E s \in DOMAIN Reqs :
                     /\ Reqs[s].kind = "probe" /\ Reqs[s].channel = on.from /\ ~results[s].exempt
                     /\ Has(Append(Reqs[s].id, 1))
                     /\ LET ev == Find(Append(Reqs[s].id, 1))
                        IN  ev.status = "200" /\ ev.value \notin {None, on.equals}

=============================================================================
