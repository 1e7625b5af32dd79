------------------------------- MODULE Discovery -------------------------------
(***************************************************************************)
(* One verification of a site (observeTarget in discovery.ts, the Observer *)
(* of http.ts): a fixed order of stages, each of which plans its requests  *)
(* from what was recorded before it, all of them drawing on one budget;    *)
(* then the judge reads the bundle.  A request is sent once.  The site     *)
(* answers by role, may redirect, and some of its answers may be lost.     *)
(***************************************************************************)
EXTENDS Judge

CONSTANTS
    Sites,             \* what sites answer, by role, and the checks that they break or claim;
                       \* site.faults bounds the answers of it that are lost
    Seeds,             \* the orders in which a seed samples the doors and the typed bodies
    Budget,            \* requests of one observer
    MaxRedirects, MaxKeyless, MaxKeylessTotal, MaxTyped, MaxContract

ASSUME DiscoveryAssumption ==
    {Budget, MaxRedirects, MaxKeyless, MaxKeylessTotal, MaxTyped, MaxContract} \subseteq Nat
\* What a site answers is an exchange that was made; refusals are the observer's own. The
\* rows of its suite are a list.
ASSUME SitesAssumption ==
    \A s \in Sites :
        /\ s.faults \in Nat
        /\ \A role \in DOMAIN s.replies :
              LET reply == s.replies[role]
              IN  /\ reply.size \in {"small", "declared", "large"}
                  /\ DOMAIN reply.ev = DOMAIN NoAnswer /\ reply.ev.refused = FALSE
                  /\ role = Role("testSuite") /\ reply.ev.doc # None =>
                        reply.ev.doc.rows \in Seq(ToSet(reply.ev.doc.rows))
\* A seed draws an order of all the paths that a site offers; a path is a number.
Offered(s) == Candidates([role \in DOMAIN s.replies |-> s.replies[role].ev])
ASSUME SeedsAssumption ==
    \A d \in Seeds : \A order \in {d.doors, d.typed} :
        /\ order \in Seq(ToSet(order)) /\ ToSet(order) \subseteq Nat
        /\ \A s \in Sites : Offered(s) \subseteq ToSet(order)

VARIABLES
    site, seed,
    stage,      \* index in Stages
    queue,      \* requests of the stage that are still to be made, in their turn
    bundle, used,
    bindings,   \* what the rows of the suite have captured
    lost,       \* answers lost so far
    reached,    \* history: the origins that were contacted, by role
    judged      \* the report was made; it is Checks(bundle)

vars == <<site, seed, stage, queue, bundle, used, bindings, lost, reached, judged>>

-----------------------------------------------------------------------------
(* What each stage asks.  A request is a role, the origin it goes to and its *)
(* turn in the stage; those of MCP are POSTs, whose redirects are recorded   *)
(* and not followed.                                                         *)

Request(role, at, post, turn) == [role |-> role, at |-> at, post |-> post, turn |-> turn]
Get(role, at) == Request(role, at, FALSE, 1)
Post(name, at) == Request(Role(name), at, TRUE, 1)
InTurn(turn, request) == [request EXCEPT !.turn = turn]
If(condition, request) == IF condition THEN {request} ELSE {}

\* The place of a path in an order that a seed draws, and the first n of a set by a rank
PlaceIn(order, p) == CHOOSE i \in DOMAIN order : order[i] = p
Foremost(set, n, rank) == {p \in set : Cardinality({q \in set : rank[q] < rank[p]}) < n}

PlanRoot ==
    {InTurn(i, Get(Role(<<"rootAgent", "rootBrowser", "rootJson", "rootMarkdown",
                          "rootBrowserNav", "rootAgentUa">>[i]), Self)) : i \in 1 .. 6}
PlanFaces(b) ==
    {InTurn(PlaceIn(<<"html", "json", "md">>, f), Get(FaceRole(f), Advertised(b, f))) :
        f \in {g \in Faces : Local(Advertised(b, g))}}
PlanTexts ==
    {InTurn(i, Get(Role(<<"llms", "agents", "icp", "agentConfig">>[i]), Self)) : i \in 1 .. 4}

\* A declared contract that is off the origin is not fetched, and not replaced.
PlanOpenapi(b) ==
    LET at == IF Card(b).openapi = None THEN Self ELSE Card(b).openapi
    IN  If(Local(at), Get(Role("openapi"), at))
PlanPricing(b) ==
    LET entry == PricingEntry(Card(b))
    IN  If(entry # None /\ entry.method = "GET" /\ Local(entry.at), Get(Role("pricing"), entry.at))

\* The doors that the card calls keyless come first.
PlanDoors(b) ==
    {InTurn(PlaceIn(seed.doors, p) + IF p \in Hinted(b) THEN 0 ELSE Len(seed.doors),
            Get(Keyless(p), Self)) : p \in Candidates(b) \ Astray}
PlanTyped(b) ==
    LET place == [p \in Candidates(b) |-> PlaceIn(seed.typed, p)]
        paths == Foremost(DOMAIN place, MaxTyped, place) \ Astray
    IN  IF Card(b).probes = None THEN {}
        ELSE {InTurn(2 * place[p], Get(TypedAgent(p), Self)) : p \in paths}
             \cup {InTurn(2 * place[p] + 1, Get(TypedBrowser(p), Self)) : p \in paths}
PlanOffer(b) == If(OfferProbe(Card(b)), Get(Role("offer"), Card(b).boundary.at))

PlanMcp(b) == If(Local(McpUrl(Card(b))), Get(Role("mcp"), McpUrl(Card(b))))
PlanMcpInit(b) ==
    If(Local(McpUrl(Card(b))) /\ Undecided(Ev(b, "mcp")), Post("mcpInit", McpUrl(Card(b))))
PlanProtected(b) == If(Local(McpUrl(Card(b))), Get(Role("protected"), McpUrl(Card(b))))
PlanAs(b) == If(Delegable(AuthServer(b)), Get(Role("as"), AuthServer(b)))
PlanOidc(b) ==
    If(Delegable(AuthServer(b)) /\ ~Ok(b, "as"), Get(Role("oidc"), AuthServer(b)))
IdentityUrl(b) ==
    LET auth == ObservedAgentAuth(b) IN IF auth \in {None, Junk} THEN None ELSE auth.identity
PlanIdentity(b) ==
    If(AuthServer(b) # None /\ SameOrigin(IdentityUrl(b), AuthServer(b)),
       Get(Role("identity"), IdentityUrl(b)))

PlanServerJson(b) ==
    LET at == IF Card(b).serverJson = None THEN Self ELSE Card(b).serverJson
    IN  If(Local(at), Get(Role("serverJson"), at))
PlanRemote(b) == If(Delegable(ServerRemote(b)), Post("remoteInit", ServerRemote(b)))
PlanTools(b) ==
    If(Delegable(ServerRemote(b)) /\ Ok(b, "remoteInit"), Post("tools", ServerRemote(b)))
PlanOwnership(b) ==
    If(Domain(b) # None, Get(Role("dns"), Doh))
    \cup If(Delegable(Domain(b)), InTurn(2, Get(Role("registryAuth"), Domain(b))))
PlanPresence(b) ==
    If(Server(b) # None /\ NameIsValid(Server(b)), Get(Role("presence"), Registry))

\* What the registry stage recorded of the same remote is not asked again.
\* A slip: it is.
RecordedNever(b, name, at) == FALSE
Recorded(b, name, at) == Role(name) \in DOMAIN b /\ Ev(b, name).at = at
PlanUiInit(b) ==
    If(UiRemote(b) # None /\ ~Recorded(b, "remoteInit", UiRemote(b)),
       Post("remoteInit", UiRemote(b)))
UiAlive(b) == UiRemote(b) # None /\ Ok(b, "remoteInit")
PlanUiTools(b) ==
    If(UiAlive(b) /\ ~Recorded(b, "tools", UiRemote(b)), Post("tools", UiRemote(b)))
UiCallable(b) == UiAlive(b) /\ UiTool(b) # None /\ UiTool(b).name
PlanUiCall(b) == If(UiCallable(b), Post("call", UiRemote(b)))
PlanUiRead(b) == If(UiCallable(b) /\ WantedUri(b) # None, Post("read", UiRemote(b)))
PlanUiExternal(b) ==
    If(UiCallable(b) /\ (Local(ExternalUrl(b)) \/ SameOrigin(ExternalUrl(b), UiRemote(b))),
       Get(Role("external"), ExternalUrl(b)))

StreamUrl(b) == IF Card(b).stream = None THEN None ELSE Card(b).stream.at
PlanStream(b) == If(Local(StreamUrl(b)), Get(Role("stream"), StreamUrl(b)))
PlanTwin(b) ==
    If(Local(StreamUrl(b)) /\ Local(Card(b).stream.twin), Get(Role("twin"), Card(b).stream.twin))
PlanDigitalLink(b) ==
    LET dl == Card(b).digitalLink
    IN  If(dl # None /\ ~dl.malformed /\ Local(dl.at), Get(Role("gs1"), dl.at))

\* The published suite: its document, its rows and its executable tests.  The rows have a
\* budget of their own, as has an artifact of the executable dialect.
PlanSuite(b) == If(Published(b), Get(Role("testSuite"), Address(Claim(b))))
PlanRows(b) == {InTurn(i, Get(Row(Rows(b)[i].id), Self)) : i \in DOMAIN Rows(b)}
PlanRun(b) == If(Admitted(b) /\ IsVitest(Claim(b)), Get(Role("vitestRun"), Address(Claim(b))))
OwnBudget(b, role) ==
    role[1] \in {"row", "vitestRun"} \/ (role[1] = "testSuite" /\ IsVitest(Claim(b)))

\* The rest of the contract, in the order of the paths
PlanContract(b) ==
    LET rest == {p \in Candidates(b) \ Astray : Keyless(p) \notin DOMAIN b}
    IN  {InTurn(p, Get(Contract(p), Self)) :
            p \in Foremost(rest, MaxContract, [q \in rest |-> q])}

Stages ==
    <<"root", "faces", "texts", "openapi", "pricing", "doors", "typed", "offer",
      "mcp", "mcpInit", "protected", "as", "oidc", "identity",
      "serverJson", "remoteInit", "tools", "ownership", "presence",
      "uiInit", "uiTools", "call", "read", "external", "stream", "twin", "gs1",
      "suite", "rows", "vitestRun", "contract">>
Plan(name, b) ==
    CASE name = "root" -> PlanRoot [] name = "faces" -> PlanFaces(b)
      [] name = "texts" -> PlanTexts [] name = "openapi" -> PlanOpenapi(b)
      [] name = "pricing" -> PlanPricing(b) [] name = "doors" -> PlanDoors(b)
      [] name = "typed" -> PlanTyped(b) [] name = "offer" -> PlanOffer(b)
      [] name = "mcp" -> PlanMcp(b) [] name = "mcpInit" -> PlanMcpInit(b)
      [] name = "protected" -> PlanProtected(b) [] name = "as" -> PlanAs(b)
      [] name = "oidc" -> PlanOidc(b) [] name = "identity" -> PlanIdentity(b)
      [] name = "serverJson" -> PlanServerJson(b) [] name = "remoteInit" -> PlanRemote(b)
      [] name = "tools" -> PlanTools(b) [] name = "ownership" -> PlanOwnership(b)
      [] name = "presence" -> PlanPresence(b) [] name = "uiInit" -> PlanUiInit(b)
      [] name = "uiTools" -> PlanUiTools(b) [] name = "call" -> PlanUiCall(b)
      [] name = "read" -> PlanUiRead(b) [] name = "external" -> PlanUiExternal(b)
      [] name = "stream" -> PlanStream(b) [] name = "twin" -> PlanTwin(b)
      [] name = "gs1" -> PlanDigitalLink(b) [] name = "suite" -> PlanSuite(b)
      [] name = "rows" -> PlanRows(b) [] name = "vitestRun" -> PlanRun(b)
      [] name = "contract" -> PlanContract(b)

-----------------------------------------------------------------------------
(* The observer.                                                             *)

\* findEvidence returns the first: what is recorded under a role stays.
Record(b, role, ev) ==
    [r \in DOMAIN b \cup {role} |-> IF r \in DOMAIN b THEN b[r] ELSE ev]

NotFound ==
    [NoAnswer EXCEPT !.st = 404, !.ct = "text", !.body = "text"]
Reply(role) ==
    IF role \in DOMAIN site.replies THEN site.replies[role]
    ELSE [ev |-> NotFound, via |-> <<>>, size |-> "small"]

\* How many hops are followed: none for a POST, and each is held against the origin of the
\* request before it is taken.  A slip: it is not.
HopsBlindly(request) ==
    LET via == Reply(request.role).via
    IN  {j \in 1 .. MaxRedirects : ~request.post /\ j \in DOMAIN via}
Hops(request) ==
    LET via == Reply(request.role).via
    IN  {j \in 1 .. MaxRedirects :
            ~request.post /\ \A k \in 1 .. j : k \in DOMAIN via /\ SameOrigin(via[k], request.at)}
Followed(request) == SubSeq(Reply(request.role).via, 1, Cardinality(Hops(request)))
\* readCapped: a body over the cap is cut, or not read at all where its length is declared.
\* What was JSON is none then.
Read(reply) ==
    LET ev == reply.ev
    IN  CASE reply.size = "small" -> ev
          [] reply.size = "declared" -> [ev EXCEPT !.body = "empty", !.doc = None]
          [] reply.size = "large" ->
                IF ev.body = "json" THEN [ev EXCEPT !.body = "text", !.doc = None] ELSE ev
\* A redirect is the answer to a POST; one that is not followed leaves a GET without any.
Answer(request) ==
    LET reply == Reply(request.role)
        ev == CASE Followed(request) = reply.via -> Read(reply)
                [] Followed(request) # reply.via /\ request.post -> [NotFound EXCEPT !.st = 307]
                [] OTHER -> NoAnswer
    IN  [ev EXCEPT !.at = request.at]

\* The runner's outcome, whatever became of it, is recorded with the digest that was run.
RunOf(answered) ==
    LET outcome == site.replies[Role("vitestRun")].ev.doc
    IN  [Answer(Get(Role("vitestRun"), Address(Claim(bundle)))) EXCEPT
            !.doc = [digest |-> Claim(bundle).digest, results |-> outcome.results,
                     outcome |-> IF answered THEN outcome.outcome ELSE "failed"]]
Exchanged(request, answered) ==
    CASE request.role = Role("vitestRun") -> RunOf(answered)
      [] request.role # Role("vitestRun") /\ answered -> Answer(request)
      [] OTHER -> [NoAnswer EXCEPT !.at = request.at]

\* The origins contacted for a request
Contacts(request) == {request.at} \cup ToSet(Followed(request))

-----------------------------------------------------------------------------
Init ==
    /\ site \in Sites /\ seed \in Seeds
    /\ stage = 1 /\ queue = PlanRoot /\ bundle = <<>>
    /\ used = 0 /\ bindings = <<>> /\ lost = 0 /\ reached = {} /\ judged = FALSE

NextStage ==
    /\ queue = {} /\ stage < Len(Stages)
    /\ stage' = stage + 1 /\ queue' = Plan(Stages[stage + 1], bundle)
    /\ bindings' = IF Stages[stage + 1] = "rows" THEN Vars(bundle) ELSE bindings
    /\ UNCHANGED <<site, seed, bundle, used, lost, reached, judged>>

\* A slip: the walk over the doors ends at a success only.
EnoughAtSuccess ==
    /\ Stages[stage] = "doors" /\ Cardinality(Probed(bundle, "keyless")) >= MaxKeyless
    /\ \E ev \in Doors(bundle) : Answered2xx(ev)
\* The walk over the doors ends at the ceiling, or at the first success of a full wave.
Enough ==
    LET walked == Probed(bundle, "keyless")
    IN  /\ Stages[stage] = "doors"
        /\ \/ Cardinality(walked) >= MaxKeylessTotal
           \/ /\ Cardinality(walked) >= MaxKeyless
              /\ \E ev \in Doors(bundle) : Answered2xx(ev)
StopWalk ==
    /\ queue # {} /\ Enough
    /\ queue' = {}
    /\ UNCHANGED <<site, seed, stage, bundle, used, bindings, lost, reached, judged>>

\* Requests are made one after the other.
IsNext(request) == request \in queue /\ \A other \in queue : request.turn <= other.turn

\* A row that does not resolve is passed over; past the deadline, between two rows, the
\* rest of them is.
RowAsked(request) == Rows(bundle)[request.turn]
Unresolved(request) == Stages[stage] = "rows" /\ ~Resolves(RowAsked(request), bindings)
SkipRow(request) ==
    /\ IsNext(request) /\ Unresolved(request)
    /\ queue' = queue \ {request}
    /\ UNCHANGED <<site, seed, stage, bundle, used, bindings, lost, reached, judged>>
Deadline ==
    /\ queue # {} /\ Stages[stage] = "rows" /\ lost < site.faults
    /\ queue' = {} /\ lost' = lost + 1
    /\ UNCHANGED <<site, seed, stage, bundle, used, bindings, reached, judged>>

\* The exchange: the answer of the site, or none in time
Affordable(request) == used < Budget \/ OwnBudget(bundle, request.role)
Send(request, answered) ==
    /\ IsNext(request) /\ ~Enough /\ ~Unresolved(request) /\ Affordable(request)
    /\ answered \/ lost < site.faults
    /\ LET ev == Exchanged(request, answered)
       IN  /\ bundle' = Record(bundle, request.role, ev)
           /\ reached' = reached \cup {[role |-> request.role, at |-> o] : o \in Contacts(request)}
           /\ bindings' = IF Stages[stage] = "rows" THEN Captured(RowAsked(request), ev, bindings)
                                                   ELSE bindings
           /\ used' = IF OwnBudget(bundle, request.role) THEN used ELSE used + 1
    /\ lost' = IF answered THEN lost ELSE lost + 1
    /\ queue' = queue \ {request}
    /\ UNCHANGED <<site, seed, stage, judged>>

\* A slip: a request beyond the budget waits for more of it.
RefuseWaits(request) == IsNext(request) /\ ~Enough /\ ~Affordable(request) /\ UNCHANGED vars
\* Beyond the budget nothing is sent, and that is recorded.
Refuse(request) ==
    /\ IsNext(request) /\ ~Enough /\ ~Affordable(request)
    /\ bundle' = Record(bundle, request.role,
                        [NoAnswer EXCEPT !.at = request.at, !.refused = TRUE])
    /\ queue' = queue \ {request}
    /\ UNCHANGED <<site, seed, stage, used, bindings, lost, reached, judged>>

RunChecks ==
    /\ queue = {} /\ stage = Len(Stages) /\ ~judged
    /\ judged' = TRUE
    /\ UNCHANGED <<site, seed, stage, queue, bundle, used, bindings, lost, reached>>

Next ==
    \/ NextStage \/ StopWalk \/ Deadline \/ RunChecks
    \/ \E request \in queue :
          SkipRow(request) \/ Send(request, TRUE) \/ Send(request, FALSE) \/ Refuse(request)

Spec == Init /\ [][Next]_vars /\ WF_vars(Next)

-----------------------------------------------------------------------------
(* Properties.                                                               *)

Refused == {role \in DOMAIN bundle : bundle[role].refused}
\* Everything that was asked was answered, and the report is made.
Undisturbed == judged /\ lost = 0 /\ Refused = {}

\* The budget is never overdrawn, no more answers are lost than the site may lose, and the
\* report has a verdict for each check.
TypeOK ==
    /\ stage \in DOMAIN Stages /\ used \in 0 .. Budget /\ lost \in 0 .. site.faults
    /\ used = Cardinality({r \in DOMAIN bundle \ Refused : ~OwnBudget(bundle, r)})
    /\ judged => LET checks == Checks(bundle)
                 IN  \A id \in DOMAIN checks : checks[id] \in Verdicts

\* Whose origin a request of a role may go to, by what the bundle says
WarrantedAt(b, name) ==
    CASE name \in {"as", "oidc", "identity"} -> {AuthServer(b)}
      [] name \in {"remoteInit", "tools", "call", "read"} -> {ServerRemote(b)}
      [] name = "external" -> {ServerRemote(b)}
      [] name = "dns" -> {Doh} [] name = "presence" -> {Registry}
      [] name = "registryAuth" -> {Domain(b)}
      [] name \in {"testSuite", "vitestRun"} -> IF IsVitest(Claim(b)) THEN {Address(Claim(b))} ELSE {}
      [] OTHER -> {}
Warranted(b, role, at) ==
    /\ at \notin PrivateOrigins
    /\ at \in CleartextOrigins => role[1] \in {"testSuite", "vitestRun"}
    /\ at \in {Self} \cup WarrantedAt(b, role[1])

\* Nothing is contacted but the target and, for the roles that are delegated, the origin
\* that a recorded document of the chain names; no redirect leads elsewhere, and nothing
\* that is recorded later takes the warrant away (the gates of observeTarget and observe).
ProbesStayWarranted == \A c \in reached : Warranted(bundle, c.role, c.at)

\* The requests of the surfaces, the doors and the offer fit the budget of one run, however
\* many doors there are: none of them is refused (http.ts: budget, MAX_KEYLESS_PROBE_TOTAL).
FixedProbesFit == stage <= 8 => Refused = {}

\* On a site that was fully observed the checks that fail are exactly those that the site
\* breaks: neither what the seed samples, nor a redirect on the origin, nor a second source
\* of metadata, nor an answer that another check reads makes one fail or hides it.  What the
\* site claims is judged and not skipped, the best grade is given exactly where nothing is
\* broken, and where a claim is broken the grade is at most a C, whatever else there is
\* (runChecks, gradeOf).
ReportIsExact ==
    Undisturbed =>
        LET checks == Checks(bundle)
        IN  /\ {id \in DOMAIN checks : checks[id] = "fail"} = site.breaks
            /\ \A id \in site.claims : checks[id] # "skip"
            /\ GradeRank(checks) = 6 <=> site.breaks = {}
            /\ ~(site.breaks \subseteq ToSet(AxItems)) => GradeRank(checks) <= 3

\* The checks that read the absence of markup, of an error, of an operation or of a price:
\* an answer that was lost passes.
ByAbsence == {"content-negotiation", "legible", "honesty", "schema", "contract", "coverage", "manifest"}
\* The checks of which another source is read where the first one was lost: OpenID's metadata
\* for RFC 8414's, the default address for the one that the card names, the face that
\* another root advertises.
FirstSource(id) ==
    CASE id \in {"asMetadata", "pkce", "dcr", "authmd"} -> {"as"}
      [] id \in {"openapi", "keyless-flow"} -> {"agents"}
      [] id = "forcedFace" -> {"rootAgent", "rootBrowser"}
      [] OTHER -> {}
\* What a site breaks is never passed, wherever the budget ends, unless an answer was lost;
\* and then by the checks of ByAbsence alone, and by those that were left with a second
\* source.
NoFalsePass ==
    judged =>
        LET checks == Checks(bundle)
        IN  \A id \in site.breaks :
               checks[id] = "pass" =>
                  /\ lost > 0
                  /\ id \in ByAbsence \/ \E name \in FirstSource(id) : Ev(bundle, name).st = 0

\* A suite passes only when its artifact is the one that the card pins, each of its rows was
\* sent and answered, and its tests ran to the end on those bytes; a capability is covered
\* only by that run.
PassedSuiteRan ==
    judged =>
        LET verdicts == {PublishedTestSuite(bundle), CapabilityCoverage(bundle)}
        IN  "pass" \in verdicts =>
              /\ Document(bundle).digest = Claim(bundle).digest
              /\ PublishedTestSuite(bundle) = "pass" =>
                    \A row \in ToSet(Rows(bundle)) : Find(bundle, Row(row.id)).st # 0
              /\ IsVitest(Claim(bundle)) =>
                    /\ RunRecord(bundle).digest = Document(bundle).digest
                    /\ RunRecord(bundle).outcome = "ran"

\* Every verification comes to a report, also one whose budget is spent.
VerificationEnds == <>judged
=============================================================================
