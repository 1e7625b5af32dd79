---------------------------- MODULE Discovery_proof ----------------------------
(* What holds of every site, seed and budget: which origins a verification      *)
(* contacts, that each request is made and counted once and the fixed ones have *)
(* their share of the budget, what the report and the grade make of what was    *)
(* recorded, that a published suite passes only if it ran, that losing an       *)
(* answer never turns a failure into a pass, that what was not disturbed is     *)
(* what the site tells, and that each step is one towards the report.           *)
EXTENDS Discovery, Ranks, SequenceTheorems, TLAPS

\* A request of a delegated role goes where a recorded document of its chain leads; the
\* metadata of an authorization server is fetched only from one that may be delegated to.
Backed(b, role, at) ==
    /\ Warranted(b, role, at) /\ at # None
    /\ role[1] \in {"testSuite", "vitestRun"} => Claim(b) # None
    /\ role[1] \in {"as", "oidc"} => Delegable(AuthServer(b))
PlanBacked(b, plan) == \A r \in plan : Backed(b, r.role, r.at)
MetadataBacked(b) == \A role \in DOMAIN b : role[1] \in {"as", "oidc"} => Delegable(AuthServer(b))

IInv ==
    /\ used \in 0 .. Budget
    /\ stage \in DOMAIN Stages
    /\ MetadataBacked(bundle)
    /\ PlanBacked(bundle, queue)
    /\ \A c \in reached : Backed(bundle, c.role, c.at)

-----------------------------------------------------------------------------
(* What is recorded stays, and with it whatever is read from it.             *)

Extends(b, c) == \A role \in DOMAIN b : role \in DOMAIN c /\ c[role] = b[role]

\* A document that is an object was recorded, so it is read again.
LEMMA ObjectStays ==
    ASSUME NEW b, NEW c, Extends(b, c), NEW name, IsObject(Doc(b, name))
    PROVE  Doc(c, name) = Doc(b, name) /\ IsObject(Doc(c, name))
<1>1. Role(name) \in DOMAIN b
  BY DEF IsObject, Doc, Ev, Find, Json, NoAnswer
<1>2. Ev(c, name) = Ev(b, name)
  BY <1>1 DEF Extends, Ev, Find
<1>3. QED
  BY <1>2 DEF Doc

LEMMA AuthServerStays ==
    ASSUME NEW b, NEW c, Extends(b, c), AuthServer(b) # None
    PROVE  AuthServer(c) = AuthServer(b)
  BY ObjectStays DEF AuthServer

LEMMA ServerStays ==
    ASSUME NEW b, NEW c, Extends(b, c), Server(b) # None
    PROVE  Server(c) = Server(b)
  BY ObjectStays DEF Server, Object

LEMMA ServerRemoteStays ==
    ASSUME NEW b, NEW c, Extends(b, c), ServerRemote(b) # None
    PROVE  ServerRemote(c) = ServerRemote(b)
<1>1. Server(b) # None
  BY DEF ServerRemote
<1>2. QED
  BY <1>1, ServerStays DEF ServerRemote

LEMMA DomainStays ==
    ASSUME NEW b, NEW c, Extends(b, c), Domain(b) # None
    PROVE  Domain(c) = Domain(b)
<1>1. Server(b) # None
  BY DEF Domain
<1>2. QED
  BY <1>1, ServerStays DEF Domain

LEMMA ClaimStays ==
    ASSUME NEW b, NEW c, Extends(b, c), Claim(b) # None
    PROVE  Claim(c) = Claim(b)
<1>1. IsObject(Doc(b, "agents"))
  BY DEF Claim, Card, Object, NoCard
<1>2. QED
  BY <1>1, ObjectStays DEF Claim, Card, Object

\* What backs a request backs it for ever.
LEMMA BackedStays ==
    ASSUME NEW b, NEW c, Extends(b, c), NEW role, NEW at, Backed(b, role, at)
    PROVE  Backed(c, role, at)
<1> DEFINE name == role[1]
<1>1. CASE name \in {"testSuite", "vitestRun"}
  <2>1. Claim(c) = Claim(b)
    BY <1>1, ClaimStays DEF Backed
  <2>2. QED
    BY <1>1, <2>1 DEF Backed, Warranted, WarrantedAt
<1>2. CASE name \in {"as", "oidc"}
  <2>1. AuthServer(c) = AuthServer(b)
    BY <1>2, AuthServerStays DEF Backed, Delegable
  <2>2. QED
    BY <1>2, <2>1 DEF Backed, Warranted, WarrantedAt
<1>3. CASE name = "identity"
  <2>1. at = Self \/ at = AuthServer(b)
    BY <1>3 DEF Backed, Warranted, WarrantedAt
  <2>2. at = Self \/ at = AuthServer(c)
    BY <2>1, AuthServerStays DEF Backed
  <2>3. QED
    BY <1>3, <2>2 DEF Backed, Warranted, WarrantedAt
<1>4. CASE name \in {"remoteInit", "tools", "call", "read", "external"}
  <2>1. at = Self \/ at = ServerRemote(b)
    BY <1>4 DEF Backed, Warranted, WarrantedAt
  <2>2. at = Self \/ at = ServerRemote(c)
    BY <2>1, ServerRemoteStays DEF Backed
  <2>3. QED
    BY <1>4, <2>2 DEF Backed, Warranted, WarrantedAt
<1>5. CASE name = "registryAuth"
  <2>1. at = Self \/ at = Domain(b)
    BY <1>5 DEF Backed, Warranted, WarrantedAt
  <2>2. at = Self \/ at = Domain(c)
    BY <2>1, DomainStays DEF Backed
  <2>3. QED
    BY <1>5, <2>2 DEF Backed, Warranted, WarrantedAt
<1>6. CASE name \notin {"testSuite", "vitestRun", "as", "oidc", "identity", "remoteInit",
                        "tools", "call", "read", "external", "registryAuth"}
  BY <1>6 DEF Backed, Warranted, WarrantedAt
<1>7. QED
  BY <1>1, <1>2, <1>3, <1>4, <1>5, <1>6

LEMMA PlanStays ==
    ASSUME NEW b, NEW c, Extends(b, c), NEW plan, PlanBacked(b, plan)
    PROVE  PlanBacked(c, plan)
  BY BackedStays DEF PlanBacked

\* What is recorded first under a role is kept.
LEMMA RecordKeeps ==
    ASSUME NEW b, NEW role, NEW ev
    PROVE  /\ Extends(b, Record(b, role, ev))
           /\ DOMAIN Record(b, role, ev) = DOMAIN b \cup {role}
  BY DEF Extends, Record

-----------------------------------------------------------------------------
(* Each stage asks only what is backed by what was recorded before it.       *)

RoleNames ==
    {"rootAgent", "rootBrowser", "rootJson", "rootMarkdown", "rootBrowserNav", "rootAgentUa",
     "llms", "agents", "icp", "agentConfig", "openapi", "pricing", "offer", "mcp", "mcpInit",
     "protected", "serverJson", "stream", "twin", "gs1", "face", "keyless", "typedAgent",
     "typedBrowser", "row", "contract"}

\* A request to the target's own origin needs no document.
LEMMA OwnIsBacked ==
    ASSUME NEW b, NEW role, role[1] \in RoleNames
    PROVE  Backed(b, role, Self)
  BY SurfacesAssumption DEF Backed, Warranted, RoleNames, Unsafe

LEMMA LocalIsSelf == ASSUME NEW url, Local(url) PROVE url = Self
  BY DEF Local, SameOrigin

LEMMA IfBacked ==
    ASSUME NEW b, NEW condition \in BOOLEAN, NEW request,
           condition => Backed(b, request.role, request.at)
    PROVE  PlanBacked(b, If(condition, request))
  BY DEF If, PlanBacked

LEMMA Requests ==
    ASSUME NEW role, NEW at, NEW turn, NEW name
    PROVE  /\ Get(role, at).role = role /\ Get(role, at).at = at
           /\ Post(name, at).role = Role(name) /\ Post(name, at).at = at
           /\ InTurn(turn, Get(role, at)).role = role /\ InTurn(turn, Get(role, at)).at = at
  BY DEF Get, Post, InTurn, Request

LEMMA RootBacked == ASSUME NEW b PROVE PlanBacked(b, PlanRoot)
<1> SUFFICES ASSUME NEW i \in 1 .. 6
             PROVE  Backed(b, Role(<<"rootAgent", "rootBrowser", "rootJson", "rootMarkdown",
                                     "rootBrowserNav", "rootAgentUa">>[i]), Self)
  BY Requests DEF PlanBacked, PlanRoot
<1> QED
  BY OwnIsBacked DEF Role, RoleNames

LEMMA SurfacesBacked ==
    ASSUME NEW b
    PROVE  /\ PlanBacked(b, PlanFaces(b)) /\ PlanBacked(b, PlanTexts)
           /\ PlanBacked(b, PlanOpenapi(b)) /\ PlanBacked(b, PlanPricing(b))
<1>1. PlanBacked(b, PlanFaces(b))
  <2> SUFFICES ASSUME NEW f, Local(Advertised(b, f))
               PROVE  Backed(b, FaceRole(f), Advertised(b, f))
    BY Requests DEF PlanBacked, PlanFaces
  <2> QED
    BY LocalIsSelf, OwnIsBacked DEF FaceRole, RoleNames
<1>2. PlanBacked(b, PlanTexts)
  <2> SUFFICES ASSUME NEW i \in 1 .. 4
               PROVE  Backed(b, Role(<<"llms", "agents", "icp", "agentConfig">>[i]), Self)
    BY Requests DEF PlanBacked, PlanTexts
  <2> QED
    BY OwnIsBacked DEF Role, RoleNames
<1>3. PlanBacked(b, PlanOpenapi(b))
  <2> DEFINE at == IF Card(b).openapi = None THEN Self ELSE Card(b).openapi
  <2>1. Local(at) => Backed(b, Role("openapi"), at)
    BY LocalIsSelf, OwnIsBacked DEF Role, RoleNames
  <2> HIDE DEF at
  <2>2. PlanBacked(b, If(Local(at), Get(Role("openapi"), at)))
    BY <2>1, Requests DEF If, PlanBacked
  <2> QED
    BY <2>2 DEF PlanOpenapi, at
<1>4. PlanBacked(b, PlanPricing(b))
  <2> DEFINE entry == PricingEntry(Card(b))
  <2>1. Local(entry.at) => Backed(b, Role("pricing"), entry.at)
    BY LocalIsSelf, OwnIsBacked DEF Role, RoleNames
  <2> HIDE DEF entry
  <2>2. PlanBacked(b, If(entry # None /\ entry.method = "GET" /\ Local(entry.at),
                         Get(Role("pricing"), entry.at)))
    BY <2>1, Requests DEF If, PlanBacked
  <2> QED
    BY <2>2 DEF PlanPricing, entry
<1> QED
  BY <1>1, <1>2, <1>3, <1>4

LEMMA DoorsBacked ==
    ASSUME NEW b
    PROVE  /\ PlanBacked(b, PlanDoors(b)) /\ PlanBacked(b, PlanTyped(b))
           /\ PlanBacked(b, PlanOffer(b)) /\ PlanBacked(b, PlanContract(b))
           /\ PlanBacked(b, PlanRows(b))
<1>1. PlanBacked(b, PlanDoors(b))
  <2> SUFFICES ASSUME NEW p PROVE Backed(b, Keyless(p), Self)
    BY Requests DEF PlanBacked, PlanDoors
  <2> QED
    BY OwnIsBacked DEF Keyless, RoleNames
<1>2. PlanBacked(b, PlanTyped(b))
  <2> DEFINE place == [p \in Candidates(b) |-> PlaceIn(seed.typed, p)]
             paths == Foremost(DOMAIN place, MaxTyped, place) \ Astray
             agents == {InTurn(2 * place[p], Get(TypedAgent(p), Self)) : p \in paths}
             browsers == {InTurn(2 * place[p] + 1, Get(TypedBrowser(p), Self)) : p \in paths}
  <2>1. PlanTyped(b) \subseteq agents \cup browsers
    BY DEF PlanTyped
  <2> HIDE DEF place, paths
  <2>2. \A r \in agents \cup browsers :
           \E p : r.at = Self /\ (r.role = TypedAgent(p) \/ r.role = TypedBrowser(p))
    BY Requests
  <2> HIDE DEF agents, browsers
  <2>3. \A p : Backed(b, TypedAgent(p), Self) /\ Backed(b, TypedBrowser(p), Self)
    BY OwnIsBacked DEF TypedAgent, TypedBrowser, RoleNames
  <2> QED
    BY <2>1, <2>2, <2>3 DEF PlanBacked
<1>3. PlanBacked(b, PlanOffer(b))
  <2>1. OfferProbe(Card(b)) => Backed(b, Role("offer"), Card(b).boundary.at)
    BY LocalIsSelf, OwnIsBacked DEF OfferProbe, Role, RoleNames
  <2> QED
    BY <2>1, Requests DEF PlanOffer, If, PlanBacked
<1>4. PlanBacked(b, PlanContract(b))
  <2> DEFINE rest == {p \in Candidates(b) \ Astray : Keyless(p) \notin DOMAIN b}
             paths == Foremost(rest, MaxContract, [q \in rest |-> q])
             asked == {InTurn(p, Get(Contract(p), Self)) : p \in paths}
  <2>1. PlanContract(b) = asked
    BY DEF PlanContract
  <2> HIDE DEF paths
  <2>2. \A r \in asked : \E p : r.at = Self /\ r.role = Contract(p)
    BY Requests
  <2> HIDE DEF asked
  <2>3. \A p : Backed(b, Contract(p), Self)
    BY OwnIsBacked DEF Contract, RoleNames
  <2> QED
    BY <2>1, <2>2, <2>3 DEF PlanBacked
<1>5. PlanBacked(b, PlanRows(b))
  <2> SUFFICES ASSUME NEW id PROVE Backed(b, Row(id), Self)
    BY Requests DEF PlanBacked, PlanRows
  <2> QED
    BY OwnIsBacked DEF Row, RoleNames
<1> QED
  BY <1>1, <1>2, <1>3, <1>4, <1>5

LEMMA DelegableIsBacked ==
    ASSUME NEW b, NEW role, NEW at, Delegable(at), at \in WarrantedAt(b, role[1]),
           role[1] \notin {"testSuite", "vitestRun"},
           role[1] \in {"as", "oidc"} => at = AuthServer(b)
    PROVE  Backed(b, role, at)
  BY DEF Backed, Warranted, Delegable, Unsafe

LEMMA McpBacked ==
    ASSUME NEW b, MetadataBacked(b)
    PROVE  /\ PlanBacked(b, PlanMcp(b)) /\ PlanBacked(b, PlanMcpInit(b))
           /\ PlanBacked(b, PlanProtected(b)) /\ PlanBacked(b, PlanAs(b))
           /\ PlanBacked(b, PlanOidc(b)) /\ PlanBacked(b, PlanIdentity(b))
<1> DEFINE url == McpUrl(Card(b))
<1>1. Local(url) => /\ Backed(b, Role("mcp"), url) /\ Backed(b, Role("mcpInit"), url)
                    /\ Backed(b, Role("protected"), url)
  BY LocalIsSelf, OwnIsBacked DEF Role, RoleNames
<1> HIDE DEF url
<1>2. PlanBacked(b, PlanMcp(b)) /\ PlanBacked(b, PlanMcpInit(b)) /\ PlanBacked(b, PlanProtected(b))
  BY <1>1, Requests DEF PlanMcp, PlanMcpInit, PlanProtected, If, PlanBacked, url
<1>3. Delegable(AuthServer(b)) => /\ Backed(b, Role("as"), AuthServer(b))
                                  /\ Backed(b, Role("oidc"), AuthServer(b))
  BY DelegableIsBacked DEF Role, WarrantedAt
<1>4. PlanBacked(b, PlanAs(b)) /\ PlanBacked(b, PlanOidc(b))
  BY <1>3, Requests DEF PlanAs, PlanOidc, If, PlanBacked
\* Metadata that names an identity endpoint was fetched, so its server may be delegated to.
<1>5. ASSUME IdentityUrl(b) # None, SameOrigin(IdentityUrl(b), AuthServer(b))
      PROVE  Backed(b, Role("identity"), IdentityUrl(b))
  <2>1. Role("as") \in DOMAIN b \/ Role("oidc") \in DOMAIN b
    BY <1>5 DEF IdentityUrl, ObservedAgentAuth, AgentAuth, Metadata, Object, AsResolved,
                AsEvidence, Ok, Ev, Find, Json, NoAnswer, IsObject, Answered2xx
  <2>2. Delegable(AuthServer(b))
    BY <2>1 DEF MetadataBacked, Role
  <2>3. QED
    BY <1>5, <2>2, DelegableIsBacked DEF SameOrigin, Role, WarrantedAt
<1>6. PlanBacked(b, PlanIdentity(b))
  BY <1>5, Requests DEF PlanIdentity, If, PlanBacked, SameOrigin
<1> QED
  BY <1>2, <1>4, <1>6

LEMMA RegistryBacked ==
    ASSUME NEW b
    PROVE  /\ PlanBacked(b, PlanServerJson(b)) /\ PlanBacked(b, PlanRemote(b))
           /\ PlanBacked(b, PlanTools(b)) /\ PlanBacked(b, PlanOwnership(b))
           /\ PlanBacked(b, PlanPresence(b))
<1>1. PlanBacked(b, PlanServerJson(b))
  <2> DEFINE at == IF Card(b).serverJson = None THEN Self ELSE Card(b).serverJson
  <2>1. Local(at) => Backed(b, Role("serverJson"), at)
    BY LocalIsSelf, OwnIsBacked DEF Role, RoleNames
  <2> HIDE DEF at
  <2>2. PlanBacked(b, If(Local(at), Get(Role("serverJson"), at)))
    BY <2>1, Requests DEF If, PlanBacked
  <2> QED
    BY <2>2 DEF PlanServerJson, at
<1>2. Delegable(ServerRemote(b)) => /\ Backed(b, Role("remoteInit"), ServerRemote(b))
                                    /\ Backed(b, Role("tools"), ServerRemote(b))
  BY DelegableIsBacked DEF Role, WarrantedAt
<1>3. PlanBacked(b, PlanRemote(b)) /\ PlanBacked(b, PlanTools(b))
  BY <1>2, Requests DEF PlanRemote, PlanTools, If, PlanBacked
<1>4. PlanBacked(b, PlanOwnership(b))
  <2>1. Backed(b, Role("dns"), Doh)
    BY SurfacesAssumption DEF Role, Backed, Warranted, WarrantedAt, Unsafe
  <2>2. Delegable(Domain(b)) => Backed(b, Role("registryAuth"), Domain(b))
    BY DelegableIsBacked DEF Role, WarrantedAt
  <2> QED
    BY <2>1, <2>2, Requests DEF PlanOwnership, If, PlanBacked
<1>5. PlanBacked(b, PlanPresence(b))
  <2>1. Backed(b, Role("presence"), Registry)
    BY SurfacesAssumption DEF Role, Backed, Warranted, WarrantedAt, Unsafe
  <2> QED
    BY <2>1, Requests DEF PlanPresence, If, PlanBacked
<1> QED
  BY <1>1, <1>3, <1>4, <1>5

\* The widget is read from the registry's remote, or from the card's own.
LEMMA UiBacked ==
    ASSUME NEW b
    PROVE  /\ PlanBacked(b, PlanUiInit(b)) /\ PlanBacked(b, PlanUiTools(b))
           /\ PlanBacked(b, PlanUiCall(b)) /\ PlanBacked(b, PlanUiRead(b))
           /\ PlanBacked(b, PlanUiExternal(b))
<1> DEFINE names == {"remoteInit", "tools", "call", "read", "external"}
<1>1. ASSUME NEW at, at = Self \/ (at = ServerRemote(b) /\ Delegable(at)), NEW name \in names
      PROVE  Backed(b, Role(name), at)
  <2>1. CASE at = Self
    BY <2>1, SurfacesAssumption DEF Backed, Warranted, Role, Unsafe
  <2>2. CASE at = ServerRemote(b) /\ Delegable(at)
    BY <2>2, DelegableIsBacked DEF Role, WarrantedAt
  <2> QED
    BY <1>1, <2>1, <2>2
<1>2. UiRemote(b) = None \/ UiRemote(b) = Self
      \/ (UiRemote(b) = ServerRemote(b) /\ Delegable(UiRemote(b)))
  BY LocalIsSelf DEF UiRemote
<1>3. UiRemote(b) # None => \A name \in names : Backed(b, Role(name), UiRemote(b))
  BY <1>1, <1>2
<1>4. PlanBacked(b, PlanUiInit(b))
  BY <1>3, Requests DEF PlanUiInit, If, PlanBacked
<1>5. PlanBacked(b, PlanUiTools(b)) /\ PlanBacked(b, PlanUiCall(b)) /\ PlanBacked(b, PlanUiRead(b))
  BY <1>3, Requests DEF PlanUiTools, PlanUiCall, PlanUiRead, UiCallable, UiAlive, If, PlanBacked
<1>6. PlanBacked(b, PlanUiExternal(b))
  <2>1. ASSUME UiRemote(b) # None,
               Local(ExternalUrl(b)) \/ SameOrigin(ExternalUrl(b), UiRemote(b))
        PROVE  Backed(b, Role("external"), ExternalUrl(b))
    BY <1>1, <1>3, <2>1, LocalIsSelf DEF SameOrigin
  <2> QED
    BY <2>1, Requests DEF PlanUiExternal, UiCallable, UiAlive, If, PlanBacked
<1> QED
  BY <1>4, <1>5, <1>6

LEMMA StreamBacked ==
    ASSUME NEW b
    PROVE  /\ PlanBacked(b, PlanStream(b)) /\ PlanBacked(b, PlanTwin(b))
           /\ PlanBacked(b, PlanDigitalLink(b))
<1>1. ASSUME NEW at, Local(at), NEW name \in {"stream", "twin", "gs1"}
      PROVE  Backed(b, Role(name), at)
  BY <1>1, LocalIsSelf, OwnIsBacked DEF Role, RoleNames
<1>2. PlanBacked(b, PlanStream(b)) /\ PlanBacked(b, PlanTwin(b))
  BY <1>1, Requests DEF PlanStream, PlanTwin, If, PlanBacked
<1>3. PlanBacked(b, PlanDigitalLink(b))
  <2> DEFINE dl == Card(b).digitalLink
  <2> HIDE DEF dl
  <2>1. PlanBacked(b, If(dl # None /\ ~dl.malformed /\ Local(dl.at), Get(Role("gs1"), dl.at)))
    BY <1>1, Requests DEF If, PlanBacked
  <2> QED
    BY <2>1 DEF PlanDigitalLink, dl
<1> QED
  BY <1>2, <1>3

\* The artifact of a suite is where the card says, above the network floor.
LEMMA SuiteBacked ==
    ASSUME NEW b
    PROVE  PlanBacked(b, PlanSuite(b)) /\ PlanBacked(b, PlanRun(b))
<1> DEFINE at == Address(Claim(b))
<1>1. ASSUME Published(b), NEW name \in {"testSuite", "vitestRun"}
      PROVE  Backed(b, Role(name), at)
  <2>1. CASE IsVitest(Claim(b))
    BY <1>1, <2>1 DEF Published, CardFits, VitestCardFits, Backed, Warranted, WarrantedAt, Role
  <2>2. CASE ~IsVitest(Claim(b))
    <3>1. at = Self
      BY <1>1, <2>2, LocalIsSelf DEF Published, CardFits, SuiteCardFits, Address
    <3>2. QED
      BY <1>1, <3>1, SurfacesAssumption DEF Published, Backed, Warranted, Role, Unsafe
  <2> QED
    BY <2>1, <2>2
<1> HIDE DEF at
<1>2. PlanBacked(b, PlanSuite(b)) /\ PlanBacked(b, PlanRun(b))
  BY <1>1, Requests DEF PlanSuite, PlanRun, Admitted, If, PlanBacked, at
<1> QED
  BY <1>2

LEMMA StageNames ==
    ASSUME NEW i \in DOMAIN Stages
    PROVE  Stages[i] \in
      {"root", "faces", "texts", "openapi", "pricing", "doors", "typed", "offer",
       "mcp", "mcpInit", "protected", "as", "oidc", "identity",
       "serverJson", "remoteInit", "tools", "ownership", "presence",
       "uiInit", "uiTools", "call", "read", "external", "stream", "twin", "gs1",
       "suite", "rows", "vitestRun", "contract"}
  BY DEF Stages

LEMMA StageBacked ==
    ASSUME NEW b, MetadataBacked(b), NEW i \in DOMAIN Stages
    PROVE  PlanBacked(b, Plan(Stages[i], b))
<1> DEFINE name == Stages[i]
<1>1. CASE name \in {"root", "faces", "texts", "openapi", "pricing"}
  BY <1>1, RootBacked, SurfacesBacked DEF Plan
<1>2. CASE name \in {"doors", "typed", "offer", "contract", "rows"}
  BY <1>2, DoorsBacked DEF Plan
<1>3. CASE name \in {"mcp", "mcpInit", "protected", "as", "oidc", "identity"}
  BY <1>3, McpBacked DEF Plan
<1>4. CASE name \in {"serverJson", "remoteInit", "tools", "ownership", "presence"}
  BY <1>4, RegistryBacked DEF Plan
<1>5. CASE name \in {"uiInit", "uiTools", "call", "read", "external"}
  BY <1>5, UiBacked DEF Plan
<1>6. CASE name \in {"stream", "twin", "gs1"}
  BY <1>6, StreamBacked DEF Plan
<1>7. CASE name \in {"suite", "vitestRun"}
  BY <1>7, SuiteBacked DEF Plan
<1> QED
  BY <1>1, <1>2, <1>3, <1>4, <1>5, <1>6, <1>7, StageNames

-----------------------------------------------------------------------------
(* The exchange and the budget.                                              *)

\* Redirects stay on the origin of their request: what is followed is a prefix of the hops
\* each of which was held against it.
LEMMA ContactsAreOwn == ASSUME NEW request, NEW o \in Contacts(request) PROVE o = request.at
<1> DEFINE via == Reply(request.role).via
           taken == Hops(request)
           n == Cardinality(taken)
<1>1. MaxRedirects \in Nat
  BY DiscoveryAssumption
<1>2. taken \subseteq 1 .. MaxRedirects
  BY DEF Hops
<1>3. IsFiniteSet(taken) /\ n \in Nat
  <2>1. IsFiniteSet(1 .. MaxRedirects)
    BY <1>1, FS_Interval
  <2>2. IsFiniteSet(taken)
    BY <1>2, <2>1, FS_Subset
  <2>3. QED
    BY <2>2, FS_CardinalityType
<1>4. ASSUME NEW j \in 1 .. n, j \notin taken PROVE FALSE
  <2>1. taken \subseteq 1 .. j - 1
    <3> SUFFICES ASSUME NEW k \in taken, k >= j PROVE FALSE
      BY <1>2, <1>1
    <3>1. j \in 1 .. k /\ j \in 1 .. MaxRedirects
      BY <1>1, <1>2, <1>3
    <3>2. j \in taken
      BY <3>1, <1>1, <1>2 DEF Hops
    <3>3. QED
      BY <3>2, <1>4
  <2>2. IsFiniteSet(1 .. j - 1) /\ Cardinality(1 .. j - 1) = j - 1
    <3>1. j - 1 \in Int /\ j - 1 >= 0
      BY <1>3
    <3>2. /\ IsFiniteSet(1 .. j - 1)
          /\ Cardinality(1 .. j - 1) = IF 1 > j - 1 THEN 0 ELSE (j - 1) - 1 + 1
      BY <3>1, FS_Interval
    <3>3. QED
      BY <3>1, <3>2
  <2>3. n <= j - 1
    BY <2>1, <2>2, FS_Subset
  <2>4. QED
    BY <2>3, <1>3
<1>5. \A j \in 1 .. n : via[j] = request.at
  <2> SUFFICES ASSUME NEW j \in 1 .. n PROVE via[j] = request.at
    OBVIOUS
  <2>1. j \in taken
    BY <1>4
  <2>2. \A k \in 1 .. j : SameOrigin(via[k], request.at)
    BY <2>1 DEF Hops
  <2>3. QED
    BY <2>2, <1>3 DEF SameOrigin
<1> HIDE DEF n, via
<1>6. ToSet(SubSeq(via, 1, n)) \subseteq {request.at}
  <2>1. /\ SubSeq(via, 1, n) \in Seq({request.at})
    BY <1>3, <1>5, SubSeqProperties
  <2>2. QED
    BY <2>1 DEF ToSet
<1>7. QED
  BY <1>6 DEF Contacts, Followed, n, via

LEMMA InvInit == Init => IInv
<1> SUFFICES ASSUME Init PROVE IInv
  OBVIOUS
<1>1. used \in 0 .. Budget /\ stage \in DOMAIN Stages
  BY DiscoveryAssumption DEF Init, Stages
<1>2. MetadataBacked(bundle) /\ \A c \in reached : Backed(bundle, c.role, c.at)
  BY DEF Init, MetadataBacked
<1>3. PlanBacked(bundle, queue)
  BY RootBacked DEF Init
<1>4. QED
  BY <1>1, <1>2, <1>3 DEF IInv

\* A request that is made, or refused, leaves its evidence in the bundle.
LEMMA RecordedKeepsInv ==
    ASSUME IInv, NEW request \in queue, NEW ev,
           bundle' = Record(bundle, request.role, ev), queue' = queue \ {request}, stage' = stage
    PROVE  /\ stage' \in DOMAIN Stages
           /\ MetadataBacked(bundle') /\ PlanBacked(bundle', queue')
           /\ \A c \in reached \cup {[role |-> request.role, at |-> request.at]} :
                 Backed(bundle', c.role, c.at)
<1>1. Extends(bundle, bundle') /\ DOMAIN bundle' = DOMAIN bundle \cup {request.role}
  BY RecordKeeps
<1>2. Backed(bundle, request.role, request.at)
  BY DEF IInv, PlanBacked
<1>3. PlanBacked(bundle', queue')
  <2>1. PlanBacked(bundle, queue')
    BY DEF IInv, PlanBacked
  <2>2. QED
    BY <1>1, <2>1, PlanStays
<1>4. MetadataBacked(bundle')
  <2> SUFFICES ASSUME NEW role \in DOMAIN bundle', role[1] \in {"as", "oidc"}
               PROVE  Delegable(AuthServer(bundle'))
    BY DEF MetadataBacked
  <2>1. Delegable(AuthServer(bundle))
    BY <1>1, <1>2 DEF IInv, MetadataBacked, Backed
  <2>2. AuthServer(bundle') = AuthServer(bundle)
    BY <1>1, <2>1, AuthServerStays DEF Delegable
  <2>3. QED
    BY <2>1, <2>2
<1>5. ASSUME NEW c \in reached \cup {[role |-> request.role, at |-> request.at]}
      PROVE  Backed(bundle', c.role, c.at)
  <2>1. Backed(bundle, c.role, c.at)
    BY <1>2 DEF IInv
  <2>2. QED
    BY <1>1, <2>1, BackedStays
<1>6. QED
  BY <1>3, <1>4, <1>5 DEF IInv

LEMMA SendKeepsInv ==
    ASSUME IInv, NEW request \in queue, NEW answered \in BOOLEAN, Send(request, answered)
    PROVE  IInv'
<1> DEFINE ev == Exchanged(request, answered)
<1>1. /\ bundle' = Record(bundle, request.role, ev) /\ queue' = queue \ {request}
      /\ stage' = stage
      /\ reached' = reached \cup {[role |-> request.role, at |-> o] : o \in Contacts(request)}
      /\ used' = IF OwnBudget(bundle, request.role) THEN used ELSE used + 1
      /\ used < Budget \/ OwnBudget(bundle, request.role)
  BY DEF Send, Affordable
<1> HIDE DEF ev
<1>2. reached' \subseteq reached \cup {[role |-> request.role, at |-> request.at]}
  BY <1>1, ContactsAreOwn
<1>3. /\ stage' \in DOMAIN Stages
      /\ MetadataBacked(bundle') /\ PlanBacked(bundle', queue')
      /\ \A c \in reached \cup {[role |-> request.role, at |-> request.at]} :
            Backed(bundle', c.role, c.at)
  BY <1>1, RecordedKeepsInv
<1>4. used' \in 0 .. Budget
  BY <1>1, DiscoveryAssumption DEF IInv
<1>5. QED
  BY <1>2, <1>3, <1>4 DEF IInv

LEMMA InvStep == IInv /\ [Next]_vars => IInv'
<1> SUFFICES ASSUME IInv, [Next]_vars PROVE IInv'
  OBVIOUS
<1>1. CASE NextStage
  <2>1. stage + 1 \in DOMAIN Stages
    BY <1>1 DEF NextStage, IInv, Stages
  <2>2. PlanBacked(bundle, Plan(Stages[stage + 1], bundle))
    BY <2>1, StageBacked DEF IInv
  <2>3. QED
    BY <1>1, <2>1, <2>2 DEF NextStage, IInv
<1>2. CASE StopWalk \/ Deadline
  <2>1. /\ queue' = {} /\ UNCHANGED <<stage, bundle, used, reached>>
    BY <1>2 DEF StopWalk, Deadline
  <2>2. QED
    BY <2>1 DEF IInv, PlanBacked
<1>3. CASE RunChecks \/ UNCHANGED vars
  BY <1>3 DEF RunChecks, vars, IInv
<1>4. ASSUME NEW request \in queue, SkipRow(request) PROVE IInv'
  <2>1. /\ queue' = queue \ {request} /\ UNCHANGED <<stage, bundle, used, reached>>
    BY <1>4 DEF SkipRow
  <2>2. QED
    BY <2>1 DEF IInv, PlanBacked
<1>5. ASSUME NEW request \in queue, NEW answered \in BOOLEAN, Send(request, answered) PROVE IInv'
  BY <1>5, SendKeepsInv
<1>6. ASSUME NEW request \in queue, Refuse(request) PROVE IInv'
  <2> DEFINE ev == [NoAnswer EXCEPT !.at = request.at, !.refused = TRUE]
  <2>1. /\ bundle' = Record(bundle, request.role, ev) /\ queue' = queue \ {request}
        /\ UNCHANGED <<stage, used, reached>>
    BY <1>6 DEF Refuse
  <2> HIDE DEF ev
  <2>2. QED
    BY <2>1, RecordedKeepsInv DEF IInv
<1>7. QED
  BY <1>1, <1>2, <1>3, <1>4, <1>5, <1>6 DEF Next

-----------------------------------------------------------------------------

\* observeTarget and observe contact only the target, the origins that recorded documents
\* delegate to and the two fixed services, whatever a site answers or redirects to: for
\* every site, seed and budget.
THEOREM ProbesWarranted == Spec => []ProbesStayWarranted
<1>1. Init => IInv
  BY InvInit
<1>2. IInv /\ [Next]_vars => IInv'
  BY InvStep
<1>3. IInv => ProbesStayWarranted
  BY DEF IInv, ProbesStayWarranted, Backed
<1>4. QED
  BY <1>1, <1>2, <1>3, PTL DEF Spec

\* No order of stages, loss or refusal overdraws the budget of an observer.
THEOREM BudgetKept == Spec => [](used \in 0 .. Budget)
<1>1. Init => IInv
  BY InvInit
<1>2. IInv /\ [Next]_vars => IInv'
  BY InvStep
<1>3. IInv => used \in 0 .. Budget
  BY DEF IInv
<1>4. QED
  BY <1>1, <1>2, <1>3, PTL DEF Spec

-----------------------------------------------------------------------------
(* What the report makes of a bundle.                                        *)

\* Of every bundle: a published suite passes, or covers a capability, only when the card was
\* admitted, the recorded artifact is the one it pins and, where the artifact is executable,
\* the run that is recorded is of those bytes and came to its end
\* (gateVitestSuiteDocument, judgeVitestPublishedSuite, judgeCapabilityCoverage).
THEOREM SuitePassIsOfPinnedArtifact ==
    ASSUME NEW b, PublishedTestSuite(b) = "pass" \/ CapabilityCoverage(b) = "pass"
    PROVE  /\ Published(b)
           /\ Document(b) # None /\ Document(b).digest = Claim(b).digest
           /\ IsVitest(Claim(b)) => /\ RunRecord(b).digest = Document(b).digest
                                    /\ RunRecord(b).outcome = "ran"
<1>1. Completed(b)
  BY DEF PublishedTestSuite, CapabilityCoverage, Optional, PassIf,
         PublishedSuitePasses, CoveragePasses
<1>2. QED
  BY <1>1 DEF Completed, Admitted, DocumentFits, Ran

LEMMA TenItems == IsFiniteSet(ToSet(AxItems)) /\ Cardinality(ToSet(AxItems)) \in Nat
<1>1. IsFiniteSet(1 .. 10)
  <2>1. 1 \in Int /\ 10 \in Int
    OBVIOUS
  <2>2. QED
    BY <2>1, FS_Interval, Zenon
<1>2. AxItems \in Surjection(1 .. 10, ToSet(AxItems))
  BY DEF AxItems, ToSet, Surjection
<1>3. QED
  BY <1>1, <1>2, FS_Surjection, FS_CardinalityType

LEMMA ByPointsType == ASSUME NEW n \in Nat PROVE ByPoints(n) \in 1 .. 6
  BY DEF ByPoints

LEMMA ByPointsMonotone ==
    ASSUME NEW m \in Nat, NEW n \in Nat, m <= n PROVE ByPoints(m) <= ByPoints(n)
  BY DEF ByPoints

LEMMA PointsType == ASSUME NEW checks PROVE Points(checks) \in Nat
<1> DEFINE passed == {id \in ToSet(AxItems) : checks[id] = "pass"}
<1>1. passed \subseteq ToSet(AxItems)
  OBVIOUS
<1>2. IsFiniteSet(passed)
  BY <1>1, TenItems, FS_Subset
<1>3. Cardinality(passed) \in Nat
  BY <1>2, FS_CardinalityType
<1>4. QED
  BY <1>3 DEF Points

\* gradeOf: a claim that is found untrue costs the grade whatever else there is.
LEMMA LiesCapTheGrade ==
    ASSUME NEW checks, Dishonest(checks) # {}
    PROVE  GradeRank(checks) \in 1 .. 3
<1>1. ByPoints(Points(checks)) \in 1 .. 6
  BY PointsType, ByPointsType
<1>2. QED
  BY <1>1 DEF GradeRank

\* gradeOf: a report with no more passes, and with failures outside the ten items where the
\* other has some, has no better grade: failing more is never worth it.  (Silence may be:
\* a failure that becomes a skip lifts the cap.)
THEOREM FailingMoreNeverPays ==
    ASSUME NEW better, NEW worse,
           \A id \in ToSet(AxItems) : worse[id] = "pass" => better[id] = "pass",
           Dishonest(better) # {} => Dishonest(worse) # {}
    PROVE  GradeRank(worse) <= GradeRank(better)
<1> DEFINE passed(checks) == {id \in ToSet(AxItems) : checks[id] = "pass"}
<1>1. passed(worse) \subseteq passed(better) /\ passed(better) \subseteq ToSet(AxItems)
  OBVIOUS
<1>2. IsFiniteSet(passed(better))
  BY <1>1, TenItems, FS_Subset
<1>3. Points(worse) <= Points(better)
  <2>1. Cardinality(passed(worse)) <= Cardinality(passed(better))
    BY <1>1, <1>2, FS_Subset
  <2>2. QED
    BY <2>1 DEF Points
<1>4. /\ ByPoints(Points(worse)) \in 1 .. 6 /\ ByPoints(Points(better)) \in 1 .. 6
      /\ ByPoints(Points(worse)) <= ByPoints(Points(better))
  BY <1>3, PointsType, ByPointsType, ByPointsMonotone
<1>5. QED
  BY <1>4 DEF GradeRank

-----------------------------------------------------------------------------
(* Whose turn a role is: the stage that asks for it first.                     *)

Home(name) ==
    CASE name \in {"rootAgent", "rootBrowser", "rootJson", "rootMarkdown",
                   "rootBrowserNav", "rootAgentUa"} -> 1
      [] name = "face" -> 2
      [] name \in {"llms", "agents", "icp", "agentConfig"} -> 3
      [] name = "openapi" -> 4 [] name = "pricing" -> 5 [] name = "keyless" -> 6
      [] name \in {"typedAgent", "typedBrowser"} -> 7 [] name = "offer" -> 8
      [] name = "mcp" -> 9 [] name = "mcpInit" -> 10 [] name = "protected" -> 11
      [] name = "as" -> 12 [] name = "oidc" -> 13 [] name = "identity" -> 14
      [] name = "serverJson" -> 15 [] name = "remoteInit" -> 16 [] name = "tools" -> 17
      [] name \in {"dns", "registryAuth"} -> 18 [] name = "presence" -> 19
      [] name = "call" -> 22 [] name = "read" -> 23 [] name = "external" -> 24
      [] name = "stream" -> 25 [] name = "twin" -> 26 [] name = "gs1" -> 27
      [] name = "testSuite" -> 28 [] name = "row" -> 29 [] name = "vitestRun" -> 30
      [] name = "contract" -> 31
\* The widget's stages ask the remote again only if the registry's did not.
Turn(name, i) == Home(name) = i \/ (i = 20 /\ name = "remoteInit") \/ (i = 21 /\ name = "tools")

\* The remote that was asked is the registry's.
AskedOf(b, i) ==
    /\ i < 20 /\ Role("remoteInit") \in DOMAIN b =>
          Delegable(ServerRemote(b)) /\ b[Role("remoteInit")].at = ServerRemote(b)
    /\ i < 21 /\ Role("tools") \in DOMAIN b =>
          Delegable(ServerRemote(b)) /\ b[Role("tools")].at = ServerRemote(b)

\* Only rows, which have a budget of their own, may have one role.
OnceEach(b, q) ==
    /\ \A r \in q : r.role[1] # "row" => r.role \notin DOMAIN b
    /\ \A r, s \in q : r.role = s.role => r = s \/ r.role[1] = "row"

\* The exchanges that count.
Spent(b) == {role \in DOMAIN b : ~b[role].refused /\ ~OwnBudget(b, role)}

CountInv ==
    /\ site \in Sites /\ seed \in Seeds /\ lost \in 0 .. site.faults
    /\ IsFiniteSet(DOMAIN bundle) /\ used = Cardinality(Spent(bundle))
    /\ \A role \in DOMAIN bundle : bundle[role].refused \in BOOLEAN /\ Home(role[1]) \in 1 .. stage
    /\ \A r \in queue : Turn(r.role[1], stage)
    /\ OnceEach(bundle, queue)
    /\ AskedOf(bundle, stage)
    /\ stage \in {16, 17} => \A r \in queue : Delegable(ServerRemote(bundle)) /\ r.at = ServerRemote(bundle)
    /\ \A role \in DOMAIN bundle : role[1] = "testSuite" => Claim(bundle) # None

-----------------------------------------------------------------------------
(* What the stages before the offer ask.                                       *)

\* What was recorded of the card and the contract is what the site has.
Whole(s) == [role \in DOMAIN s.replies |-> s.replies[role].ev]
OfSite(b, s, name) == IsObject(Doc(b, name)) => Doc(b, name) = Doc(Whole(s), name)

FixedRoles ==
    {Role(n) : n \in {"rootAgent", "rootBrowser", "rootJson", "rootMarkdown",
                      "rootBrowserNav", "rootAgentUa", "llms", "agents", "icp", "agentConfig",
                      "openapi", "pricing", "offer"}}
    \cup {FaceRole(f) : f \in Faces}
TypedRoles(paths) == {TypedAgent(p) : p \in paths} \cup {TypedBrowser(p) : p \in paths}
\* Early roles: the fixed ones, the doors, and a sample of the typed bodies.
Early(paths) == FixedRoles \cup TypedRoles(paths)
IsDoor(role) == role[1] = "keyless" /\ role = Keyless(role[2])

FitInv ==
    /\ OfSite(bundle, site, "agents") /\ OfSite(bundle, site, "openapi")
    /\ stage <= 8 =>
        /\ Refused = {}
        /\ Cardinality(Probed(bundle, "keyless")) <= MaxKeylessTotal
        /\ \E paths : /\ IsFiniteSet(paths) /\ Cardinality(paths) <= MaxTyped
                      /\ \A role \in DOMAIN bundle : IsDoor(role) \/ role \in Early(paths)
                      /\ \A r \in queue : (stage = 6 /\ IsDoor(r.role)) \/ r.role \in Early(paths)

-----------------------------------------------------------------------------
(* Each stage asks under its own roles, and once under each.                 *)

TurnsIn(plan, i) == \A r \in plan : Turn(r.role[1], i)
Apart(plan) == \A r, s \in plan : r.role = s.role => r = s \/ r.role[1] = "row"
\* A plan of one request at most
Only(plan, name) == \A r, s \in plan : r = s /\ r.role = Role(name)

LEMMA IfOnly ==
    ASSUME NEW condition, NEW request, NEW name, request.role = Role(name)
    PROVE  Only(If(condition, request), name)
  BY DEF If, Only

LEMMA OnlyIsOrderly ==
    ASSUME NEW plan, NEW name, Only(plan, name), NEW i, Turn(name, i)
    PROVE  TurnsIn(plan, i) /\ Apart(plan)
  BY DEF Only, TurnsIn, Apart, Role

LEMMA SingleSurfaces ==
    ASSUME NEW b
    PROVE  /\ Only(PlanOpenapi(b), "openapi") /\ Only(PlanPricing(b), "pricing")
           /\ Only(PlanOffer(b), "offer")
<1>1. Only(PlanOpenapi(b), "openapi")
  <2> DEFINE at == IF Card(b).openapi = None THEN Self ELSE Card(b).openapi
  <2> HIDE DEF at
  <2>1. Only(If(Local(at), Get(Role("openapi"), at)), "openapi")
    BY Requests, IfOnly
  <2>2. QED
    BY <2>1 DEF PlanOpenapi, at
<1>2. Only(PlanPricing(b), "pricing")
  <2> DEFINE e == PricingEntry(Card(b))
  <2> HIDE DEF e
  <2>1. Only(If(e # None /\ e.method = "GET" /\ Local(e.at), Get(Role("pricing"), e.at)), "pricing")
    BY Requests, IfOnly
  <2>2. QED
    BY <2>1 DEF PlanPricing, e
<1>3. Only(PlanOffer(b), "offer")
  BY Requests, IfOnly DEF PlanOffer
<1>4. QED
  BY <1>1, <1>2, <1>3

LEMMA SingleMcp ==
    ASSUME NEW b
    PROVE  /\ Only(PlanMcp(b), "mcp") /\ Only(PlanMcpInit(b), "mcpInit")
           /\ Only(PlanProtected(b), "protected") /\ Only(PlanAs(b), "as")
           /\ Only(PlanOidc(b), "oidc") /\ Only(PlanIdentity(b), "identity")
<1>1. Only(PlanMcp(b), "mcp") /\ Only(PlanMcpInit(b), "mcpInit")
  BY Requests, IfOnly DEF PlanMcp, PlanMcpInit
<1>2. Only(PlanProtected(b), "protected") /\ Only(PlanAs(b), "as")
  BY Requests, IfOnly DEF PlanProtected, PlanAs
<1>3. Only(PlanOidc(b), "oidc") /\ Only(PlanIdentity(b), "identity")
  BY Requests, IfOnly DEF PlanOidc, PlanIdentity
<1>4. QED
  BY <1>1, <1>2, <1>3

LEMMA SingleRegistry ==
    ASSUME NEW b
    PROVE  /\ Only(PlanServerJson(b), "serverJson") /\ Only(PlanRemote(b), "remoteInit")
           /\ Only(PlanTools(b), "tools") /\ Only(PlanPresence(b), "presence")
<1>1. Only(PlanServerJson(b), "serverJson")
  <2> DEFINE at == IF Card(b).serverJson = None THEN Self ELSE Card(b).serverJson
  <2> HIDE DEF at
  <2>1. Only(If(Local(at), Get(Role("serverJson"), at)), "serverJson")
    BY Requests, IfOnly
  <2>2. QED
    BY <2>1 DEF PlanServerJson, at
<1>2. Only(PlanRemote(b), "remoteInit") /\ Only(PlanTools(b), "tools")
  BY Requests, IfOnly DEF PlanRemote, PlanTools
<1>3. Only(PlanPresence(b), "presence")
  BY Requests, IfOnly DEF PlanPresence
<1>4. QED
  BY <1>1, <1>2, <1>3

LEMMA SingleUi ==
    ASSUME NEW b
    PROVE  /\ Only(PlanUiInit(b), "remoteInit") /\ Only(PlanUiTools(b), "tools")
           /\ Only(PlanUiCall(b), "call") /\ Only(PlanUiRead(b), "read")
           /\ Only(PlanUiExternal(b), "external")
<1>1. Only(PlanUiInit(b), "remoteInit") /\ Only(PlanUiTools(b), "tools")
  BY Requests, IfOnly DEF PlanUiInit, PlanUiTools
<1>2. Only(PlanUiCall(b), "call") /\ Only(PlanUiRead(b), "read")
  BY Requests, IfOnly DEF PlanUiCall, PlanUiRead
<1>3. Only(PlanUiExternal(b), "external")
  BY Requests, IfOnly DEF PlanUiExternal
<1>4. QED
  BY <1>1, <1>2, <1>3

LEMMA SingleLast ==
    ASSUME NEW b
    PROVE  /\ Only(PlanStream(b), "stream") /\ Only(PlanTwin(b), "twin")
           /\ Only(PlanDigitalLink(b), "gs1") /\ Only(PlanSuite(b), "testSuite")
           /\ Only(PlanRun(b), "vitestRun")
<1>1. Only(PlanStream(b), "stream") /\ Only(PlanTwin(b), "twin")
  BY Requests, IfOnly DEF PlanStream, PlanTwin
<1>2. Only(PlanDigitalLink(b), "gs1")
  <2> DEFINE dl == Card(b).digitalLink
  <2> HIDE DEF dl
  <2>1. Only(If(dl # None /\ ~dl.malformed /\ Local(dl.at), Get(Role("gs1"), dl.at)), "gs1")
    BY Requests, IfOnly
  <2>2. QED
    BY <2>1 DEF PlanDigitalLink, dl
<1>3. Only(PlanSuite(b), "testSuite") /\ Only(PlanRun(b), "vitestRun")
  BY Requests, IfOnly DEF PlanSuite, PlanRun
<1>4. QED
  BY <1>1, <1>2, <1>3

\* The plans of several requests.
LEMMA RootOrderly == TurnsIn(PlanRoot, 1) /\ Apart(PlanRoot)
<1> DEFINE names == <<"rootAgent", "rootBrowser", "rootJson", "rootMarkdown",
                      "rootBrowserNav", "rootAgentUa">>
           q(i) == InTurn(i, Get(Role(names[i]), Self))
<1>1. \A r \in PlanRoot : \E i \in 1 .. 6 : r = q(i) /\ r.role = Role(names[i])
  BY Requests DEF PlanRoot
<1>2. /\ \A i \in 1 .. 6 : Turn(names[i], 1)
      /\ \A i, j \in 1 .. 6 : names[i] = names[j] => i = j
  BY DEF Turn, Home
<1> HIDE DEF names
<1>3. TurnsIn(PlanRoot, 1)
  BY <1>1, <1>2 DEF TurnsIn, Role
<1>4. Apart(PlanRoot)
  BY <1>1, <1>2 DEF Apart, Role
<1>5. QED
  BY <1>3, <1>4

LEMMA TextsOrderly == TurnsIn(PlanTexts, 3) /\ Apart(PlanTexts)
<1> DEFINE names == <<"llms", "agents", "icp", "agentConfig">>
           q(i) == InTurn(i, Get(Role(names[i]), Self))
<1>1. \A r \in PlanTexts : \E i \in 1 .. 4 : r = q(i) /\ r.role = Role(names[i])
  BY Requests DEF PlanTexts
<1>2. /\ \A i \in 1 .. 4 : Turn(names[i], 3)
      /\ \A i, j \in 1 .. 4 : names[i] = names[j] => i = j
  BY DEF Turn, Home
<1> HIDE DEF names
<1>3. TurnsIn(PlanTexts, 3)
  BY <1>1, <1>2 DEF TurnsIn, Role
<1>4. Apart(PlanTexts)
  BY <1>1, <1>2 DEF Apart, Role
<1>5. QED
  BY <1>3, <1>4

LEMMA FacesOrderly == ASSUME NEW b PROVE TurnsIn(PlanFaces(b), 2) /\ Apart(PlanFaces(b))
<1> DEFINE q(f) == InTurn(PlaceIn(<<"html", "json", "md">>, f), Get(FaceRole(f), Advertised(b, f)))
<1>1. \A r \in PlanFaces(b) : \E f : r = q(f) /\ r.role = FaceRole(f)
  BY Requests DEF PlanFaces
<1> HIDE DEF q
<1>2. QED
  BY <1>1 DEF TurnsIn, Apart, FaceRole, Turn, Home

LEMMA DoorsOrderly == ASSUME NEW b PROVE TurnsIn(PlanDoors(b), 6) /\ Apart(PlanDoors(b))
<1> DEFINE q(p) == InTurn(PlaceIn(seed.doors, p) + IF p \in Hinted(b) THEN 0 ELSE Len(seed.doors),
                          Get(Keyless(p), Self))
<1>1. \A r \in PlanDoors(b) : \E p : r = q(p) /\ r.role = Keyless(p)
  BY Requests DEF PlanDoors
<1> HIDE DEF q
<1>2. QED
  BY <1>1 DEF TurnsIn, Apart, Keyless, Turn, Home

\* Of the paths that are sampled
SampledPaths(b) ==
    LET place == [p \in Candidates(b) |-> PlaceIn(seed.typed, p)]
    IN  Foremost(DOMAIN place, MaxTyped, place)

LEMMA TypedAre ==
    ASSUME NEW b, NEW r \in PlanTyped(b)
    PROVE  \E p \in SampledPaths(b) :
              LET place == [x \in Candidates(b) |-> PlaceIn(seed.typed, x)]
              IN  \/ r = InTurn(2 * place[p], Get(TypedAgent(p), Self)) /\ r.role = TypedAgent(p)
                  \/ /\ r = InTurn(2 * place[p] + 1, Get(TypedBrowser(p), Self))
                     /\ r.role = TypedBrowser(p)
<1> DEFINE place == [x \in Candidates(b) |-> PlaceIn(seed.typed, x)]
           paths == Foremost(DOMAIN place, MaxTyped, place) \ Astray
           agents == {InTurn(2 * place[p], Get(TypedAgent(p), Self)) : p \in paths}
           browsers == {InTurn(2 * place[p] + 1, Get(TypedBrowser(p), Self)) : p \in paths}
<1>1. PlanTyped(b) \subseteq agents \cup browsers /\ paths \subseteq SampledPaths(b)
  BY DEF PlanTyped, SampledPaths
<1> HIDE DEF place, paths
<1>2. \/ \E p \in paths : r = InTurn(2 * place[p], Get(TypedAgent(p), Self))
      \/ \E p \in paths : r = InTurn(2 * place[p] + 1, Get(TypedBrowser(p), Self))
  BY <1>1
<1>3. \E p \in SampledPaths(b) :
         \/ r = InTurn(2 * place[p], Get(TypedAgent(p), Self)) /\ r.role = TypedAgent(p)
         \/ /\ r = InTurn(2 * place[p] + 1, Get(TypedBrowser(p), Self))
            /\ r.role = TypedBrowser(p)
  BY <1>1, <1>2, Requests
<1>4. QED
  BY <1>3 DEF place

LEMMA TypedOrderly == ASSUME NEW b PROVE TurnsIn(PlanTyped(b), 7) /\ Apart(PlanTyped(b))
<1> DEFINE place == [x \in Candidates(b) |-> PlaceIn(seed.typed, x)]
           agent(p) == InTurn(2 * place[p], Get(TypedAgent(p), Self))
           browser(p) == InTurn(2 * place[p] + 1, Get(TypedBrowser(p), Self))
<1>1. \A r \in PlanTyped(b) : \E p : \/ r = agent(p) /\ r.role = TypedAgent(p)
                                     \/ r = browser(p) /\ r.role = TypedBrowser(p)
  BY TypedAre
<1> HIDE DEF agent, browser
<1>2. QED
  BY <1>1 DEF TurnsIn, Apart, TypedAgent, TypedBrowser, Turn, Home

LEMMA OwnershipOrderly ==
    ASSUME NEW b PROVE TurnsIn(PlanOwnership(b), 18) /\ Apart(PlanOwnership(b))
<1> DEFINE dns == Get(Role("dns"), Doh)
           auth == InTurn(2, Get(Role("registryAuth"), Domain(b)))
<1>1. PlanOwnership(b) \subseteq {dns, auth}
  BY DEF PlanOwnership, If
<1>2. dns.role = Role("dns") /\ auth.role = Role("registryAuth")
  BY Requests
<1> HIDE DEF dns, auth
<1>3. QED
  BY <1>1, <1>2 DEF TurnsIn, Apart, Role, Turn, Home

LEMMA RowsOrderly == ASSUME NEW b PROVE TurnsIn(PlanRows(b), 29) /\ Apart(PlanRows(b))
<1>1. \A r \in PlanRows(b) : \E id : r.role = Row(id)
  BY Requests DEF PlanRows
<1>2. QED
  BY <1>1 DEF TurnsIn, Apart, Row, Turn, Home

LEMMA ContractOrderly == ASSUME NEW b PROVE TurnsIn(PlanContract(b), 31) /\ Apart(PlanContract(b))
<1> DEFINE rest == {p \in Candidates(b) \ Astray : Keyless(p) \notin DOMAIN b}
           paths == Foremost(rest, MaxContract, [x \in rest |-> x])
           q(p) == InTurn(p, Get(Contract(p), Self))
<1>1. PlanContract(b) = {q(p) : p \in paths}
  BY DEF PlanContract
<1> HIDE DEF paths
<1>2. \A r \in PlanContract(b) : \E p : r = q(p) /\ r.role = Contract(p)
  BY <1>1, Requests
<1> HIDE DEF q
<1>3. QED
  BY <1>2 DEF TurnsIn, Apart, Contract, Turn, Home

LEMMA StagePlan ==
    ASSUME NEW b
    PROVE  /\ Plan(Stages[1], b) = PlanRoot /\ Plan(Stages[2], b) = PlanFaces(b)
           /\ Plan(Stages[3], b) = PlanTexts /\ Plan(Stages[4], b) = PlanOpenapi(b)
           /\ Plan(Stages[5], b) = PlanPricing(b) /\ Plan(Stages[6], b) = PlanDoors(b)
           /\ Plan(Stages[7], b) = PlanTyped(b) /\ Plan(Stages[8], b) = PlanOffer(b)
           /\ Plan(Stages[9], b) = PlanMcp(b) /\ Plan(Stages[10], b) = PlanMcpInit(b)
           /\ Plan(Stages[11], b) = PlanProtected(b) /\ Plan(Stages[12], b) = PlanAs(b)
           /\ Plan(Stages[13], b) = PlanOidc(b) /\ Plan(Stages[14], b) = PlanIdentity(b)
           /\ Plan(Stages[15], b) = PlanServerJson(b) /\ Plan(Stages[16], b) = PlanRemote(b)
           /\ Plan(Stages[17], b) = PlanTools(b) /\ Plan(Stages[18], b) = PlanOwnership(b)
           /\ Plan(Stages[19], b) = PlanPresence(b) /\ Plan(Stages[20], b) = PlanUiInit(b)
           /\ Plan(Stages[21], b) = PlanUiTools(b) /\ Plan(Stages[22], b) = PlanUiCall(b)
           /\ Plan(Stages[23], b) = PlanUiRead(b) /\ Plan(Stages[24], b) = PlanUiExternal(b)
           /\ Plan(Stages[25], b) = PlanStream(b) /\ Plan(Stages[26], b) = PlanTwin(b)
           /\ Plan(Stages[27], b) = PlanDigitalLink(b) /\ Plan(Stages[28], b) = PlanSuite(b)
           /\ Plan(Stages[29], b) = PlanRows(b) /\ Plan(Stages[30], b) = PlanRun(b)
           /\ Plan(Stages[31], b) = PlanContract(b)
  BY DEF Plan, Stages

LEMMA StageOrderly ==
    ASSUME NEW b, NEW i \in DOMAIN Stages
    PROVE  TurnsIn(Plan(Stages[i], b), i) /\ Apart(Plan(Stages[i], b))
<1>1. i \in 1 .. 31
  BY DEF Stages
<1>2. CASE i \in {1, 2, 3, 6, 7}
  BY <1>2, StagePlan, RootOrderly, TextsOrderly, FacesOrderly, DoorsOrderly, TypedOrderly
<1>3. CASE i \in {18, 29, 31}
  BY <1>3, StagePlan, OwnershipOrderly, RowsOrderly, ContractOrderly
<1>4. CASE i \in {4, 5, 8}
  <2>1. Turn("openapi", 4) /\ Turn("pricing", 5) /\ Turn("offer", 8)
    BY DEF Turn, Home
  <2>2. QED
    BY <1>4, <2>1, StagePlan, SingleSurfaces, OnlyIsOrderly
<1>5. CASE i \in 9 .. 14
  <2>1. /\ Turn("mcp", 9) /\ Turn("mcpInit", 10) /\ Turn("protected", 11) /\ Turn("as", 12)
        /\ Turn("oidc", 13) /\ Turn("identity", 14)
    BY DEF Turn, Home
  <2>2. QED
    BY <1>5, <2>1, StagePlan, SingleMcp, OnlyIsOrderly
<1>6. CASE i \in {15, 16, 17, 19}
  <2>1. Turn("serverJson", 15) /\ Turn("remoteInit", 16) /\ Turn("tools", 17) /\ Turn("presence", 19)
    BY DEF Turn, Home
  <2>2. QED
    BY <1>6, <2>1, StagePlan, SingleRegistry, OnlyIsOrderly
<1>7. CASE i \in 20 .. 24
  <2>1. /\ Turn("remoteInit", 20) /\ Turn("tools", 21) /\ Turn("call", 22) /\ Turn("read", 23)
        /\ Turn("external", 24)
    BY DEF Turn, Home
  <2>2. QED
    BY <1>7, <2>1, StagePlan, SingleUi, OnlyIsOrderly
<1>8. CASE i \in {25, 26, 27, 28, 30}
  <2>1. /\ Turn("stream", 25) /\ Turn("twin", 26) /\ Turn("gs1", 27) /\ Turn("testSuite", 28)
        /\ Turn("vitestRun", 30)
    BY DEF Turn, Home
  <2>2. QED
    BY <1>8, <2>1, StagePlan, SingleLast, OnlyIsOrderly
<1>9. QED
  BY <1>1, <1>2, <1>3, <1>4, <1>5, <1>6, <1>7, <1>8

-----------------------------------------------------------------------------
(* What one exchange adds.                                                   *)

\* An exchange that was made, as the site's are
Sound(ev) == DOMAIN ev = DOMAIN NoAnswer /\ ev.refused = FALSE

LEMMA Fields == {"st", "refused", "body", "doc", "at"} \subseteq DOMAIN NoAnswer
  BY DEF NoAnswer

LEMMA SoundWith ==
    ASSUME NEW ev, Sound(ev), NEW field \in DOMAIN NoAnswer \ {"refused"}, NEW v
    PROVE  /\ Sound([ev EXCEPT ![field] = v]) /\ [ev EXCEPT ![field] = v][field] = v
           /\ \A other \in DOMAIN NoAnswer : other # field =>
                 [ev EXCEPT ![field] = v][other] = ev[other]
  BY Fields DEF Sound

LEMMA NoAnswerSound == Sound(NoAnswer) /\ NoAnswer.body = "none" /\ NoAnswer.st = 0
  BY DEF Sound, NoAnswer

LEMMA NotFoundSound == Sound(NotFound) /\ NotFound.body = "text"
  BY DEF Sound, NoAnswer, NotFound

LEMMA ReplySound ==
    ASSUME site \in Sites, NEW role
    PROVE  Sound(Reply(role).ev) /\ Reply(role).size \in {"small", "declared", "large"}
<1>1. CASE role \in DOMAIN site.replies
  BY <1>1, SitesAssumption DEF Reply, Sound
<1>2. CASE role \notin DOMAIN site.replies
  BY <1>2, NotFoundSound DEF Reply
<1>3. QED
  BY <1>1, <1>2

\* What is read of a body is the site's document or none.
LEMMA ReadSound ==
    ASSUME NEW reply, Sound(reply.ev), reply.size \in {"small", "declared", "large"}
    PROVE  /\ Sound(Read(reply))
           /\ IsObject(Json(Read(reply))) => Json(Read(reply)) = Json(reply.ev)
<1> DEFINE ev == reply.ev
<1>1. CASE reply.size = "small"
  BY <1>1 DEF Read
<1>2. ASSUME NEW kind
      PROVE  LET cut == [ev EXCEPT !.body = kind, !.doc = None]
             IN  Sound(cut) /\ (kind # "json" => ~IsObject(Json(cut)))
  <2> DEFINE shorter == [ev EXCEPT !["body"] = kind]
             cut == [shorter EXCEPT !["doc"] = None]
  <2>1. Sound(shorter) /\ shorter["body"] = kind
    BY Fields, SoundWith
  <2> HIDE DEF shorter
  <2>2. Sound(cut) /\ cut["body"] = shorter["body"]
    BY <2>1, Fields, SoundWith
  <2>3. cut = [ev EXCEPT !.body = kind, !.doc = None]
    BY DEF shorter
  <2> HIDE DEF cut
  <2>4. kind # "json" => ~IsObject(Json(cut))
    BY <2>1, <2>2 DEF Json, IsObject
  <2>5. QED
    BY <2>2, <2>3, <2>4
<1>3. CASE reply.size = "declared"
  BY <1>2, <1>3 DEF Read
<1>4. CASE reply.size = "large"
  BY <1>2, <1>4 DEF Read
<1>5. QED
  BY <1>1, <1>3, <1>4

LEMMA AnswerSound ==
    ASSUME site \in Sites, NEW request
    PROVE  /\ Sound(Answer(request)) /\ Answer(request).at = request.at
           /\ IsObject(Json(Answer(request))) =>
                 Json(Answer(request)) = Json(Reply(request.role).ev)
<1> DEFINE reply == Reply(request.role)
           moved == [NotFound EXCEPT !.st = 307]
           ev == CASE Followed(request) = reply.via -> Read(reply)
                   [] Followed(request) # reply.via /\ request.post -> moved
                   [] OTHER -> NoAnswer
<1>1. Sound(reply.ev) /\ reply.size \in {"small", "declared", "large"}
  BY ReplySound
<1>2. /\ Sound(Read(reply))
      /\ IsObject(Json(Read(reply))) => Json(Read(reply)) = Json(reply.ev)
  BY <1>1, ReadSound
<1>3. Sound(moved) /\ moved.body = "text"
  <2>1. /\ Sound([NotFound EXCEPT !["st"] = 307])
        /\ [NotFound EXCEPT !["st"] = 307]["body"] = NotFound["body"]
    BY NotFoundSound, Fields, SoundWith
  <2>2. QED
    BY <2>1, NotFoundSound
<1> HIDE DEF moved, reply
<1>4. Sound(ev) /\ (IsObject(Json(ev)) => Json(ev) = Json(reply.ev))
  <2>1. ~IsObject(Json(moved)) /\ ~IsObject(Json(NoAnswer))
    BY <1>3, NoAnswerSound DEF Json, IsObject
  <2>2. CASE Followed(request) = reply.via
    BY <1>2, <2>2
  <2>3. CASE Followed(request) # reply.via
    BY <1>3, <2>1, <2>3, NoAnswerSound
  <2>4. QED
    BY <2>2, <2>3
<1>5. Answer(request) = [ev EXCEPT !["at"] = request.at]
  BY DEF Answer, reply, moved
<1> HIDE DEF ev
<1>6. /\ Sound([ev EXCEPT !["at"] = request.at]) /\ [ev EXCEPT !["at"] = request.at]["at"] = request.at
      /\ \A other \in DOMAIN NoAnswer : other # "at" =>
            [ev EXCEPT !["at"] = request.at][other] = ev[other]
  BY <1>4, Fields, SoundWith
<1>7. Json([ev EXCEPT !["at"] = request.at]) = Json(ev)
  BY <1>6, Fields DEF Json
<1>8. QED
  BY <1>4, <1>5, <1>6, <1>7 DEF reply

\* What is recorded of a request, answered or not.
LEMMA ExchangedSound ==
    ASSUME site \in Sites, NEW request, NEW answered \in BOOLEAN
    PROVE  /\ Sound(Exchanged(request, answered))
           /\ request.role # Role("vitestRun") =>
                 /\ Exchanged(request, answered).at = request.at
                 /\ IsObject(Json(Exchanged(request, answered))) =>
                       Json(Exchanged(request, answered)) = Json(Reply(request.role).ev)
<1>1. CASE request.role = Role("vitestRun")
  <2> DEFINE run == Answer(Get(Role("vitestRun"), Address(Claim(bundle))))
             outcome == site.replies[Role("vitestRun")].ev.doc
             doc == [digest |-> Claim(bundle).digest, results |-> outcome.results,
                     outcome |-> IF answered THEN outcome.outcome ELSE "failed"]
  <2>1. Sound(run)
    BY AnswerSound
  <2>2. Exchanged(request, answered) = [run EXCEPT !["doc"] = doc]
    BY <1>1 DEF Exchanged, RunOf
  <2> HIDE DEF run, doc
  <2>3. Sound([run EXCEPT !["doc"] = doc])
    BY <2>1, Fields, SoundWith
  <2>4. QED
    BY <1>1, <2>2, <2>3
<1>2. CASE request.role # Role("vitestRun") /\ answered
  BY <1>2, AnswerSound DEF Exchanged
<1>3. CASE request.role # Role("vitestRun") /\ ~answered
  <2> DEFINE none == [NoAnswer EXCEPT !["at"] = request.at]
  <2>1. Exchanged(request, answered) = none
    BY <1>3 DEF Exchanged
  <2>2. Sound(none) /\ none["at"] = request.at /\ none["st"] = NoAnswer["st"]
    BY NoAnswerSound, Fields, SoundWith
  <2> HIDE DEF none
  <2>3. ~IsObject(Json(none))
    BY <2>2, NoAnswerSound DEF Json, IsObject
  <2>4. QED
    BY <2>1, <2>2, <2>3
<1>4. QED
  BY <1>1, <1>2, <1>3

\* Beyond the budget what is recorded is a refusal.
LEMMA RefusedIs ==
    ASSUME NEW at
    PROVE  LET ev == [NoAnswer EXCEPT !.at = at, !.refused = TRUE]
           IN  ev.refused = TRUE /\ ev.at = at /\ ~IsObject(Json(ev))
  BY DEF NoAnswer, Json, IsObject

\* A budget of its own stays one.
LEMMA OwnStays ==
    ASSUME NEW b, NEW c, Extends(b, c), NEW role, role[1] = "testSuite" => Claim(b) # None
    PROVE  OwnBudget(c, role) <=> OwnBudget(b, role)
<1>1. role[1] = "testSuite" => Claim(c) = Claim(b)
  BY ClaimStays
<1>2. QED
  BY <1>1 DEF OwnBudget

LEMMA RecordValue ==
    ASSUME NEW b, NEW role, NEW ev
    PROVE  role \notin DOMAIN b => Record(b, role, ev)[role] = ev
  BY DEF Record

\* What is spent by an exchange that is recorded.
LEMMA SpentGrows ==
    ASSUME NEW b, IsFiniteSet(DOMAIN b), NEW role, NEW ev, ev.refused \in BOOLEAN,
           NEW c, c = Record(b, role, ev),
           role \in DOMAIN b => OwnBudget(b, role),
           \A r \in DOMAIN b \cup {role} : r[1] = "testSuite" => Claim(b) # None
    PROVE  /\ IsFiniteSet(DOMAIN c) /\ IsFiniteSet(Spent(b)) /\ Cardinality(Spent(b)) \in Nat
           /\ Cardinality(Spent(c)) = IF ev.refused \/ OwnBudget(b, role)
                                      THEN Cardinality(Spent(b)) ELSE Cardinality(Spent(b)) + 1
<1>1. Extends(b, c) /\ DOMAIN c = DOMAIN b \cup {role} /\ (role \notin DOMAIN b => c[role] = ev)
  BY RecordKeeps, RecordValue
<1>2. IsFiniteSet(DOMAIN c)
  BY <1>1, FS_AddElement
<1>3. IsFiniteSet(Spent(b)) /\ Cardinality(Spent(b)) \in Nat
  <2>1. Spent(b) \in SUBSET DOMAIN b
    BY DEF Spent
  <2>2. QED
    BY <2>1, FS_Subset, FS_CardinalityType
<1>4. \A r \in DOMAIN b \cup {role} : OwnBudget(c, r) <=> OwnBudget(b, r)
  BY <1>1, OwnStays
<1>5. \A r \in DOMAIN b : c[r] = b[r]
  BY <1>1 DEF Extends
<1>6. CASE ev.refused \/ OwnBudget(b, role)
  <2>1. Spent(c) = Spent(b)
    BY <1>1, <1>4, <1>5, <1>6 DEF Spent
  <2>2. QED
    BY <1>2, <1>3, <1>6, <2>1
<1>7. CASE ~(ev.refused \/ OwnBudget(b, role))
  <2>1. role \notin Spent(b) /\ Spent(c) = Spent(b) \cup {role}
    BY <1>1, <1>4, <1>5, <1>7 DEF Spent
  <2>2. Cardinality(Spent(b) \cup {role}) = Cardinality(Spent(b)) + 1
    BY <1>3, <2>1, FS_AddElement
  <2>3. QED
    BY <1>2, <1>3, <1>7, <2>1, <2>2
<1>8. QED
  BY <1>6, <1>7

-----------------------------------------------------------------------------
(* Each step keeps the count.                                                *)

\* A role has its turn once, but for the remote's; so it is not recorded before.
LEMMA TurnHome ==
    ASSUME NEW name, NEW i \in 1 .. 31, Turn(name, i)
    PROVE  Home(name) \in 1 .. i
<1>1. Home("remoteInit") = 16 /\ Home("tools") = 17
  BY DEF Home
<1>2. QED
  BY <1>1 DEF Turn

LEMMA UiAsksAnew ==
    ASSUME NEW b
    PROVE  /\ AskedOf(b, 19) => \A r \in PlanUiInit(b) : r.role \notin DOMAIN b
           /\ AskedOf(b, 20) => \A r \in PlanUiTools(b) : r.role \notin DOMAIN b
<1>1. ASSUME NEW name, Role(name) \in DOMAIN b, Delegable(ServerRemote(b)),
             b[Role(name)].at = ServerRemote(b)
      PROVE  Recorded(b, name, UiRemote(b))
  BY <1>1 DEF Recorded, UiRemote, Ev, Find
<1>2. ASSUME AskedOf(b, 19), NEW r \in PlanUiInit(b) PROVE r.role \notin DOMAIN b
  <2>1. r.role = Role("remoteInit")
    BY <1>2, SingleUi DEF Only
  <2>2. ~Recorded(b, "remoteInit", UiRemote(b))
    BY <1>2 DEF PlanUiInit, If
  <2>3. QED
    BY <1>1, <1>2, <2>1, <2>2 DEF AskedOf
<1>3. ASSUME AskedOf(b, 20), NEW r \in PlanUiTools(b) PROVE r.role \notin DOMAIN b
  <2>1. r.role = Role("tools")
    BY <1>3, SingleUi DEF Only
  <2>2. ~Recorded(b, "tools", UiRemote(b))
    BY <1>3 DEF PlanUiTools, If
  <2>3. QED
    BY <1>1, <1>3, <2>1, <2>2 DEF AskedOf
<1>4. QED
  BY <1>2, <1>3

LEMMA CountInit == Init => CountInv
<1> SUFFICES ASSUME Init PROVE CountInv
  OBVIOUS
<1>1. /\ site \in Sites /\ seed \in Seeds /\ lost = 0 /\ stage = 1 /\ queue = PlanRoot
      /\ used = 0 /\ DOMAIN bundle = {}
  BY DEF Init
<1>2. site.faults \in Nat
  BY <1>1, SitesAssumption
<1>3. Spent(bundle) = {}
  BY <1>1 DEF Spent
<1>4. IsFiniteSet(DOMAIN bundle) /\ used = Cardinality(Spent(bundle))
  BY <1>1, <1>3, FS_EmptySet
<1>5. \A r \in queue : Turn(r.role[1], stage)
  BY <1>1, RootOrderly DEF TurnsIn
<1>6. OnceEach(bundle, queue)
  BY <1>1, RootOrderly DEF OnceEach, Apart
<1>7. AskedOf(bundle, stage)
  BY <1>1 DEF AskedOf
<1>8. QED
  BY <1>1, <1>2, <1>4, <1>5, <1>6, <1>7 DEF CountInv

LEMMA CountNextStage == ASSUME IInv, CountInv, NextStage PROVE CountInv'
<1>1. /\ stage \in 1 .. 30 /\ stage' = stage + 1 /\ queue' = Plan(Stages[stage + 1], bundle)
      /\ UNCHANGED <<site, seed, bundle, used, lost>>
  BY DEF NextStage, IInv, Stages
<1>2. TurnsIn(queue', stage + 1) /\ Apart(queue')
  <2>1. stage + 1 \in DOMAIN Stages
    BY <1>1 DEF Stages
  <2>2. QED
    BY <1>1, <2>1, StageOrderly
<1>3. ASSUME NEW r \in queue', r.role \in DOMAIN bundle PROVE FALSE
  <2>1. Home(r.role[1]) \in 1 .. stage
    BY <1>3 DEF CountInv
  <2>2. \/ stage + 1 = 20 /\ r.role[1] = "remoteInit"
        \/ stage + 1 = 21 /\ r.role[1] = "tools"
    BY <1>1, <1>2, <1>3, <2>1 DEF TurnsIn, Turn
  <2>3. CASE stage + 1 = 20
    BY <1>1, <1>3, <2>3, StagePlan, UiAsksAnew DEF CountInv
  <2>4. CASE stage + 1 = 21
    BY <1>1, <1>3, <2>4, StagePlan, UiAsksAnew DEF CountInv
  <2>5. QED
    BY <2>2, <2>3, <2>4
<1>4. OnceEach(bundle', queue')
  BY <1>1, <1>2, <1>3 DEF OnceEach, Apart
<1>5. AskedOf(bundle', stage')
  BY <1>1 DEF AskedOf, CountInv
<1>6. stage' \in {16, 17} =>
         \A r \in queue' : Delegable(ServerRemote(bundle)) /\ r.at = ServerRemote(bundle)
  <2>1. CASE stage' = 16
    <3>1. queue' = PlanRemote(bundle)
      BY <1>1, <2>1, StagePlan
    <3>2. QED
      BY <3>1, Requests DEF PlanRemote, If
  <2>2. CASE stage' = 17
    <3>1. queue' = PlanTools(bundle)
      BY <1>1, <2>2, StagePlan
    <3>2. QED
      BY <3>1, Requests DEF PlanTools, If
  <2>3. QED
    BY <2>1, <2>2
<1>7. \A role \in DOMAIN bundle : bundle[role].refused \in BOOLEAN /\ Home(role[1]) \in 1 .. stage'
  BY <1>1 DEF CountInv
<1>8. Spent(bundle') = Spent(bundle)
  BY <1>1
<1>9. QED
  BY <1>1, <1>2, <1>4, <1>5, <1>6, <1>7, <1>8 DEF CountInv, TurnsIn

\* A request that is made, or refused.
Recording(request, ev) ==
    /\ request \in queue /\ ev.refused \in BOOLEAN
    /\ request.role # Role("vitestRun") => ev.at = request.at
    /\ bundle' = Record(bundle, request.role, ev) /\ queue' = queue \ {request}
    /\ UNCHANGED <<site, seed, stage>> /\ lost' \in 0 .. site.faults
    /\ used' = IF ev.refused \/ OwnBudget(bundle, request.role) THEN used ELSE used + 1

LEMMA CountRecord ==
    ASSUME IInv, CountInv, NEW request, NEW ev, Recording(request, ev)
    PROVE  CountInv'
<1> DEFINE role == request.role
<1> USE DEF Recording
<1>1. /\ Extends(bundle, bundle') /\ DOMAIN bundle' = DOMAIN bundle \cup {role}
      /\ role \notin DOMAIN bundle => bundle'[role] = ev
  BY RecordKeeps, RecordValue
<1>2. /\ stage \in 1 .. 31 /\ Turn(role[1], stage)
      /\ Backed(bundle, role, request.at)
      /\ role \in DOMAIN bundle => role[1] = "row"
  BY DEF CountInv, IInv, Stages, OnceEach, PlanBacked
<1>3. \A r \in DOMAIN bundle \cup {role} : r[1] = "testSuite" => Claim(bundle) # None
  BY <1>2 DEF CountInv, Backed
<1>4. IsFiniteSet(DOMAIN bundle') /\ used' = Cardinality(Spent(bundle'))
  <2>1. role \in DOMAIN bundle => OwnBudget(bundle, role)
    BY <1>2 DEF OwnBudget
  <2>2. IsFiniteSet(DOMAIN bundle) /\ used = Cardinality(Spent(bundle))
    BY DEF CountInv
  <2>3. /\ IsFiniteSet(DOMAIN bundle') /\ IsFiniteSet(Spent(bundle))
        /\ Cardinality(Spent(bundle)) \in Nat
        /\ Cardinality(Spent(bundle')) = IF ev.refused \/ OwnBudget(bundle, role)
                                         THEN Cardinality(Spent(bundle))
                                         ELSE Cardinality(Spent(bundle)) + 1
    BY <1>3, <2>1, <2>2, SpentGrows
  <2>4. QED
    BY <2>2, <2>3
<1>5. \A r \in DOMAIN bundle' : bundle'[r].refused \in BOOLEAN /\ Home(r[1]) \in 1 .. stage'
  <2>1. Home(role[1]) \in 1 .. stage
    BY <1>2, TurnHome
  <2>2. \A r \in DOMAIN bundle : bundle'[r] = bundle[r]
    BY <1>1 DEF Extends
  <2>3. QED
    BY <1>1, <2>1, <2>2 DEF CountInv
<1>6. \A r \in queue' : Turn(r.role[1], stage')
  BY DEF CountInv
<1>7. OnceEach(bundle', queue')
  <2>1. ASSUME NEW r \in queue', r.role[1] # "row" PROVE r.role \notin DOMAIN bundle'
    BY <1>1, <2>1 DEF CountInv, OnceEach
  <2>2. QED
    BY <2>1 DEF CountInv, OnceEach
<1>8. ServerRemote(bundle) # None => ServerRemote(bundle') = ServerRemote(bundle)
  BY <1>1, ServerRemoteStays
<1>9. AskedOf(bundle', stage')
  <2>1. \A r \in DOMAIN bundle : bundle'[r] = bundle[r]
    BY <1>1 DEF Extends
  <2>2. ASSUME NEW name \in {"remoteInit", "tools"},
               stage < IF name = "remoteInit" THEN 20 ELSE 21, Role(name) \in DOMAIN bundle'
        PROVE  Delegable(ServerRemote(bundle')) /\ bundle'[Role(name)].at = ServerRemote(bundle')
    <3>1. CASE Role(name) \in DOMAIN bundle
      BY <1>8, <2>1, <2>2, <3>1 DEF CountInv, AskedOf, Delegable
    <3>2. CASE Role(name) \notin DOMAIN bundle
      <4>1. role = Role(name) /\ role[1] = name /\ role # Role("vitestRun")
        BY <1>1, <2>2, <3>2 DEF Role
      <4>2. stage \in {16, 17}
        BY <1>2, <2>2, <4>1 DEF Turn, Home
      <4>3. Delegable(ServerRemote(bundle)) /\ request.at = ServerRemote(bundle)
        BY <4>2 DEF CountInv
      <4>4. bundle'[Role(name)] = ev /\ ev.at = request.at
        BY <1>1, <3>2, <4>1
      <4>5. QED
        BY <1>8, <4>3, <4>4 DEF Delegable
    <3>3. QED
      BY <3>1, <3>2
  <2>3. QED
    BY <2>2 DEF AskedOf
<1>10. stage' \in {16, 17} =>
          \A r \in queue' : Delegable(ServerRemote(bundle')) /\ r.at = ServerRemote(bundle')
  BY <1>8 DEF CountInv, Delegable
<1>11. \A r \in DOMAIN bundle' : r[1] = "testSuite" => Claim(bundle') # None
  BY <1>1, <1>3, ClaimStays
<1>12. QED
  BY <1>4, <1>5, <1>6, <1>7, <1>9, <1>10, <1>11 DEF CountInv

LEMMA CountSend ==
    ASSUME IInv, CountInv, NEW request \in queue, NEW answered \in BOOLEAN, Send(request, answered)
    PROVE  CountInv'
<1> DEFINE ev == Exchanged(request, answered)
<1>1. /\ bundle' = Record(bundle, request.role, ev) /\ queue' = queue \ {request}
      /\ UNCHANGED <<site, seed, stage>>
      /\ used' = IF OwnBudget(bundle, request.role) THEN used ELSE used + 1
      /\ lost' = IF answered THEN lost ELSE lost + 1
      /\ answered \/ lost < site.faults
  BY DEF Send
<1>2. site \in Sites
  BY DEF CountInv
<1>3. ev.refused = FALSE /\ (request.role # Role("vitestRun") => ev.at = request.at)
  BY <1>2, ExchangedSound DEF Sound
<1>4. lost' \in 0 .. site.faults
  BY <1>1, <1>2, SitesAssumption DEF CountInv
<1> HIDE DEF ev
<1>5. Recording(request, ev)
  BY <1>1, <1>3, <1>4 DEF Recording
<1>6. QED
  BY <1>5, CountRecord

LEMMA CountRefuse ==
    ASSUME IInv, CountInv, NEW request \in queue, Refuse(request) PROVE CountInv'
<1> DEFINE ev == [NoAnswer EXCEPT !.at = request.at, !.refused = TRUE]
<1>1. /\ bundle' = Record(bundle, request.role, ev) /\ queue' = queue \ {request}
      /\ UNCHANGED <<site, seed, stage, lost, used>>
  BY DEF Refuse
<1>2. ev.refused = TRUE /\ ev.at = request.at
  BY RefusedIs
<1>3. lost' \in 0 .. site.faults
  BY <1>1 DEF CountInv
<1> HIDE DEF ev
<1>4. Recording(request, ev)
  BY <1>1, <1>2, <1>3 DEF Recording
<1>5. QED
  BY <1>4, CountRecord

\* The steps that record nothing.
LEMMA CountLess ==
    ASSUME CountInv, queue' \subseteq queue, UNCHANGED <<site, seed, stage, bundle, used>>,
           lost' \in 0 .. site.faults
    PROVE  CountInv'
<1>1. OnceEach(bundle', queue')
  BY DEF CountInv, OnceEach
<1>2. AskedOf(bundle', stage') /\ Spent(bundle') = Spent(bundle)
  BY DEF CountInv
<1>3. QED
  BY <1>1, <1>2 DEF CountInv

LEMMA CountNext == IInv /\ CountInv /\ [Next]_vars => CountInv'
<1> SUFFICES ASSUME IInv, CountInv, [Next]_vars PROVE CountInv'
  OBVIOUS
<1>1. site.faults \in Nat /\ lost \in 0 .. site.faults
  BY SitesAssumption DEF CountInv
<1>2. CASE NextStage
  BY <1>2, CountNextStage
<1>3. CASE StopWalk \/ Deadline
  <2>1. /\ queue' = {} /\ UNCHANGED <<site, seed, stage, bundle, used>>
        /\ lost' = lost \/ (lost' = lost + 1 /\ lost < site.faults)
    BY <1>3 DEF StopWalk, Deadline
  <2>2. QED
    BY <1>1, <2>1, CountLess
<1>4. CASE RunChecks \/ UNCHANGED vars
  BY <1>1, <1>4, CountLess DEF RunChecks, vars
<1>5. ASSUME NEW request \in queue, SkipRow(request) PROVE CountInv'
  BY <1>1, <1>5, CountLess DEF SkipRow
<1>6. ASSUME NEW request \in queue, NEW answered \in BOOLEAN, Send(request, answered)
      PROVE  CountInv'
  BY <1>6, CountSend
<1>7. ASSUME NEW request \in queue, Refuse(request) PROVE CountInv'
  BY <1>7, CountRefuse
<1>8. QED
  BY <1>2, <1>3, <1>4, <1>5, <1>6, <1>7 DEF Next

LEMMA CountInvariance == Spec => [](IInv /\ CountInv)
<1>1. QED
  BY InvInit, InvStep, CountInit, CountNext, PTL DEF Spec

-----------------------------------------------------------------------------
(* The report has a verdict for each check.                                  *)

LEMMA ItemVerdicts ==
    ASSUME NEW b
    PROVE  {LlmsTxt(b), AgentsJson(b), IcpJson(b), ContentNegotiation(b), OpenapiPublished(b),
            McpDeclared(b), KeylessFlow(b), Offers402(b), Linkset(b), Attestation(b)}
              \subseteq Verdicts
<1>1. {LlmsTxt(b), AgentsJson(b), IcpJson(b), ContentNegotiation(b), OpenapiPublished(b)}
         \subseteq Verdicts
  BY DEF LlmsTxt, AgentsJson, IcpJson, ContentNegotiation, OpenapiPublished, PassIf, Verdicts
<1>2. {McpDeclared(b), KeylessFlow(b), Linkset(b), Attestation(b)} \subseteq Verdicts
  BY DEF McpDeclared, KeylessFlow, Linkset, Attestation, PassIf, Verdicts
<1>3. Offers402(b) \in Verdicts
  BY DEF Offers402, McpCheck, Optional, PassIf, Verdicts
<1>4. QED
  BY <1>1, <1>2, <1>3

LEMMA ProtocolVerdicts ==
    ASSUME NEW b
    PROVE  {ProtectedResource(b), AsMetadata(b), Pkce(b), Dcr(b), ResourceIndicators(b),
            WwwAuthenticate(b), AapDiscovery(b), AuthmdAgentIdentity(b), SchemaConformance(b),
            ClaimsHonesty(b), ContractDiff(b), McpServerJson(b), McpRemoteLive(b),
            McpRegistryOwnership(b), McpRegistryPresence(b)} \subseteq Verdicts
<1>1. {ProtectedResource(b), AsMetadata(b), Pkce(b), Dcr(b), ResourceIndicators(b),
       WwwAuthenticate(b)} \subseteq Verdicts
  BY DEF ProtectedResource, AsMetadata, Pkce, Dcr, ResourceIndicators, WwwAuthenticate, McpCheck,
         PassIf, Verdicts
<1>2. {AapDiscovery(b), SchemaConformance(b), ClaimsHonesty(b), ContractDiff(b)} \subseteq Verdicts
  BY DEF AapDiscovery, SchemaConformance, ClaimsHonesty, ContractDiff, Optional, PassIf, Verdicts
<1>3. AuthmdAgentIdentity(b) \in Verdicts
  BY DEF AuthmdAgentIdentity, PassIf, Verdicts
<1>4. {McpServerJson(b), McpRemoteLive(b), McpRegistryOwnership(b)} \subseteq Verdicts
  BY DEF McpServerJson, McpRemoteLive, McpRegistryOwnership, McpCheck, Optional, PassIf, Verdicts
<1>5. McpRegistryPresence(b) \in Verdicts
  BY DEF McpRegistryPresence, Verdicts
<1>6. QED
  BY <1>1, <1>2, <1>3, <1>4, <1>5

LEMMA InterfaceVerdicts ==
    ASSUME NEW b
    PROVE  {McpUiLinkage(b), McpUiSelfContained(b), McpUiEnvelopeHygiene(b),
            McpUiRegisterParity(b), McpUiHostRender(b), UiStreamTransport(b), UiStreamFraming(b),
            UiStreamPartShapes(b), UiStreamEnvelopeHygiene(b), UiStreamParity(b),
            DigitalLinkResolver(b), PublishedTestSuite(b), CapabilityCoverage(b)}
              \subseteq Verdicts
<1>1. {McpUiLinkage(b), McpUiSelfContained(b), McpUiHostRender(b)} \subseteq Verdicts
  BY DEF McpUiLinkage, McpUiSelfContained, McpUiHostRender, UiCheck, PassIf, Verdicts
<1>2. {McpUiEnvelopeHygiene(b), McpUiRegisterParity(b)} \subseteq Verdicts
  BY DEF McpUiEnvelopeHygiene, McpUiRegisterParity, UiCheck, PassIf, Verdicts
<1>3. {UiStreamTransport(b), UiStreamFraming(b), UiStreamPartShapes(b)} \subseteq Verdicts
  BY DEF UiStreamTransport, UiStreamFraming, UiStreamPartShapes, StreamCheck, Optional, PassIf,
         Verdicts
<1>4. {UiStreamEnvelopeHygiene(b), UiStreamParity(b)} \subseteq Verdicts
  BY DEF UiStreamEnvelopeHygiene, UiStreamParity, StreamCheck, PassIf, Verdicts
<1>5. {DigitalLinkResolver(b), PublishedTestSuite(b), CapabilityCoverage(b)} \subseteq Verdicts
  BY DEF DigitalLinkResolver, PublishedTestSuite, CapabilityCoverage, McpCheck, Optional, PassIf, Verdicts
<1>6. QED
  BY <1>1, <1>2, <1>3, <1>4, <1>5

LEMMA ContractVerdicts ==
    ASSUME NEW b
    PROVE  {MachineLegibleHome(b), ConnegAccept(b), ConnegClientClass(b), ConnegAlternates(b),
            ConnegForcedFace(b), CardInterfacesLinked(b), CardInterfacesLinkedAgain(b),
            ProbeManifest(b)} \subseteq Verdicts
<1>1. {MachineLegibleHome(b), ConnegAccept(b), ConnegClientClass(b), ConnegAlternates(b),
       ConnegForcedFace(b)} \subseteq Verdicts
  BY DEF MachineLegibleHome, ConnegAccept, ConnegClientClass, ConnegAlternates,
         ConnegForcedFace, AxpCheck, Optional, PassIf, Verdicts
<1>2. {CardInterfacesLinked(b), CardInterfacesLinkedAgain(b), ProbeManifest(b)} \subseteq Verdicts
  BY DEF CardInterfacesLinked, CardInterfacesLinkedAgain, ProbeManifest, AxpCheck, Optional,
         PassIf, Verdicts
<1>3. QED
  BY <1>1, <1>2

\* The report is made of the ten that are scored and of the others.
LEMMA ReportIs ==
    ASSUME NEW b
    PROVE  /\ DOMAIN Checks(b) = ToSet(AxItems) \cup DOMAIN Unscored(b)
           /\ \A id \in ToSet(AxItems) : Checks(b)[id] = Scored(b)[id]
           /\ \A id \in DOMAIN Unscored(b) \ ToSet(AxItems) : Checks(b)[id] = Unscored(b)[id]
<1>1. DOMAIN Scored(b) = ToSet(AxItems)
  BY DEF Scored
<1>2. QED
  BY <1>1 DEF Checks, Joined

LEMMA ReportTyped ==
    ASSUME NEW b PROVE \A id \in DOMAIN Checks(b) : Checks(b)[id] \in Verdicts
<1>1. \A id \in ToSet(AxItems) : Scored(b)[id] \in Verdicts
  BY ItemVerdicts DEF Scored, AxItems, ToSet
<1>2. \A id \in DOMAIN Unscored(b) : Unscored(b)[id] \in Verdicts
  BY ProtocolVerdicts, InterfaceVerdicts, ContractVerdicts DEF Unscored
<1>3. QED
  BY <1>1, <1>2, ReportIs

\* What the budget counts are the requests that were sent, each of them once: no role is asked
\* for twice, in whatever stage its document is wanted, and what is refused is not counted. No
\* more answers are lost than the site may lose, and the report has a verdict for each check.
THEOREM TypeCorrect == Spec => []TypeOK
<1>1. ASSUME IInv, CountInv PROVE TypeOK
  <2>1. {r \in DOMAIN bundle \ Refused : ~OwnBudget(bundle, r)} = Spent(bundle)
    BY DEF Refused, Spent
  <2>2. \A id \in DOMAIN Checks(bundle) : Checks(bundle)[id] \in Verdicts
    BY ReportTyped
  <2>3. QED
    BY <1>1, <2>1, <2>2 DEF TypeOK, IInv, CountInv
<1>2. QED
  BY <1>1, CountInvariance, PTL

-----------------------------------------------------------------------------
(* The grade of a report.                                                      *)

\* Ten checks are scored, and each of them passes or fails.
LEMMA TenExactly == Cardinality(ToSet(AxItems)) = 10
<1> DEFINE n == 10
<1>1. AxItems \in Surjection(1 .. n, ToSet(AxItems)) /\ AxItems \in Injection(1 .. n, ToSet(AxItems))
  <2>1. AxItems \in Surjection(1 .. n, ToSet(AxItems))
    BY DEF AxItems, ToSet, Surjection
  <2>2. \A i, j \in 1 .. n : AxItems[i] = AxItems[j] => i = j
    BY DEF AxItems
  <2>3. AxItems \in [1 .. n -> ToSet(AxItems)]
    BY <2>1 DEF Surjection
  <2>4. DOMAIN AxItems = 1 .. n
    BY <2>3
  <2>5. QED
    BY <2>1, <2>2, <2>3, <2>4 DEF Injection, IsInjective
<1>2. 1 \in Int /\ n \in Int
  OBVIOUS
<1> HIDE DEF n
<1>3. IsFiniteSet(1 .. n) /\ Cardinality(1 .. n) = IF 1 > n THEN 0 ELSE n - 1 + 1
  BY <1>2, FS_Interval
<1>4. Cardinality(1 .. n) = Cardinality(ToSet(AxItems))
  <2>1. ExistsBijection(1 .. n, ToSet(AxItems))
    BY <1>1 DEF ExistsBijection, Bijection
  <2>2. QED
    BY <1>3, <2>1, FS_Bijection
<1>5. QED
  BY <1>3, <1>4 DEF n

LEMMA ScoredBinary ==
    ASSUME NEW b, NEW id \in ToSet(AxItems) PROVE Scored(b)[id] \in {"pass", "fail"}
<1>1. {LlmsTxt(b), AgentsJson(b), IcpJson(b), ContentNegotiation(b), OpenapiPublished(b)}
         \subseteq {"pass", "fail"}
  BY DEF LlmsTxt, AgentsJson, IcpJson, ContentNegotiation, OpenapiPublished, PassIf
<1>2. {McpDeclared(b), KeylessFlow(b), Linkset(b), Attestation(b)} \subseteq {"pass", "fail"}
  BY DEF McpDeclared, KeylessFlow, Linkset, Attestation, PassIf
<1>3. Offers402(b) \in {"pass", "fail"}
  BY DEF Offers402, PassIf
<1>4. QED
  BY <1>1, <1>2, <1>3 DEF Scored, AxItems, ToSet

\* gradeOf, of the report on any bundle whatever: the best grade is given exactly where no
\* check fails, and a B or better only where at most three fail, all of them among the ten
\* that are scored.  (What is skipped costs nothing.)
THEOREM BestGradeIsFlawless ==
    ASSUME NEW b
    PROVE  LET failing == {id \in DOMAIN Checks(b) : Checks(b)[id] = "fail"}
           IN  /\ GradeRank(Checks(b)) = 6 <=> failing = {}
               /\ GradeRank(Checks(b)) > 3 =>
                     failing \subseteq ToSet(AxItems) /\ Cardinality(failing) <= 3
<1> DEFINE checks == Checks(b)
           ten == ToSet(AxItems)
           failing == {id \in DOMAIN checks : checks[id] = "fail"}
           passed == {id \in ten : checks[id] = "pass"}
           missed == failing \cap ten
<1>1. ten \subseteq DOMAIN checks /\ \A id \in ten : checks[id] \in {"pass", "fail"}
  BY ReportIs, ScoredBinary
<1>2. IsFiniteSet(ten) /\ Cardinality(ten) = 10
  BY TenItems, TenExactly
<1>3. passed = ten \ missed /\ passed \subseteq ten /\ missed \subseteq ten
  BY <1>1
<1>4. Dishonest(checks) = failing \ ten
  BY DEF Dishonest
<1>5. Points(checks) = Cardinality(passed)
  BY DEF Points
<1> HIDE DEF checks, ten, failing, passed, missed
<1>6. /\ IsFiniteSet(passed) /\ IsFiniteSet(missed)
      /\ Cardinality(passed) = 10 - Cardinality(missed)
      /\ Cardinality(missed) \in Nat /\ Cardinality(passed) \in Nat
  <2>1. IsFiniteSet(passed) /\ IsFiniteSet(missed)
    BY <1>2, <1>3, FS_Subset
  <2>2. Cardinality(ten \ missed) = Cardinality(ten) - Cardinality(ten \cap missed)
    BY <1>2, FS_Difference
  <2>3. ten \cap missed = missed
    BY <1>3
  <2>4. Cardinality(missed) \in Nat /\ Cardinality(passed) \in Nat
    BY <2>1, FS_CardinalityType
  <2>5. QED
    BY <1>2, <1>3, <2>1, <2>2, <2>3, <2>4
<1>7. Cardinality(missed) = 0 <=> missed = {}
  BY <1>6, FS_EmptySet
<1>8. failing = {} <=> missed = {} /\ Dishonest(checks) = {}
  BY <1>4 DEF missed
<1>9. ByPoints(Points(checks)) = 6 <=> Cardinality(missed) = 0
  BY <1>5, <1>6 DEF ByPoints
<1>10. ByPoints(Points(checks)) > 3 => Cardinality(missed) <= 3
  BY <1>5, <1>6 DEF ByPoints
<1>11. GradeRank(checks) = 6 <=> failing = {}
  BY <1>7, <1>8, <1>9 DEF GradeRank
<1>12. ASSUME GradeRank(checks) > 3 PROVE failing \subseteq ten /\ Cardinality(failing) <= 3
  <2>1. Dishonest(checks) = {} /\ ByPoints(Points(checks)) > 3
    BY <1>12, LiesCapTheGrade DEF GradeRank
  <2>2. failing = missed
    BY <1>4, <2>1 DEF missed
  <2>3. QED
    BY <1>3, <1>10, <2>1, <2>2
<1>13. QED
  BY <1>11, <1>12 DEF checks, ten, failing

-----------------------------------------------------------------------------
(* The budget reaches as far as the offer.                                   *)

\* What is recorded of the card and of the contract is the site's, whichever answers are lost.
LEMMA RecordsAreOfSite ==
    ASSUME NEW b, NEW s, NEW role, NEW ev, NEW name, OfSite(b, s, name),
           role = Role(name) /\ IsObject(Json(ev)) => Json(ev) = Doc(Whole(s), name)
    PROVE  OfSite(Record(b, role, ev), s, name)
<1> DEFINE c == Record(b, role, ev)
<1>1. DOMAIN c = DOMAIN b \cup {role} /\ \A r \in DOMAIN c : c[r] = IF r \in DOMAIN b THEN b[r] ELSE ev
  BY DEF Record
<1> HIDE DEF c
<1>2. CASE Role(name) \in DOMAIN b \/ role # Role(name)
  <2>1. Doc(c, name) = Doc(b, name)
    BY <1>1, <1>2 DEF Doc, Ev, Find
  <2>2. QED
    BY <2>1 DEF OfSite, c
<1>3. CASE Role(name) \notin DOMAIN b /\ role = Role(name)
  <2>1. Doc(c, name) = Json(ev)
    BY <1>1, <1>3 DEF Doc, Ev, Find
  <2>2. QED
    BY <1>3, <2>1 DEF OfSite, c
<1>4. QED
  BY <1>2, <1>3

LEMMA ReplyIsOfSite ==
    ASSUME NEW name, IsObject(Json(Reply(Role(name)).ev))
    PROVE  Json(Reply(Role(name)).ev) = Doc(Whole(site), name)
<1>1. ~IsObject(Json(NotFound))
  BY NotFoundSound DEF Json, IsObject
<1>2. Role(name) \in DOMAIN site.replies
  BY <1>1 DEF Reply
<1>3. QED
  BY <1>2 DEF Reply, Doc, Ev, Find, Whole

\* So a seed has a place for each path that the verification finds.
LEMMA CandidatesAreOffered ==
    ASSUME NEW b, OfSite(b, site, "agents"), OfSite(b, site, "openapi")
    PROVE  Candidates(b) \subseteq Offered(site)
<1> DEFINE w == Whole(site)
<1>1. Openapi(b).doors \subseteq Openapi(w).doors
  <2>1. CASE IsObject(Doc(b, "openapi"))
    BY <2>1 DEF Openapi, OfSite
  <2>2. CASE ~IsObject(Doc(b, "openapi"))
    BY <2>2 DEF Openapi, NoContract
  <2>3. QED
    BY <2>1, <2>2
<1>2. Card(b).endpoints \subseteq Card(w).endpoints
  <2>1. CASE IsObject(Doc(b, "agents"))
    BY <2>1 DEF Card, Object, OfSite
  <2>2. CASE ~IsObject(Doc(b, "agents"))
    BY <2>2 DEF Card, Object, NoCard
  <2>3. QED
    BY <2>1, <2>2
<1>3. Offered(site) = Candidates(w)
  BY DEF Offered, Whole
<1> HIDE DEF w
<1>4. QED
  BY <1>1, <1>2, <1>3 DEF Candidates

\* A sample is as small as it should be.
LEMMA SampleIsSmall ==
    ASSUME site \in Sites, seed \in Seeds, NEW b, Candidates(b) \subseteq Offered(site)
    PROVE  IsFiniteSet(SampledPaths(b)) /\ Cardinality(SampledPaths(b)) <= MaxTyped
<1> DEFINE order == seed.typed
           C == Candidates(b)
           place == [p \in C |-> PlaceIn(order, p)]
           L == {x \in C \X C : place[x[1]] < place[x[2]]}
<1>1. order \in Seq(ToSet(order)) /\ C \subseteq ToSet(order)
  BY SeedsAssumption
<1>2. DOMAIN order = 1 .. Len(order) /\ Len(order) \in Nat
  BY <1>1
<1> HIDE DEF order, C
<1>3. ASSUME NEW p \in C PROVE place[p] \in 1 .. Len(order) /\ order[place[p]] = p
  <2>1. \E i \in DOMAIN order : order[i] = p
    BY <1>1 DEF ToSet
  <2>2. PlaceIn(order, p) \in DOMAIN order /\ order[PlaceIn(order, p)] = p
    BY <2>1 DEF PlaceIn
  <2>3. QED
    BY <1>2, <2>2
<1>4. IsFiniteSet(C)
  <2>1. IsFiniteSet(DOMAIN order)
    BY <1>2, FS_Interval
  <2>2. IsFiniteSet({order[i] : i \in DOMAIN order})
    BY <2>1, ValuesAreFinite
  <2>3. C \in SUBSET {order[i] : i \in DOMAIN order}
    BY <1>1 DEF ToSet
  <2>4. QED
    BY <2>2, <2>3, FS_Subset
<1>5. DOMAIN place = C
  OBVIOUS
<1> HIDE DEF place
<1>6. StrictlyOrders(L, C)
  BY <1>2, <1>3 DEF StrictlyOrders
<1>7. \A p \in C : Preceding(L, C, p) = {q \in C : place[q] < place[p]}
  BY DEF Preceding
<1>8. SampledPaths(b) = {p \in C : Cardinality({q \in C : place[q] < place[p]}) < MaxTyped}
  BY <1>5 DEF SampledPaths, Foremost, place, C, order
<1> HIDE DEF L
<1>9. SampledPaths(b) = {p \in C : Rank(L, C, p) < MaxTyped}
  BY <1>7, <1>8 DEF Rank
<1>10. MaxTyped \in Nat /\ Cardinality(C) \in Nat
  BY <1>4, DiscoveryAssumption, FS_CardinalityType
<1>11. /\ IsFiniteSet({p \in C : Rank(L, C, p) < MaxTyped})
       /\ Cardinality({p \in C : Rank(L, C, p) < MaxTyped})
             = IF Cardinality(C) <= MaxTyped THEN Cardinality(C) ELSE MaxTyped
  BY <1>4, <1>6, <1>10, FirstOnes
<1>12. QED
  BY <1>9, <1>10, <1>11

\* The stages up to the offer ask under early roles and at the doors.
LEMMA EarlyStages ==
    ASSUME NEW b, NEW i \in 1 .. 8, NEW paths, i = 7 => paths = SampledPaths(b),
           NEW r \in Plan(Stages[i], b)
    PROVE  (i = 6 /\ IsDoor(r.role)) \/ r.role \in Early(paths)
<1>1. CASE i = 1
  <2>1. \E j \in 1 .. 6 : r.role = Role(<<"rootAgent", "rootBrowser", "rootJson", "rootMarkdown",
                                          "rootBrowserNav", "rootAgentUa">>[j])
    BY <1>1, StagePlan, Requests DEF PlanRoot
  <2>2. QED
    BY <2>1 DEF Early, FixedRoles
<1>2. CASE i = 2
  <2>1. \E f \in Faces : r.role = FaceRole(f)
    BY <1>2, StagePlan, Requests DEF PlanFaces
  <2>2. QED
    BY <2>1 DEF Early, FixedRoles
<1>3. CASE i = 3
  <2>1. \E j \in 1 .. 4 : r.role = Role(<<"llms", "agents", "icp", "agentConfig">>[j])
    BY <1>3, StagePlan, Requests DEF PlanTexts
  <2>2. QED
    BY <2>1 DEF Early, FixedRoles
<1>4. CASE i \in {4, 5, 8}
  <2>1. r.role \in {Role("openapi"), Role("pricing"), Role("offer")}
    BY <1>4, StagePlan, SingleSurfaces DEF Only
  <2>2. QED
    BY <2>1 DEF Early, FixedRoles
<1>5. CASE i = 6
  <2> DEFINE q(p) == InTurn(PlaceIn(seed.doors, p) + IF p \in Hinted(b) THEN 0 ELSE Len(seed.doors),
                            Get(Keyless(p), Self))
  <2>1. r \in PlanDoors(b)
    BY <1>5, StagePlan
  <2>2. \E p : r = q(p)
    BY <2>1 DEF PlanDoors
  <2>3. \A p : q(p).role = Keyless(p)
    BY Requests
  <2> HIDE DEF q
  <2>4. QED
    BY <1>5, <2>2, <2>3 DEF IsDoor, Keyless
<1>6. CASE i = 7
  <2>1. r \in PlanTyped(b)
    BY <1>6, StagePlan
  <2>2. \E p \in SampledPaths(b) : r.role = TypedAgent(p) \/ r.role = TypedBrowser(p)
    BY <2>1, TypedAre
  <2>3. QED
    BY <1>6, <2>2 DEF Early, TypedRoles
<1>7. QED
  BY <1>1, <1>2, <1>3, <1>4, <1>5, <1>6

\* There are sixteen fixed roles.
LEMMA Sixteen == IsFiniteSet(FixedRoles) /\ Cardinality(FixedRoles) <= 16
<1> DEFINE names == <<Role("rootAgent"), Role("rootBrowser"), Role("rootJson"),
                      Role("rootMarkdown"), Role("rootBrowserNav"), Role("rootAgentUa"),
                      Role("llms"), Role("agents"), Role("icp"), Role("agentConfig"),
                      Role("openapi"), Role("pricing"), Role("offer"), FaceRole("html"),
                      FaceRole("json"), FaceRole("md")>>
<1>1. DOMAIN names = 1 .. 16
  OBVIOUS
<1>2. \A role \in FixedRoles : \E i \in 1 .. 16 : names[i] = role
  BY DEF FixedRoles, Faces
<1> HIDE DEF names
<1>3. FixedRoles \in SUBSET {names[i] : i \in DOMAIN names}
  BY <1>1, <1>2
<1>4. IsFiniteSet(1 .. 16) /\ Cardinality(1 .. 16) = 16
  <2> DEFINE n == 16
  <2>1. 1 \in Int /\ n \in Int
    OBVIOUS
  <2> HIDE DEF n
  <2>2. IsFiniteSet(1 .. n) /\ Cardinality(1 .. n) = IF 1 > n THEN 0 ELSE n - 1 + 1
    BY <2>1, FS_Interval
  <2>3. QED
    BY <2>2 DEF n
<1>5. /\ IsFiniteSet({names[i] : i \in DOMAIN names})
      /\ Cardinality({names[i] : i \in DOMAIN names}) <= 16
  BY <1>1, <1>4, ValuesAreFinite
<1>6. /\ IsFiniteSet(FixedRoles)
      /\ Cardinality(FixedRoles) <= Cardinality({names[i] : i \in DOMAIN names})
  BY <1>3, <1>5, FS_Subset
<1>7. Cardinality(FixedRoles) \in Nat /\ Cardinality({names[i] : i \in DOMAIN names}) \in Nat
  BY <1>5, <1>6, FS_CardinalityType
<1>8. QED
  BY <1>5, <1>6, <1>7

\* Two sets together have at most as many elements as the two.
LEMMA Together ==
    ASSUME NEW S, NEW T, IsFiniteSet(S), IsFiniteSet(T),
           NEW m \in Nat, NEW n \in Nat, Cardinality(S) <= m, Cardinality(T) <= n
    PROVE  IsFiniteSet(S \cup T) /\ Cardinality(S \cup T) <= m + n
<1>1. /\ IsFiniteSet(S \cup T) /\ IsFiniteSet(S \cap T)
      /\ Cardinality(S \cup T) = Cardinality(S) + Cardinality(T) - Cardinality(S \cap T)
  BY FS_Union, FS_Intersection
<1>2. Cardinality(S) \in Nat /\ Cardinality(T) \in Nat /\ Cardinality(S \cap T) \in Nat
  BY <1>1, FS_CardinalityType
<1>3. QED
  BY <1>1, <1>2

\* As many roles are early, at most, as the budget has requests.
LEMMA EarlyAreFew ==
    ASSUME NEW walked, IsFiniteSet(walked), Cardinality(walked) <= MaxKeylessTotal,
           NEW paths, IsFiniteSet(paths), Cardinality(paths) <= MaxTyped
    PROVE  LET roles == Early(paths) \cup {Keyless(p) : p \in walked}
           IN  /\ IsFiniteSet(roles)
               /\ Cardinality(roles) <= 16 + MaxKeylessTotal + 2 * MaxTyped
<1> DEFINE agents == {TypedAgent(p) : p \in paths}
           browsers == {TypedBrowser(p) : p \in paths}
           doors == {Keyless(p) : p \in walked}
<1>1. MaxTyped \in Nat /\ MaxKeylessTotal \in Nat
  BY DiscoveryAssumption
<1>2. IsFiniteSet(agents) /\ Cardinality(agents) <= MaxTyped
  <2> DEFINE f == [p \in paths |-> TypedAgent(p)]
  <2>1. DOMAIN f = paths /\ agents = {f[p] : p \in DOMAIN f}
    OBVIOUS
  <2> HIDE DEF f, agents
  <2>2. IsFiniteSet(agents) /\ Cardinality(agents) <= Cardinality(paths)
    BY <2>1, ValuesAreFinite
  <2>3. Cardinality(agents) \in Nat /\ Cardinality(paths) \in Nat
    BY <2>2, FS_CardinalityType
  <2>4. QED
    BY <1>1, <2>2, <2>3
<1>3. IsFiniteSet(browsers) /\ Cardinality(browsers) <= MaxTyped
  <2> DEFINE f == [p \in paths |-> TypedBrowser(p)]
  <2>1. DOMAIN f = paths /\ browsers = {f[p] : p \in DOMAIN f}
    OBVIOUS
  <2> HIDE DEF f, browsers
  <2>2. IsFiniteSet(browsers) /\ Cardinality(browsers) <= Cardinality(paths)
    BY <2>1, ValuesAreFinite
  <2>3. Cardinality(browsers) \in Nat /\ Cardinality(paths) \in Nat
    BY <2>2, FS_CardinalityType
  <2>4. QED
    BY <1>1, <2>2, <2>3
<1>4. IsFiniteSet(doors) /\ Cardinality(doors) <= MaxKeylessTotal
  <2> DEFINE f == [p \in walked |-> Keyless(p)]
  <2>1. DOMAIN f = walked /\ doors = {f[p] : p \in DOMAIN f}
    OBVIOUS
  <2> HIDE DEF f, doors
  <2>2. IsFiniteSet(doors) /\ Cardinality(doors) <= Cardinality(walked)
    BY <2>1, ValuesAreFinite
  <2>3. Cardinality(doors) \in Nat /\ Cardinality(walked) \in Nat
    BY <2>2, FS_CardinalityType
  <2>4. QED
    BY <1>1, <2>2, <2>3
<1> HIDE DEF agents, browsers, doors
<1>5. IsFiniteSet(agents \cup browsers) /\ Cardinality(agents \cup browsers) <= MaxTyped + MaxTyped
  BY <1>1, <1>2, <1>3, Together
<1>6. /\ IsFiniteSet(FixedRoles \cup (agents \cup browsers))
      /\ Cardinality(FixedRoles \cup (agents \cup browsers)) <= 16 + (MaxTyped + MaxTyped)
  <2>1. MaxTyped + MaxTyped \in Nat
    BY <1>1
  <2>2. QED
    BY <1>5, <2>1, Sixteen, Together
<1>7. Early(paths) = FixedRoles \cup (agents \cup browsers)
  BY DEF Early, TypedRoles, agents, browsers
<1>8. /\ IsFiniteSet(Early(paths) \cup doors)
      /\ Cardinality(Early(paths) \cup doors) <= 16 + (MaxTyped + MaxTyped) + MaxKeylessTotal
  <2>1. 16 + (MaxTyped + MaxTyped) \in Nat
    BY <1>1
  <2>2. QED
    BY <1>1, <1>4, <1>6, <1>7, <2>1, Together
<1>9. Cardinality(Early(paths) \cup doors) \in Nat
  BY <1>8, FS_CardinalityType
<1>10. QED
  BY <1>1, <1>8, <1>9 DEF doors

\* The names of the early roles, and whose turn they are.
LEMMA EarlyNames ==
    ASSUME NEW paths, NEW role \in Early(paths)
    PROVE  role[1] # "keyless" /\ role[1] # "row" /\ (Home(role[1]) = 7 \/ role \in FixedRoles)
<1>1. CASE role \in FixedRoles
  BY <1>1 DEF FixedRoles, Role, FaceRole
<1>2. CASE role \in TypedRoles(paths)
  BY <1>2 DEF TypedRoles, TypedAgent, TypedBrowser, Home
<1>3. QED
  BY <1>1, <1>2 DEF Early

\* The doors that are walked, with the one that is asked at next
LEMMA WalkGrows ==
    ASSUME FitInv, IsFiniteSet(DOMAIN bundle), stage \in 1 .. 8, NEW request \in queue, ~Enough,
           NEW ev
    PROVE  LET walked == Probed(Record(bundle, request.role, ev), "keyless")
           IN  /\ IsFiniteSet(walked) /\ Cardinality(walked) <= MaxKeylessTotal
               /\ IsDoor(request.role) => request.role[2] \in walked
               /\ Probed(bundle, "keyless") \subseteq walked
<1> DEFINE role == request.role
           P == Probed(bundle, "keyless")
           Q == Probed(Record(bundle, role, ev), "keyless")
<1>1. IsFiniteSet(P)
  <2> DEFINE S == {x \in DOMAIN bundle : x[1] = "keyless"}
             f == [x \in S |-> x[2]]
  <2>1. S \in SUBSET DOMAIN bundle /\ DOMAIN f = S /\ P = {f[x] : x \in DOMAIN f}
    BY DEF Probed
  <2>2. IsFiniteSet(S)
    BY <2>1, FS_Subset
  <2> HIDE DEF f, P
  <2>3. QED
    BY <2>1, <2>2, ValuesAreFinite
<1>2. MaxKeylessTotal \in Nat /\ Cardinality(P) \in Nat
  BY <1>1, DiscoveryAssumption, FS_CardinalityType
<1>3. Q = P \cup {x[2] : x \in {y \in {role} : y[1] = "keyless"}}
  BY DEF Probed, Record
<1>4. Cardinality(P) <= MaxKeylessTotal
  BY DEF FitInv
<1>5. CASE stage = 6 /\ IsDoor(role)
  <2>1. Q = P \cup {role[2]}
    BY <1>3, <1>5 DEF IsDoor
  <2>2. Cardinality(P) < MaxKeylessTotal
    BY <1>2, <1>4, <1>5 DEF Enough, Stages
  <2> HIDE DEF P, Q
  <2>3. IsFiniteSet(Q) /\ Cardinality(Q) <= Cardinality(P) + 1
    <3>1. /\ IsFiniteSet(P \cup {role[2]})
          /\ Cardinality(P \cup {role[2]})
                = IF role[2] \in P THEN Cardinality(P) ELSE Cardinality(P) + 1
      BY <1>1, FS_AddElement
    <3>2. QED
      BY <1>2, <2>1, <3>1
  <2>4. Cardinality(Q) \in Nat
    BY <2>3, FS_CardinalityType
  <2>5. Cardinality(Q) <= MaxKeylessTotal
    BY <1>2, <2>2, <2>3, <2>4
  <2>6. QED
    BY <2>1, <2>3, <2>5 DEF P, Q
<1>6. CASE ~(stage = 6 /\ IsDoor(role))
  <2>1. \E paths : role \in Early(paths)
    BY <1>6 DEF FitInv
  <2>2. role[1] # "keyless"
    BY <2>1, EarlyNames
  <2>3. Q = P
    BY <1>3, <2>2
  <2> HIDE DEF P, Q
  <2>4. QED
    BY <1>1, <1>4, <2>2, <2>3 DEF P, Q, IsDoor
<1>7. QED
  BY <1>5, <1>6

\* So no request is beyond it.
LEMMA NotRefused ==
    ASSUME IInv, CountInv, FitInv, stage <= 8, NEW request \in queue, ~Enough,
           Budget >= 16 + MaxKeylessTotal + 2 * MaxTyped
    PROVE  used < Budget
<1> DEFINE role == request.role
           walked == Probed(Record(bundle, role, NoAnswer), "keyless")
<1>1. IsFiniteSet(DOMAIN bundle) /\ used = Cardinality(Spent(bundle)) /\ stage \in 1 .. 8
  BY DEF CountInv, IInv, Stages
<1>2. PICK paths : /\ IsFiniteSet(paths) /\ Cardinality(paths) <= MaxTyped
                   /\ \A r \in DOMAIN bundle : IsDoor(r) \/ r \in Early(paths)
                   /\ \A r \in queue : (stage = 6 /\ IsDoor(r.role)) \/ r.role \in Early(paths)
  BY <1>1 DEF FitInv
<1>3. /\ IsFiniteSet(walked) /\ Cardinality(walked) <= MaxKeylessTotal
      /\ IsDoor(role) => role[2] \in walked
      /\ Probed(bundle, "keyless") \subseteq walked
  BY <1>1, WalkGrows
<1> HIDE DEF walked
<1> DEFINE roles == Early(paths) \cup {Keyless(p) : p \in walked}
<1>4. /\ IsFiniteSet(roles)
      /\ Cardinality(roles) <= 16 + MaxKeylessTotal + 2 * MaxTyped
  BY <1>2, <1>3, EarlyAreFew
<1>5. \A r \in DOMAIN bundle \cup {role} : r \in roles
  <2>1. ASSUME NEW r \in DOMAIN bundle, IsDoor(r) PROVE r[2] \in walked
    BY <1>3, <2>1 DEF IsDoor, Probed
  <2>2. \A r \in DOMAIN bundle \cup {role} : (IsDoor(r) /\ r[2] \in walked) \/ r \in Early(paths)
    BY <1>2, <1>3, <2>1
  <2>3. QED
    BY <2>2 DEF IsDoor
<1> HIDE DEF roles
<1>6. role \notin DOMAIN bundle
  <2>1. role[1] # "row"
    BY <1>2, EarlyNames DEF IsDoor, Keyless
  <2>2. QED
    BY <2>1 DEF CountInv, OnceEach
<1>7. Spent(bundle) \cup {role} \in SUBSET roles /\ role \notin Spent(bundle)
  BY <1>5, <1>6 DEF Spent
<1>8. Cardinality(Spent(bundle) \cup {role}) <= Cardinality(roles)
  BY <1>4, <1>7, FS_Subset
<1>9. IsFiniteSet(Spent(bundle))
  <2>1. Spent(bundle) \in SUBSET DOMAIN bundle
    BY DEF Spent
  <2>2. QED
    BY <1>1, <2>1, FS_Subset
<1>10. Cardinality(Spent(bundle) \cup {role}) = Cardinality(Spent(bundle)) + 1
  BY <1>7, <1>9, FS_AddElement
<1>11. {Budget, MaxTyped, MaxKeylessTotal} \subseteq Nat /\ Cardinality(Spent(bundle)) \in Nat
       /\ Cardinality(roles) \in Nat
  BY <1>4, <1>9, DiscoveryAssumption, FS_CardinalityType
<1>12. QED
  BY <1>1, <1>4, <1>8, <1>10, <1>11

LEMMA FitInit == Init => FitInv
<1> SUFFICES ASSUME Init PROVE FitInv
  OBVIOUS
<1>1. stage = 1 /\ queue = PlanRoot /\ bundle = <<>> /\ DOMAIN bundle = {}
  BY DEF Init
<1>2. OfSite(bundle, site, "agents") /\ OfSite(bundle, site, "openapi")
  BY <1>1 DEF OfSite, Doc, Ev, Find, Json, NoAnswer, IsObject
<1>3. Refused = {}
  BY <1>1 DEF Refused
<1>4. Probed(bundle, "keyless") = {}
  BY <1>1 DEF Probed
<1>5. Cardinality(Probed(bundle, "keyless")) <= MaxKeylessTotal
  BY <1>4, FS_EmptySet, DiscoveryAssumption
<1>6. IsFiniteSet({}) /\ Cardinality({}) <= MaxTyped
  BY FS_EmptySet, DiscoveryAssumption
<1>7. ASSUME NEW r \in queue PROVE r.role \in Early({})
  <2>1. r \in Plan(Stages[1], bundle)
    BY <1>1, StagePlan
  <2>2. QED
    BY <2>1, EarlyStages
<1>8. QED
  BY <1>1, <1>2, <1>3, <1>5, <1>6, <1>7 DEF FitInv

LEMMA FitNextStage == ASSUME IInv, CountInv, FitInv, NextStage PROVE FitInv'
<1>1. /\ stage \in 1 .. 30 /\ stage' = stage + 1 /\ queue' = Plan(Stages[stage + 1], bundle)
      /\ UNCHANGED <<site, seed, bundle>> /\ site \in Sites /\ seed \in Seeds
  BY DEF NextStage, IInv, Stages, CountInv
<1>2. OfSite(bundle, site, "agents") /\ OfSite(bundle, site, "openapi")
  BY DEF FitInv
<1>3. ASSUME stage + 1 <= 8
      PROVE  \E paths :
                /\ IsFiniteSet(paths) /\ Cardinality(paths) <= MaxTyped
                /\ \A role \in DOMAIN bundle : IsDoor(role) \/ role \in Early(paths)
                /\ \A r \in queue' : (stage + 1 = 6 /\ IsDoor(r.role)) \/ r.role \in Early(paths)
  <2>1. PICK paths : /\ IsFiniteSet(paths) /\ Cardinality(paths) <= MaxTyped
                     /\ \A role \in DOMAIN bundle : IsDoor(role) \/ role \in Early(paths)
    BY <1>1, <1>3 DEF FitInv
  <2>2. CASE stage + 1 # 7
    <3>1. \A r \in queue' : (stage + 1 = 6 /\ IsDoor(r.role)) \/ r.role \in Early(paths)
      BY <1>1, <1>3, <2>2, EarlyStages
    <3>2. QED
      BY <2>1, <3>1
  <2>3. CASE stage + 1 = 7
    <3>1. IsFiniteSet(SampledPaths(bundle)) /\ Cardinality(SampledPaths(bundle)) <= MaxTyped
      BY <1>1, <1>2, CandidatesAreOffered, SampleIsSmall
    <3>2. ASSUME NEW role \in DOMAIN bundle PROVE IsDoor(role) \/ role \in Early(SampledPaths(bundle))
      <4>1. Home(role[1]) # 7
        BY <1>1, <2>3 DEF CountInv
      <4>2. QED
        BY <2>1, <4>1, EarlyNames DEF Early
    <3>3. \A r \in queue' : r.role \in Early(SampledPaths(bundle))
      BY <1>1, <2>3, EarlyStages
    <3>4. QED
      BY <3>1, <3>2, <3>3
  <2>4. QED
    BY <2>2, <2>3
<1>4. Refused' = Refused
  BY <1>1 DEF Refused
<1>5. stage + 1 <= 8 => Refused = {} /\ Cardinality(Probed(bundle, "keyless")) <= MaxKeylessTotal
  BY <1>1 DEF FitInv
<1>6. QED
  BY <1>1, <1>2, <1>3, <1>4, <1>5 DEF FitInv

LEMMA FitSend ==
    ASSUME IInv, CountInv, FitInv, NEW request \in queue, NEW answered \in BOOLEAN,
           Send(request, answered)
    PROVE  FitInv'
<1> DEFINE ev == Exchanged(request, answered)
           role == request.role
<1>1. /\ bundle' = Record(bundle, role, ev) /\ queue' = queue \ {request} /\ ~Enough
      /\ UNCHANGED <<site, seed, stage>> /\ site \in Sites /\ IsFiniteSet(DOMAIN bundle)
      /\ stage \in 1 .. 31
  BY DEF Send, CountInv, IInv, Stages
<1>2. ASSUME NEW name \in {"agents", "openapi"} PROVE OfSite(bundle', site, name)
  <2>1. OfSite(bundle, site, name)
    BY <1>2 DEF FitInv
  <2>2. role = Role(name) /\ IsObject(Json(ev)) => Json(ev) = Doc(Whole(site), name)
    <3>1. Role(name) # Role("vitestRun")
      BY DEF Role
    <3>2. QED
      BY <1>1, <3>1, ExchangedSound, ReplyIsOfSite
  <2> HIDE DEF ev, role
  <2>3. QED
    BY <1>1, <2>1, <2>2, RecordsAreOfSite
<1>3. ev.refused = FALSE
  BY <1>1, ExchangedSound DEF Sound
<1> HIDE DEF ev
<1>4. Refused = {} => Refused' = {}
  BY <1>1, <1>3 DEF Refused, Record
<1>5. ASSUME stage <= 8
      PROVE  /\ Cardinality(Probed(bundle', "keyless")) <= MaxKeylessTotal
             /\ \E paths :
                   /\ IsFiniteSet(paths) /\ Cardinality(paths) <= MaxTyped
                   /\ \A r \in DOMAIN bundle' : IsDoor(r) \/ r \in Early(paths)
                   /\ \A r \in queue' : (stage = 6 /\ IsDoor(r.role)) \/ r.role \in Early(paths)
  <2>1. Cardinality(Probed(bundle', "keyless")) <= MaxKeylessTotal
    BY <1>1, <1>5, WalkGrows
  <2>2. DOMAIN bundle' = DOMAIN bundle \cup {role}
    BY <1>1 DEF Record
  <2>3. PICK paths :
           /\ IsFiniteSet(paths) /\ Cardinality(paths) <= MaxTyped
           /\ \A r \in DOMAIN bundle : IsDoor(r) \/ r \in Early(paths)
           /\ \A r \in queue : (stage = 6 /\ IsDoor(r.role)) \/ r.role \in Early(paths)
    BY <1>5 DEF FitInv
  <2>4. QED
    BY <1>1, <2>1, <2>2, <2>3
<1>6. QED
  BY <1>1, <1>2, <1>4, <1>5 DEF FitInv

\* A refusal records no document; up to the offer there is none.
LEMMA FitRefuse ==
    ASSUME IInv, CountInv, FitInv, NEW request \in queue, Refuse(request),
           Budget >= 16 + MaxKeylessTotal + 2 * MaxTyped
    PROVE  FitInv'
<1> DEFINE ev == [NoAnswer EXCEPT !.at = request.at, !.refused = TRUE]
           role == request.role
<1>1. /\ bundle' = Record(bundle, role, ev) /\ ~Enough /\ ~(used < Budget)
      /\ UNCHANGED <<site, stage>>
  BY DEF Refuse, Affordable
<1>2. ~IsObject(Json(ev))
  BY RefusedIs
<1> HIDE DEF ev, role
<1>3. OfSite(bundle', site, "agents") /\ OfSite(bundle', site, "openapi")
  BY <1>1, <1>2, RecordsAreOfSite DEF FitInv
<1>4. ~(stage <= 8)
  BY <1>1, NotRefused
<1>5. QED
  BY <1>1, <1>3, <1>4 DEF FitInv

LEMMA FitLess ==
    ASSUME FitInv, queue' \subseteq queue, UNCHANGED <<site, seed, stage, bundle>>
    PROVE  FitInv'
<1>1. Refused' = Refused
  BY DEF Refused
<1>2. QED
  BY <1>1 DEF FitInv

LEMMA FitNext ==
    ASSUME Budget >= 16 + MaxKeylessTotal + 2 * MaxTyped
    PROVE  IInv /\ CountInv /\ FitInv /\ [Next]_vars => FitInv'
<1> SUFFICES ASSUME IInv, CountInv, FitInv, [Next]_vars PROVE FitInv'
  OBVIOUS
<1>1. CASE NextStage
  BY <1>1, FitNextStage
<1>2. CASE StopWalk \/ Deadline
  BY <1>2, FitLess DEF StopWalk, Deadline
<1>3. CASE RunChecks \/ UNCHANGED vars
  BY <1>3, FitLess DEF RunChecks, vars
<1>4. ASSUME NEW request \in queue, SkipRow(request) PROVE FitInv'
  BY <1>4, FitLess DEF SkipRow
<1>5. ASSUME NEW request \in queue, NEW answered \in BOOLEAN, Send(request, answered)
      PROVE  FitInv'
  BY <1>5, FitSend
<1>6. ASSUME NEW request \in queue, Refuse(request) PROVE FitInv'
  BY <1>6, FitRefuse
<1>7. QED
  BY <1>1, <1>2, <1>3, <1>4, <1>5, <1>6 DEF Next

\* The surfaces, the doors, the typed bodies and the offer have their share of the budget by
\* construction, however many doors a site opens, whichever of its answers are lost and in
\* whatever order the seed draws: a budget of the sixteen fixed requests, of the ceiling of the
\* walk and of two for each path that is sampled refuses none of them (the module's own numbers,
\* 16 + 12 + 2 * 2, are the 32 of http.ts).
THEOREM FixedProbesReserved ==
    ASSUME Budget >= 16 + MaxKeylessTotal + 2 * MaxTyped PROVE Spec => []FixedProbesFit
<1>1. FitInv => FixedProbesFit
  BY DEF FitInv, FixedProbesFit
<1>2. IInv /\ CountInv /\ FitInv /\ [Next]_vars => FitInv'
  BY FitNext
<1>3. QED
  BY <1>1, <1>2, CountInvariance, FitInit, PTL DEF Spec

-----------------------------------------------------------------------------
(* What the judge makes of the rows of a suite.                                *)

\* The judgement up to a number of rows
Judges(b, g, n) ==
    g = [k \in 0 .. n |->
            IF k = 0 THEN [bindings |-> Vars(b), results |-> <<>>]
                     ELSE JudgeRow(b, g[k - 1], Rows(b)[k])]

\* However many rows there are, each is judged after those before it.
LEMMA JudgementExists ==
    ASSUME NEW b, Len(Rows(b)) \in Nat
    PROVE  \A n \in 0 .. Len(Rows(b)) : \E g : Judges(b, g, n)
<1> DEFINE last == Len(Rows(b))
           bad == {n \in 0 .. last : ~\E g : Judges(b, g, n)}
<1>1. SUFFICES ASSUME bad # {} PROVE FALSE
  OBVIOUS
<1>2. bad \subseteq Nat
  OBVIOUS
<1>3. PICK n \in bad : \A m \in bad : n <= m
  BY <1>1, <1>2, LeastExists
<1>4. n \in 0 .. last /\ ~\E g : Judges(b, g, n)
  BY <1>3
<1>5. CASE n = 0
  <2> DEFINE g == [k \in 0 .. 0 |-> [bindings |-> Vars(b), results |-> <<>>]]
  <2>1. Judges(b, g, 0)
    BY DEF Judges
  <2>2. QED
    BY <1>4, <1>5, <2>1
<1>6. CASE n # 0
  <2>1. n - 1 \in 0 .. last /\ n - 1 \notin bad
    BY <1>3, <1>4, <1>6
  <2>2. PICK h : Judges(b, h, n - 1)
    BY <2>1
  <2> DEFINE g == [k \in 0 .. n |-> IF k = n THEN JudgeRow(b, h[n - 1], Rows(b)[n]) ELSE h[k]]
  <2>3. \A k \in 0 .. n - 1 : g[k] = h[k]
    OBVIOUS
  <2>4. g[n] = JudgeRow(b, g[n - 1], Rows(b)[n])
    BY <1>4, <1>6, <2>3
  <2>5. ASSUME NEW k \in 0 .. n
        PROVE  g[k] = IF k = 0 THEN [bindings |-> Vars(b), results |-> <<>>]
                               ELSE JudgeRow(b, g[k - 1], Rows(b)[k])
    <3>1. CASE k = n
      BY <1>6, <2>4, <3>1
    <3>2. CASE k # n /\ k = 0
      BY <2>2, <2>3, <3>2 DEF Judges
    <3>3. CASE k # n /\ k # 0
      <4>1. k \in 0 .. n - 1 /\ k - 1 \in 0 .. n - 1
        BY <1>4, <3>3
      <4>2. h[k] = JudgeRow(b, h[k - 1], Rows(b)[k])
        BY <2>2, <3>3, <4>1 DEF Judges
      <4>3. QED
        BY <2>3, <3>3, <4>1, <4>2
    <3>4. QED
      BY <3>1, <3>2, <3>3
  <2>6. g = [k \in 0 .. n |-> g[k]]
    OBVIOUS
  <2> HIDE DEF g
  <2>7. Judges(b, g, n)
    BY <2>5, <2>6 DEF Judges
  <2>8. QED
    BY <1>4, <2>7
<1>7. QED
  BY <1>5, <1>6

LEMMA JudgementTurns ==
    ASSUME NEW b, Len(Rows(b)) \in Nat
    PROVE  Judges(b, Judgement(b), Len(Rows(b)))
<1> DEFINE n == Len(Rows(b))
<1>1. \E g : Judges(b, g, n)
  BY JudgementExists
<1>2. Judgement(b) = CHOOSE g : Judges(b, g, n)
  BY DEF Judgement, Judges
<1>3. QED
  BY <1>1, <1>2

\* The record of a row
Concluded(b, i, p) == [name |-> Rows(b)[i].id, tags |-> Rows(b)[i].tags, passed |-> p]

\* A row's result stands at its place, and passes only if its exchange does.
RowsJudged(b, n) ==
    LET results == Judgement(b)[n].results
    IN  /\ results \in Seq({Concluded(b, i, p) : i \in 1 .. Len(Rows(b)), p \in BOOLEAN})
        /\ Len(results) = n
        /\ \A i \in 1 .. n : results[i].passed => RowPasses(Rows(b)[i], Find(b, Row(Rows(b)[i].id)))

LEMMA EachRowJudged ==
    ASSUME NEW b, Len(Rows(b)) \in Nat
    PROVE  RowsJudged(b, Len(Rows(b)))
<1> DEFINE last == Len(Rows(b))
           bad == {n \in 0 .. last : ~RowsJudged(b, n)}
<1>1. SUFFICES ASSUME bad # {} PROVE FALSE
  OBVIOUS
<1>2. PICK n \in bad : \A m \in bad : n <= m
  <2>1. bad \subseteq Nat
    OBVIOUS
  <2> HIDE DEF bad
  <2>2. QED
    BY <1>1, <2>1, LeastExists
<1>3. n \in 0 .. last /\ ~RowsJudged(b, n)
  BY <1>2
<1>4. Judges(b, Judgement(b), last)
  BY JudgementTurns
<1>5. CASE n = 0
  <2>1. Judgement(b)[0].results = <<>>
    BY <1>4 DEF Judges
  <2>2. QED
    BY <1>3, <1>5, <2>1 DEF RowsJudged
<1>6. CASE n # 0
  <2> DEFINE T == {Concluded(b, i, p) : i \in 1 .. last, p \in BOOLEAN}
             before == Judgement(b)[n - 1].results
             row == Rows(b)[n]
             ev == Find(b, Row(row.id))
             passes == Resolves(row, Judgement(b)[n - 1].bindings) /\ RowPasses(row, ev)
             new == [name |-> row.id, tags |-> row.tags, passed |-> passes]
  <2>1. n - 1 \in 0 .. last /\ n - 1 \notin bad
    BY <1>2, <1>3, <1>6
  <2>2. RowsJudged(b, n - 1)
    BY <2>1
  <2>3. /\ before \in Seq(T) /\ Len(before) = n - 1
        /\ \A i \in 1 .. n - 1 :
              before[i].passed => RowPasses(Rows(b)[i], Find(b, Row(Rows(b)[i].id)))
    BY <2>2 DEF RowsJudged
  <2>4. Judgement(b)[n] = JudgeRow(b, Judgement(b)[n - 1], Rows(b)[n])
    BY <1>3, <1>4, <1>6 DEF Judges
  <2>5. Judgement(b)[n].results = Append(before, new)
    BY <2>4 DEF JudgeRow
  <2>6. passes \in BOOLEAN
    OBVIOUS
  <2> HIDE DEF before, passes
  <2>7. new = Concluded(b, n, passes)
    BY DEF Concluded
  <2>8. new \in T
    BY <1>3, <1>6, <2>6, <2>7
  <2>9. new.passed => RowPasses(row, ev)
    BY DEF passes
  <2> HIDE DEF new, T
  <2>10. /\ Append(before, new) \in Seq(T) /\ Len(Append(before, new)) = n
         /\ Append(before, new)[n] = new
         /\ \A i \in 1 .. n - 1 : Append(before, new)[i] = before[i]
    BY <1>3, <1>6, <2>3, <2>8
  <2>11. ASSUME NEW i \in 1 .. n, Append(before, new)[i].passed
         PROVE  RowPasses(Rows(b)[i], Find(b, Row(Rows(b)[i].id)))
    <3>1. CASE i = n
      BY <2>9, <2>10, <2>11, <3>1
    <3>2. CASE i # n
      <4>1. i \in 1 .. n - 1
        BY <1>3, <3>2
      <4>2. QED
        BY <2>3, <2>10, <2>11, <4>1
    <3>3. QED
      BY <3>1, <3>2
  <2>12. RowsJudged(b, n)
    BY <2>5, <2>10, <2>11 DEF RowsJudged, T
  <2>13. QED
    BY <1>3, <2>12
<1>7. QED
  BY <1>5, <1>6

\* A published suite that passes has an answer to each of its rows.
LEMMA PassedRowsAnswered ==
    ASSUME NEW b, Rows(b) \in Seq(ToSet(Rows(b))), PublishedTestSuite(b) = "pass"
    PROVE  \A row \in ToSet(Rows(b)) : Find(b, Row(row.id)).st # 0
<1> DEFINE last == Len(Rows(b))
<1>1. last \in Nat /\ DOMAIN Rows(b) = 1 .. last
  OBVIOUS
<1>2. PublishedSuitePasses(b)
  BY DEF PublishedTestSuite, Optional, PassIf
<1>3. RowsJudged(b, last)
  BY <1>1, EachRowJudged
<1>4. ASSUME NEW i \in 1 .. last PROVE Find(b, Row(Rows(b)[i].id)).st # 0
  <2>1. i \in DOMAIN RowResults(b)
    BY <1>3 DEF RowsJudged, RowResults
  <2>2. RowResults(b)[i].passed
    BY <1>2, <2>1 DEF PublishedSuitePasses, ToSet
  <2>3. RowPasses(Rows(b)[i], Find(b, Row(Rows(b)[i].id)))
    BY <1>3, <2>2 DEF RowsJudged, RowResults
  <2>4. QED
    BY <2>3 DEF RowPasses
<1>5. QED
  BY <1>1, <1>4 DEF ToSet

-----------------------------------------------------------------------------
(* The document that the rows are read from is the site's.                     *)

SuiteInv ==
    LET ev == Ev(bundle, "testSuite")
    IN  HasBody(ev) /\ ev.doc # None =>
            /\ Role("testSuite") \in DOMAIN site.replies
            /\ ev.doc = site.replies[Role("testSuite")].ev.doc

\* What is kept of a body is the site's document or none.
LEMMA ReadKeepsDocument ==
    ASSUME NEW reply, Sound(reply.ev), reply.size \in {"small", "declared", "large"}
    PROVE  /\ Sound(Read(reply)) /\ Read(reply).st = reply.ev.st
           /\ Read(reply).doc \in {None, reply.ev.doc}
<1> DEFINE ev == reply.ev
<1>1. ASSUME NEW kind
      PROVE  LET cut == [ev EXCEPT !.body = kind, !.doc = None]
             IN  Sound(cut) /\ cut.st = ev.st /\ cut.doc = None
  <2> DEFINE shorter == [ev EXCEPT !["body"] = kind]
             cut == [shorter EXCEPT !["doc"] = None]
  <2>1. Sound(shorter) /\ shorter["st"] = ev["st"]
    BY Fields, SoundWith
  <2> HIDE DEF shorter
  <2>2. Sound(cut) /\ cut["doc"] = None /\ cut["st"] = shorter["st"]
    BY <2>1, Fields, SoundWith
  <2>3. cut = [ev EXCEPT !.body = kind, !.doc = None]
    BY DEF shorter
  <2> HIDE DEF cut
  <2>4. QED
    BY <2>1, <2>2, <2>3
<1>2. CASE reply.size = "small"
  BY <1>2 DEF Read
<1>3. CASE reply.size = "declared"
  BY <1>1, <1>3 DEF Read
<1>4. CASE reply.size = "large"
  BY <1>1, <1>4 DEF Read
<1>5. QED
  BY <1>2, <1>3, <1>4

LEMMA AnswerKeepsDocument ==
    ASSUME site \in Sites, NEW request
    PROVE  LET ev == Answer(request)
           IN  HasBody(ev) /\ ev.doc # None =>
                   /\ request.role \in DOMAIN site.replies
                   /\ ev.doc = site.replies[request.role].ev.doc
<1> DEFINE reply == Reply(request.role)
           moved == [NotFound EXCEPT !.st = 307]
           ev == CASE Followed(request) = reply.via -> Read(reply)
                   [] Followed(request) # reply.via /\ request.post -> moved
                   [] OTHER -> NoAnswer
<1>1. Sound(reply.ev) /\ reply.size \in {"small", "declared", "large"}
  BY ReplySound
<1>2. /\ Sound(Read(reply)) /\ Read(reply).st = reply.ev.st
      /\ Read(reply).doc \in {None, reply.ev.doc}
  BY <1>1, ReadKeepsDocument
<1>3. Sound(moved) /\ moved.st = 307
  <2>1. Sound([NotFound EXCEPT !["st"] = 307]) /\ [NotFound EXCEPT !["st"] = 307]["st"] = 307
    BY NotFoundSound, Fields, SoundWith
  <2>2. QED
    BY <2>1
<1>4. NotFound.st = 404
  BY DEF NotFound, NoAnswer
<1>5. request.role \notin DOMAIN site.replies => reply.ev.st = 404
  BY <1>4 DEF Reply
<1>6. request.role \in DOMAIN site.replies => reply = site.replies[request.role]
  BY DEF Reply
<1> HIDE DEF moved, reply
<1>7. /\ Sound(ev)
      /\ ev.st \in 200 .. 299 /\ ev.doc # None =>
            /\ request.role \in DOMAIN site.replies
            /\ ev.doc = site.replies[request.role].ev.doc
  <2>1. CASE Followed(request) = reply.via
    BY <1>2, <1>5, <1>6, <2>1
  <2>2. CASE Followed(request) # reply.via /\ request.post
    BY <1>3, <2>2
  <2>3. CASE Followed(request) # reply.via /\ ~request.post
    BY <2>3, NoAnswerSound
  <2>4. QED
    BY <2>1, <2>2, <2>3
<1>8. Answer(request) = [ev EXCEPT !["at"] = request.at]
  BY DEF Answer, reply, moved
<1> HIDE DEF ev
<1>9. /\ [ev EXCEPT !["at"] = request.at]["st"] = ev["st"]
      /\ [ev EXCEPT !["at"] = request.at]["doc"] = ev["doc"]
  BY <1>7, Fields, SoundWith
<1>10. QED
  BY <1>7, <1>8, <1>9 DEF HasBody, Answered2xx

LEMMA RecordKeepsSuite ==
    ASSUME SuiteInv, NEW role, NEW ev, bundle' = Record(bundle, role, ev), site' = site,
           role = Role("testSuite") /\ HasBody(ev) /\ ev.doc # None =>
               /\ role \in DOMAIN site.replies
               /\ ev.doc = site.replies[role].ev.doc
    PROVE  SuiteInv'
<1> DEFINE suite == Role("testSuite")
<1>1. /\ DOMAIN bundle' = DOMAIN bundle \cup {role}
      /\ \A r \in DOMAIN bundle' : bundle'[r] = IF r \in DOMAIN bundle THEN bundle[r] ELSE ev
  BY DEF Record
<1>2. CASE suite \in DOMAIN bundle \/ role # suite
  <2>1. Find(bundle', suite) = Find(bundle, suite)
    BY <1>1, <1>2 DEF Find
  <2>2. QED
    BY <2>1 DEF SuiteInv, Ev
<1>3. CASE suite \notin DOMAIN bundle /\ role = suite
  <2>1. Find(bundle', suite) = ev
    BY <1>1, <1>3 DEF Find
  <2>2. QED
    BY <1>3, <2>1 DEF SuiteInv, Ev
<1>4. QED
  BY <1>2, <1>3

LEMMA SuiteStep == CountInv /\ SuiteInv /\ [Next]_vars => SuiteInv'
<1> SUFFICES ASSUME CountInv, SuiteInv, [Next]_vars PROVE SuiteInv'
  OBVIOUS
<1>1. CASE UNCHANGED <<site, bundle>>
  BY <1>1 DEF SuiteInv
<1>2. ASSUME NEW request \in queue, NEW answered \in BOOLEAN, Send(request, answered)
      PROVE  SuiteInv'
  <2> DEFINE ev == Exchanged(request, answered)
  <2>1. bundle' = Record(bundle, request.role, ev) /\ site' = site /\ site \in Sites
    BY <1>2 DEF Send, CountInv
  <2>2. ASSUME request.role = Role("testSuite"), HasBody(ev), ev.doc # None
        PROVE  /\ request.role \in DOMAIN site.replies
               /\ ev.doc = site.replies[request.role].ev.doc
    <3>1. request.role # Role("vitestRun")
      BY <2>2 DEF Role
    <3>2. CASE answered
      BY <2>1, <2>2, <3>1, <3>2, AnswerKeepsDocument DEF Exchanged
    <3>3. CASE ~answered
      <4>1. ev = [NoAnswer EXCEPT !.at = request.at]
        BY <3>1, <3>3 DEF Exchanged
      <4>2. ev.st = 0
        BY <4>1 DEF NoAnswer
      <4>3. QED
        BY <2>2, <4>2 DEF HasBody, Answered2xx
    <3>4. QED
      BY <3>2, <3>3
  <2> HIDE DEF ev
  <2>3. QED
    BY <2>1, <2>2, RecordKeepsSuite
<1>3. ASSUME NEW request \in queue, Refuse(request) PROVE SuiteInv'
  <2> DEFINE ev == [NoAnswer EXCEPT !.at = request.at, !.refused = TRUE]
  <2>1. bundle' = Record(bundle, request.role, ev) /\ site' = site
    BY <1>3 DEF Refuse
  <2>2. ev.st = 0
    BY DEF NoAnswer
  <2> HIDE DEF ev
  <2>3. ~HasBody(ev)
    BY <2>2 DEF HasBody, Answered2xx
  <2>4. QED
    BY <2>1, <2>3, RecordKeepsSuite
<1>4. CASE NextStage \/ StopWalk \/ Deadline \/ RunChecks
           \/ \E request \in queue : SkipRow(request)
  BY <1>1, <1>4 DEF NextStage, StopWalk, Deadline, RunChecks, SkipRow
<1>5. QED
  BY <1>1, <1>2, <1>3, <1>4 DEF Next, vars

LEMMA RowsAreSequence ==
    ASSUME site \in Sites, SuiteInv PROVE Rows(bundle) \in Seq(ToSet(Rows(bundle)))
<1>1. CASE ~HasRows(bundle)
  <2>1. Rows(bundle) = <<>>
    BY <1>1 DEF Rows
  <2>2. QED
    BY <2>1
<1>2. CASE HasRows(bundle)
  <2> DEFINE doc == Document(bundle)
  <2>1. doc # None
    BY <1>2 DEF HasRows, Admitted, DocumentFits
  <2>2. /\ Role("testSuite") \in DOMAIN site.replies
        /\ doc = site.replies[Role("testSuite")].ev.doc
    BY <2>1 DEF SuiteInv, Document
  <2>3. doc.rows \in Seq(ToSet(doc.rows))
    BY <2>1, <2>2, SitesAssumption
  <2>4. QED
    BY <1>2, <2>3 DEF Rows
<1>3. QED
  BY <1>1, <1>2

\* Whatever a site serves, whichever answers are lost and wherever the budget or the deadline
\* ends the run: a suite passes only when the artifact is the one that the card pins, each of
\* its rows was answered and its tests came to their end on those bytes, and nothing else
\* covers a capability (judgeVitestPublishedSuite, judgeFoldedRows, foldPublishedSuiteRun).
THEOREM SuitePassedOnlyIfRun == Spec => []PassedSuiteRan
<1>1. Init => SuiteInv
  BY DEF Init, SuiteInv, Ev, Find, NoAnswer, HasBody, Answered2xx
<1>2. CountInv /\ SuiteInv => PassedSuiteRan
  <2> SUFFICES ASSUME CountInv, SuiteInv,
                      PublishedTestSuite(bundle) = "pass" \/ CapabilityCoverage(bundle) = "pass"
               PROVE  /\ Document(bundle).digest = Claim(bundle).digest
                      /\ PublishedTestSuite(bundle) = "pass" =>
                            \A row \in ToSet(Rows(bundle)) : Find(bundle, Row(row.id)).st # 0
                      /\ IsVitest(Claim(bundle)) =>
                            /\ RunRecord(bundle).digest = Document(bundle).digest
                            /\ RunRecord(bundle).outcome = "ran"
    BY DEF PassedSuiteRan
  <2>1. Rows(bundle) \in Seq(ToSet(Rows(bundle)))
    BY RowsAreSequence DEF CountInv
  <2>2. QED
    BY <2>1, PassedRowsAnswered, SuitePassIsOfPinnedArtifact
<1>3. QED
  BY <1>1, <1>2, CountInvariance, SuiteStep, PTL DEF Spec

-----------------------------------------------------------------------------
(* What a lost answer can make of a verdict.                                   *)
(*                                                                             *)
(* One bundle completes another if it has whatever the other has, where the    *)
(* other's exchange says anything: it may have answers for those that were     *)
(* lost, and exchanges that were never made.  Each check that passes reads     *)
(* exchanges that were answered, so it finds them again.                       *)

\* An exchange that says nothing, and a run of the executable tests that came to no end
Mute(ev) ==
    /\ ev.st = 0 /\ ev.body = "none" /\ ev.doc = None
    /\ ~ev.link /\ ev.www = "none" /\ ev.alts = NoAlternates
Silent(role, ev) ==
    IF role = Role("vitestRun") THEN ev.doc = None \/ ev.doc.outcome # "ran" ELSE Mute(ev)
\* A bundle that has whatever answer the other one has
Completes(b, c) ==
    \A role \in DOMAIN c : role \in DOMAIN b /\ (b[role] = c[role] \/ Silent(role, c[role]))

\* An exchange that says something is in the other bundle as it is.
LEMMA Heard ==
    ASSUME NEW b, NEW c, Completes(b, c), NEW role, role # Role("vitestRun"), ~Mute(Find(c, role))
    PROVE  role \in DOMAIN c /\ role \in DOMAIN b /\ Find(b, role) = Find(c, role)
<1>1. Mute(NoAnswer)
  BY DEF Mute, NoAnswer
<1>2. role \in DOMAIN c
  BY <1>1 DEF Find
<1>3. QED
  BY <1>2 DEF Find, Completes, Silent

\* The same, by the name of the role: a status, a body or a link is something.
LEMMA Answers ==
    ASSUME NEW b, NEW c, Completes(b, c), NEW name, name # "vitestRun",
           Ev(c, name).st # 0 \/ Ev(c, name).body # "none" \/ Ev(c, name).link
    PROVE  Ev(b, name) = Ev(c, name)
<1>1. Role(name) # Role("vitestRun")
  BY DEF Role
<1>2. ~Mute(Find(c, Role(name)))
  BY DEF Mute, Ev
<1>3. QED
  BY <1>1, <1>2, Heard DEF Ev

\* What was served with a 2xx, what was read as a document and what is an object stay so.
LEMMA Served2xx ==
    ASSUME NEW b, NEW c, Completes(b, c), NEW name, name # "vitestRun", Ok(c, name)
    PROVE  Ev(b, name) = Ev(c, name) /\ Ok(b, name) /\ Doc(b, name) = Doc(c, name)
<1>1. Ev(c, name).st # 0
  BY DEF Ok, Answered2xx
<1>2. QED
  BY <1>1, Answers DEF Ok, Doc

LEMMA Documents ==
    ASSUME NEW b, NEW c, Completes(b, c), NEW name, name # "vitestRun", Doc(c, name) # None
    PROVE  Ev(b, name) = Ev(c, name) /\ Doc(b, name) = Doc(c, name)
<1>1. Ev(c, name).st # 0
  BY DEF Doc, Json
<1>2. QED
  BY <1>1, Answers DEF Doc

LEMMA Objects ==
    ASSUME NEW b, NEW c, Completes(b, c), NEW name, name # "vitestRun", IsObject(Doc(c, name))
    PROVE  Ev(b, name) = Ev(c, name) /\ Doc(b, name) = Doc(c, name)
  BY Documents DEF IsObject

\* A card and a registry manifest that say anything are read again.
LEMMA Cards ==
    ASSUME NEW b, NEW c, Completes(b, c), Card(c) # NoCard
    PROVE  Card(b) = Card(c)
<1>1. IsObject(Doc(c, "agents"))
  BY DEF Card, Object
<1>2. QED
  BY <1>1, Objects DEF Card, Object

LEMMA Servers ==
    ASSUME NEW b, NEW c, Completes(b, c), Server(c) # None
    PROVE  Server(b) = Server(c) /\ ServerRemote(b) = ServerRemote(c) /\ Domain(b) = Domain(c)
<1>1. IsObject(Doc(c, "serverJson"))
  BY DEF Server, Object
<1>2. Server(b) = Server(c)
  BY <1>1, Objects DEF Server, Object
<1>3. QED
  BY <1>2 DEF ServerRemote, Domain

\* A message of an MCP server.
LEMMA Messages ==
    ASSUME NEW b, NEW c, Completes(b, c), NEW name, name # "vitestRun", Message(c, name) # None
    PROVE  Message(b, name) = Message(c, name)
<1>1. IsObject(Doc(c, name))
  BY DEF Message, Object
<1>2. QED
  BY <1>1, Objects DEF Message, Object

\* Doors are recorded by their paths, and a price is read only of a site whose card was.
Doored(b) == \A role \in DOMAIN b : role[1] = "keyless" => role = Keyless(role[2])
Priced(b) == Role("pricing") \in DOMAIN b => IsObject(Doc(b, "agents"))

\* Each of the ten checks, but for content negotiation.
LEMMA SurfacesKeep ==
    ASSUME NEW b, NEW c, Completes(b, c), Doored(c)
    PROVE  /\ LlmsTxt(c) = "pass" => LlmsTxt(b) = "pass"
           /\ AgentsJson(c) = "pass" => AgentsJson(b) = "pass"
           /\ IcpJson(c) = "pass" => IcpJson(b) = "pass"
           /\ OpenapiPublished(c) = "pass" => OpenapiPublished(b) = "pass"
           /\ McpDeclared(c) = "pass" => McpDeclared(b) = "pass"
           /\ KeylessFlow(c) = "pass" => KeylessFlow(b) = "pass"
           /\ Linkset(c) = "pass" => Linkset(b) = "pass"
           /\ Attestation(c) = "pass" => Attestation(b) = "pass"
<1>1. ASSUME LlmsTxt(c) = "pass" PROVE LlmsTxt(b) = "pass"
  BY <1>1, Served2xx DEF LlmsTxt, PassIf, Text, HasText
<1>2. ASSUME AgentsJson(c) = "pass" PROVE AgentsJson(b) = "pass"
  BY <1>2, Served2xx DEF AgentsJson, PassIf, Card
<1>3. ASSUME IcpJson(c) = "pass" PROVE IcpJson(b) = "pass"
  BY <1>3, Served2xx DEF IcpJson, PassIf
<1>4. ASSUME OpenapiPublished(c) = "pass" PROVE OpenapiPublished(b) = "pass"
  BY <1>4, Served2xx DEF OpenapiPublished, PassIf, Openapi
<1>5. ASSUME McpDeclared(c) = "pass" PROVE McpDeclared(b) = "pass"
  <2>1. Card(c).mcp # None
    BY <1>5 DEF McpDeclared, PassIf
  <2>2. Card(b) = Card(c)
    BY <2>1, Cards DEF NoCard
  <2>3. QED
    BY <1>5, <2>2 DEF McpDeclared
<1>6. ASSUME KeylessFlow(c) = "pass" PROVE KeylessFlow(b) = "pass"
  <2>1. PICK ev \in Doors(c) : Answered2xx(ev)
    BY <1>6 DEF KeylessFlow, PassIf
  <2>2. PICK p \in Probed(c, "keyless") : ev = c[Keyless(p)]
    BY DEF Doors
  <2>3. Keyless(p) \in DOMAIN c
    BY DEF Probed, Doored
  <2>4. ~Mute(Find(c, Keyless(p)))
    BY <2>1, <2>2, <2>3 DEF Mute, Answered2xx, Find
  <2>5. Keyless(p) \in DOMAIN b /\ b[Keyless(p)] = ev
    BY <2>2, <2>3, <2>4, Heard DEF Find, Keyless, Role
  <2>6. p \in Probed(b, "keyless")
    BY <2>5 DEF Probed, Keyless
  <2>7. ev \in Doors(b)
    BY <2>5, <2>6 DEF Doors
  <2>8. QED
    BY <2>1, <2>7 DEF KeylessFlow, PassIf
<1>7. ASSUME Linkset(c) = "pass" PROVE Linkset(b) = "pass"
  <2>1. CASE Ev(c, "rootAgent").link
    BY <2>1, Answers DEF Linkset, PassIf
  <2>2. CASE ~Ev(c, "rootAgent").link
    <3>1. Cardinality(Mentions(c) \cap Siblings) >= 2
      BY <1>7, <2>2 DEF Linkset, PassIf
    <3>2. Mentions(c) # {}
      <4>1. SUFFICES ASSUME Mentions(c) = {} PROVE FALSE
        OBVIOUS
      <4>2. Cardinality(Mentions(c) \cap Siblings) = 0
        BY <4>1, FS_EmptySet
      <4>3. QED
        BY <3>1, <4>2
    <3>3. Ev(c, "llms").body # "none"
      BY <3>2 DEF Mentions, Text, HasText
    <3>4. Ev(b, "llms") = Ev(c, "llms")
      BY <3>3, Answers
    <3>5. Mentions(b) = Mentions(c)
      BY <3>4 DEF Mentions, Text, HasText
    <3>6. QED
      BY <3>1, <3>5 DEF Linkset, PassIf
  <2>3. QED
    BY <2>1, <2>2
<1>8. ASSUME Attestation(c) = "pass" PROVE Attestation(b) = "pass"
  <2>1. CASE Card(c).attestation
    <3>1. Card(c) # NoCard
      BY <2>1 DEF NoCard
    <3>2. Card(b) = Card(c)
      BY <3>1, Cards
    <3>3. QED
      BY <2>1, <3>2 DEF Attestation, PassIf
  <2>2. CASE ~Card(c).attestation
    <3>1. IsObject(Doc(c, "icp")) /\ Doc(c, "icp").ladder
      BY <1>8, <2>2 DEF Attestation, PassIf
    <3>2. QED
      BY <3>1, Objects DEF Attestation, PassIf
  <2>3. QED
    BY <2>1, <2>2
<1>9. QED
  BY <1>1, <1>2, <1>3, <1>4, <1>5, <1>6, <1>7, <1>8

\* The offer: a free site is one that published a price, which only a card leads to.
LEMMA OffersKeep ==
    ASSUME NEW b, NEW c, Completes(b, c), Priced(c), Offers402(c) = "pass"
    PROVE  Offers402(b) = "pass"
<1>1. CASE Card(c) = NoCard /\ ~IsObject(Doc(c, "agents"))
  <2>1. PricingModel(c) = "free"
    BY <1>1 DEF Offers402, NoCard, PassIf
  <2>2. Ok(c, "pricing")
    BY <2>1 DEF PricingModel
  <2>3. Role("pricing") \in DOMAIN c
    BY <2>2 DEF Ok, Ev, Find, Answered2xx, NoAnswer
  <2>4. QED
    BY <1>1, <2>3 DEF Priced
<1>2. CASE IsObject(Doc(c, "agents"))
  <2>1. Card(b) = Card(c)
    BY <1>2, Objects DEF Card, Object
  <2> DEFINE card == Card(c)
             violation == card.boundary # None /\ ~OfferProbe(card)
  <2>2. ~violation
    BY DEF Offers402
  <2>3. CASE ~card.offers
    <3>1. ~OfferProbe(card) /\ PricingModel(c) = "free"
      BY <2>2, <2>3 DEF Offers402, PassIf
    <3>2. Ok(c, "pricing")
      BY <3>1 DEF PricingModel
    <3>3. PricingModel(b) = "free"
      BY <3>1, <3>2, Served2xx DEF PricingModel
    <3>4. QED
      BY <2>1, <2>2, <2>3, <3>1, <3>3 DEF Offers402, PassIf
  <2>4. CASE card.offers /\ OfferProbe(card)
    <3>1. Ev(c, "offer").st = 402 /\ IsObject(Doc(c, "offer")) /\ Doc(c, "offer").typed
      BY <2>2, <2>4 DEF Offers402, PassIf
    <3>2. Ev(b, "offer") = Ev(c, "offer") /\ Doc(b, "offer") = Doc(c, "offer")
      BY <3>1, Objects
    <3>3. QED
      BY <2>1, <2>2, <2>4, <3>1, <3>2 DEF Offers402, PassIf
  <2>5. CASE card.offers /\ ~OfferProbe(card)
    BY <2>1, <2>2, <2>5 DEF Offers402
  <2>6. QED
    BY <2>3, <2>4, <2>5
<1>3. QED
  BY <1>1, <1>2 DEF Card, Object

\* Heard metadata: RFC 8414's answer, or none of it.
FirstHeard(c) == Ev(c, "as").st # 0

\* A check of the MCP endpoint, by what it holds against the endpoint.
LEMMA McpKeeps ==
    ASSUME NEW b, NEW c, Completes(b, c), NEW holdsB \in BOOLEAN, NEW holdsC \in BOOLEAN,
           holdsC => holdsB, McpCheck(c, holdsC) = "pass"
    PROVE  McpCheck(b, holdsB) # "fail"
<1>1. IsRemote(Card(c)) /\ Local(Card(c).mcp.at) /\ holdsC
  BY DEF McpCheck, PassIf
<1>2. Card(c) # NoCard
  BY <1>1 DEF IsRemote, NoCard
<1>3. Card(b) = Card(c)
  BY <1>2, Cards
<1>4. QED
  BY <1>1, <1>3 DEF McpCheck, PassIf

\* The checks of the protected resource.
LEMMA OauthKeeps ==
    ASSUME NEW b, NEW c, Completes(b, c)
    PROVE  /\ ProtectedResource(c) = "pass" => ProtectedResource(b) # "fail"
           /\ ResourceIndicators(c) = "pass" => ResourceIndicators(b) # "fail"
           /\ WwwAuthenticate(c) = "pass" => WwwAuthenticate(b) # "fail"
<1>1. ASSUME ProtectedResource(c) = "pass" PROVE ProtectedResource(b) # "fail"
  <2> DEFINE holds(x) == /\ Ok(x, "protected") /\ Audience(x) # None
                         /\ IsObject(Doc(x, "protected")) /\ Doc(x, "protected").servers # <<>>
  <2>1. holds(b) \in BOOLEAN /\ holds(c) \in BOOLEAN
    OBVIOUS
  <2>2. holds(c) => holds(b)
    BY Served2xx DEF Audience
  <2>3. ProtectedResource(b) = McpCheck(b, holds(b)) /\ ProtectedResource(c) = McpCheck(c, holds(c))
    BY DEF ProtectedResource
  <2> HIDE DEF holds
  <2>4. QED
    BY <1>1, <2>1, <2>2, <2>3, McpKeeps
<1>2. ASSUME ResourceIndicators(c) = "pass" PROVE ResourceIndicators(b) # "fail"
  <2> DEFINE holds(x) == Audience(x) # None /\ Audience(x) = McpUrl(Card(x))
  <2>1. holds(b) \in BOOLEAN /\ holds(c) \in BOOLEAN
    OBVIOUS
  <2>2. holds(c) => holds(b)
    <3>1. SUFFICES ASSUME holds(c) PROVE holds(b)
      OBVIOUS
    <3>2. IsObject(Doc(c, "protected"))
      BY <3>1 DEF Audience
    <3>3. Audience(b) = Audience(c)
      BY <3>2, Objects DEF Audience
    <3>4. Card(c) # NoCard
      BY <3>1 DEF McpUrl, NoCard
    <3>5. QED
      BY <3>1, <3>3, <3>4, Cards
  <2>3. ResourceIndicators(b) = McpCheck(b, holds(b)) /\ ResourceIndicators(c) = McpCheck(c, holds(c))
    BY DEF ResourceIndicators
  <2> HIDE DEF holds
  <2>4. QED
    BY <1>2, <2>1, <2>2, <2>3, McpKeeps
<1>3. ASSUME WwwAuthenticate(c) = "pass" PROVE WwwAuthenticate(b) # "fail"
  <2> DEFINE holds(x) == Ev(x, "mcp").st \in {401, 403} /\ Ev(x, "mcp").www = "metadata"
  <2>1. holds(b) \in BOOLEAN /\ holds(c) \in BOOLEAN
    OBVIOUS
  <2>2. holds(c) => holds(b)
    BY Answers
  <2>3. WwwAuthenticate(b) = McpCheck(b, holds(b)) /\ WwwAuthenticate(c) = McpCheck(c, holds(c))
    BY DEF WwwAuthenticate
  <2> HIDE DEF holds
  <2>4. QED
    BY <1>3, <2>1, <2>2, <2>3, McpKeeps
<1>4. QED
  BY <1>1, <1>2, <1>3

\* Where RFC 8414's metadata was answered, the judge has the same metadata.
LEMMA MetadataHeard ==
    ASSUME NEW b, NEW c, Completes(b, c), FirstHeard(c), AsMeta(c) # None
    PROVE  AsMeta(b) = AsMeta(c) /\ AsEvidence(b) = AsEvidence(c) /\ (AsResolved(c) => AsResolved(b))
<1>1. Ev(b, "as") = Ev(c, "as")
  BY Answers DEF FirstHeard
<1>2. CASE Ok(c, "as")
  BY <1>1, <1>2 DEF AsMeta, AsEvidence, AsResolved, Ok
<1>3. CASE ~Ok(c, "as") /\ Ok(c, "oidc")
  BY <1>1, <1>3, Served2xx DEF AsMeta, AsEvidence, AsResolved, Ok
<1>4. CASE ~Ok(c, "as") /\ ~Ok(c, "oidc")
  BY <1>4 DEF AsMeta, AsEvidence, Metadata, Object, Json, IsObject, NoAnswer
<1>5. QED
  BY <1>2, <1>3, <1>4

\* The authorization server is the one that the resource names.
LEMMA AuthServerHeard ==
    ASSUME NEW b, NEW c, Completes(b, c), AuthServer(c) # None
    PROVE  AuthServer(b) = AuthServer(c)
  BY Objects DEF AuthServer

\* The checks of the authorization server: of a first metadata document that was answered.
LEMMA DelegationKeeps ==
    ASSUME NEW b, NEW c, Completes(b, c), FirstHeard(c)
    PROVE  /\ AsMetadata(c) = "pass" => AsMetadata(b) # "fail"
           /\ Pkce(c) = "pass" => Pkce(b) # "fail"
           /\ Dcr(c) = "pass" => Dcr(b) # "fail"
           /\ AuthmdAgentIdentity(c) = "pass" => AuthmdAgentIdentity(b) # "fail"
<1>1. ASSUME AsMetadata(c) = "pass" PROVE AsMetadata(b) # "fail"
  <2> DEFINE holds(x) == Delegable(AuthServer(x)) /\ AsResolved(x) /\ AsMeta(x) # None /\ AsMeta(x).complete
  <2>3. /\ AsMetadata(b) = McpCheck(b, holds(b)) /\ AsMetadata(c) = McpCheck(c, holds(c))
    BY DEF AsMetadata
  <2>2. holds(c) => holds(b)
    BY MetadataHeard, AuthServerHeard DEF Delegable
  <2>4. QED
    BY <1>1, <2>2, <2>3, Cards DEF McpCheck, PassIf, IsRemote, NoCard
<1>2. ASSUME Pkce(c) = "pass" PROVE Pkce(b) # "fail"
  <2> DEFINE holds(x) == AsResolved(x) /\ AsMeta(x) # None /\ AsMeta(x).pkce
  <2>3. Pkce(b) = McpCheck(b, holds(b)) /\ Pkce(c) = McpCheck(c, holds(c))
    BY DEF Pkce
  <2>2. holds(c) => holds(b)
    BY MetadataHeard
  <2>4. QED
    BY <1>2, <2>2, <2>3, Cards DEF McpCheck, PassIf, IsRemote, NoCard
<1>3. ASSUME Dcr(c) = "pass" PROVE Dcr(b) # "fail"
  <2> DEFINE holds(x) == AsResolved(x) /\ AsMeta(x) # None /\ AsMeta(x).register
  <2>3. Dcr(b) = McpCheck(b, holds(b)) /\ Dcr(c) = McpCheck(c, holds(c))
    BY DEF Dcr
  <2>2. holds(c) => holds(b)
    BY MetadataHeard
  <2>4. QED
    BY <1>3, <2>2, <2>3, Cards DEF McpCheck, PassIf, IsRemote, NoCard
<1>4. ASSUME AuthmdAgentIdentity(c) = "pass" PROVE AuthmdAgentIdentity(b) # "fail"
  <2>1. AsMeta(c) # None
    BY <1>4 DEF AuthmdAgentIdentity, AgentAuth
  <2>2. AsMeta(b) = AsMeta(c) /\ AsEvidence(b) = AsEvidence(c)
    BY <2>1, MetadataHeard
  <2>3. Ev(c, "identity").st # 0
    BY <1>4 DEF AuthmdAgentIdentity, PassIf
  <2>4. Ev(b, "identity") = Ev(c, "identity")
    BY <2>3, Answers
  <2> DEFINE verdict(auth, at, identity) ==
               IF auth = None THEN "skip"
               ELSE PassIf(/\ auth # Junk
                           /\ auth.complete /\ auth.idjag
                           /\ SameOrigin(auth.identity, at)
                           /\ identity.st # 0 /\ identity.st # 404 /\ identity.st < 500)
  <2>5. \A x \in {b, c} : AuthmdAgentIdentity(x)
                             = verdict(AgentAuth(AsMeta(x)), AsEvidence(x).at, Ev(x, "identity"))
    BY DEF AuthmdAgentIdentity
  <2> HIDE DEF verdict
  <2>6. AuthmdAgentIdentity(b) = AuthmdAgentIdentity(c)
    BY <2>2, <2>4, <2>5
  <2>7. QED
    BY <1>4, <2>6
<1>5. QED
  BY <1>1, <1>2, <1>3, <1>4

\* The agent's own configuration and the registry's manifest.
LEMMA RegistryKeeps ==
    ASSUME NEW b, NEW c, Completes(b, c)
    PROVE  /\ AapDiscovery(c) = "pass" => AapDiscovery(b) # "fail"
           /\ McpServerJson(c) = "pass" => McpServerJson(b) # "fail"
           /\ McpRemoteLive(c) = "pass" => McpRemoteLive(b) # "fail"
           /\ McpRegistryOwnership(c) = "pass" => McpRegistryOwnership(b) # "fail"
           /\ McpRegistryPresence(b) # "fail"
<1>1. ASSUME AapDiscovery(c) = "pass" PROVE AapDiscovery(b) # "fail"
  BY <1>1, Served2xx DEF AapDiscovery, Optional, PassIf
<1>2. ASSUME McpServerJson(c) = "pass" PROVE McpServerJson(b) # "fail"
  <2>1. Ok(c, "serverJson") /\ Server(c) # None
    BY <1>2 DEF McpServerJson, Optional, PassIf
  <2>2. Server(b) = Server(c)
    BY <2>1, Servers
  <2>3. QED
    BY <1>2, <2>1, <2>2 DEF McpServerJson, Optional, PassIf
<1>3. ASSUME McpRemoteLive(c) = "pass" PROVE McpRemoteLive(b) # "fail"
  <2> DEFINE alive(x) ==
               \/ Ev(x, "remoteInit").st \in {401, 403}
               \/ /\ Answered2xx(Ev(x, "remoteInit"))
                  /\ ~(Message(x, "remoteInit") # None /\ Message(x, "remoteInit").error)
                  /\ ToolNames(x) # {}
  <2>1. Served(c) /\ ServerRemote(c) # None /\ Delegable(ServerRemote(c)) /\ alive(c)
    BY <1>3 DEF McpRemoteLive, Optional, PassIf
  <2>2. ServerRemote(b) = ServerRemote(c)
    BY <2>1, Servers DEF Served
  <2>3. Ev(b, "remoteInit") = Ev(c, "remoteInit")
    <3>1. Ev(c, "remoteInit").st # 0
      BY <2>1 DEF Answered2xx
    <3>2. QED
      BY <3>1, Answers
  <2>4. Message(b, "remoteInit") = Message(c, "remoteInit")
    BY <2>3 DEF Message, Doc
  <2>5. ToolNames(c) # {} => ToolNames(b) = ToolNames(c)
    <3>1. ASSUME Message(c, "tools") # None PROVE ToolNames(b) = ToolNames(c)
      BY <3>1, Messages DEF ToolNames, Tools
    <3>2. ASSUME Message(c, "tools") = None PROVE ToolNames(c) = {}
      BY <3>2 DEF ToolNames, Tools
    <3>3. QED
      BY <3>1, <3>2
  <2>6. alive(b)
    BY <2>1, <2>3, <2>4, <2>5
  <2> HIDE DEF alive
  <2>7. QED
    BY <2>1, <2>2, <2>6 DEF McpRemoteLive, Optional, PassIf, alive
<1>4. ASSUME McpRegistryOwnership(c) = "pass" PROVE McpRegistryOwnership(b) # "fail"
  <2>1. Served(c) /\ NameIsValid(Server(c)) /\ Server(c) # None
    BY <1>4 DEF McpRegistryOwnership, Optional, Served
  <2>2. Server(b) = Server(c) /\ Domain(b) = Domain(c)
    BY <2>1, Servers
  <2>3. CASE Server(c).name = "github"
    <3>1. Listed(c)
      BY <1>4, <2>1, <2>3 DEF McpRegistryOwnership, Optional, PassIf
    <3>2. Listed(b)
      BY <3>1, Served2xx DEF Listed
    <3>3. QED
      BY <2>1, <2>2, <2>3, <3>2 DEF McpRegistryOwnership, Optional, PassIf
  <2>4. CASE Server(c).name # "github"
    <3>1. Proves(Ev(c, "dns")) \/ (Proves(Ev(c, "registryAuth")) /\ Ev(c, "registryAuth").at = Domain(c))
      BY <1>4, <2>1, <2>4 DEF McpRegistryOwnership, Optional, PassIf
    <3>2. Proves(Ev(b, "dns")) \/ (Proves(Ev(b, "registryAuth")) /\ Ev(b, "registryAuth").at = Domain(b))
      <4>1. ASSUME NEW name \in {"dns", "registryAuth"}, Proves(Ev(c, name))
            PROVE  Ev(b, name) = Ev(c, name)
        <5>1. Ev(c, name).st # 0 /\ name # "vitestRun"
          BY <4>1 DEF Proves, Answered2xx
        <5>2. QED
          BY <5>1, Answers
      <4>2. QED
        BY <2>2, <3>1, <4>1
    <3>3. QED
      BY <2>2, <2>4, <3>2 DEF McpRegistryOwnership, Optional, PassIf
  <2>5. QED
    BY <2>3, <2>4
<1>5. McpRegistryPresence(b) # "fail"
  BY DEF McpRegistryPresence
<1>6. QED
  BY <1>1, <1>2, <1>3, <1>4, <1>5

\* No tool has a template where there is none.
LEMMA NoUi == FirstUi(<<>>) = None
  BY DEF FirstUi, SelectInSeq

\* The widget: the tool, its call and the resource are read as they were.
LEMMA WidgetHeard ==
    ASSUME NEW b, NEW c, Completes(b, c)
    PROVE  /\ UiTool(c) # None => UiTool(b) = UiTool(c)
           /\ CallResult(c) # None => CallResult(b) = CallResult(c)
           /\ UiTool(c) # None /\ CallResult(c) # None /\ Resource(c) # None =>
                 Resource(b) = Resource(c) /\ ExternalUrl(b) = ExternalUrl(c)
<1>1. ASSUME UiTool(c) # None PROVE UiTool(b) = UiTool(c)
  <2>1. Message(c, "tools") # None
    <3>1. SUFFICES ASSUME Message(c, "tools") = None PROVE FALSE
      OBVIOUS
    <3>2. Tools(c) = <<>>
      BY <3>1 DEF Tools
    <3>3. QED
      BY <1>1, <3>2, NoUi DEF UiTool
  <2>2. Tools(b) = Tools(c)
    BY <2>1, Messages DEF Tools
  <2>3. QED
    BY <2>2 DEF UiTool
<1>2. CallResult(c) # None => CallResult(b) = CallResult(c)
  BY Messages DEF CallResult
<1>3. ASSUME UiTool(c) # None, CallResult(c) # None, Resource(c) # None
      PROVE  Resource(b) = Resource(c) /\ ExternalUrl(b) = ExternalUrl(c)
  <2>1. WantedUri(b) = WantedUri(c)
    BY <1>1, <1>2, <1>3 DEF WantedUri, LinkedUri
  <2>2. Message(c, "read") # None
    BY <1>3 DEF Resource, ContentOf
  <2>3. Resource(b) = Resource(c)
    BY <2>1, <2>2, Messages DEF Resource
  <2>4. QED
    BY <2>3 DEF ExternalUrl
<1>4. QED
  BY <1>1, <1>2, <1>3

\* The checks of the widget.
LEMMA WidgetKeeps ==
    ASSUME NEW b, NEW c, Completes(b, c)
    PROVE  /\ McpUiLinkage(c) = "pass" => McpUiLinkage(b) # "fail"
           /\ McpUiSelfContained(c) = "pass" => McpUiSelfContained(b) # "fail"
           /\ McpUiEnvelopeHygiene(c) = "pass" => McpUiEnvelopeHygiene(b) # "fail"
           /\ McpUiRegisterParity(c) = "pass" => McpUiRegisterParity(b) # "fail"
           /\ McpUiHostRender(c) = "pass" => McpUiHostRender(b) # "fail"
<1>1. ASSUME McpUiLinkage(c) = "pass" PROVE McpUiLinkage(b) # "fail"
  <2>1. UiTool(c) # None /\ LinkedUri(c) # None /\ Resource(c) # None
    BY <1>1 DEF McpUiLinkage, UiCheck, PassIf
  <2>2. CallResult(c) # None
    BY <2>1 DEF LinkedUri
  <2>3. /\ UiTool(b) = UiTool(c) /\ LinkedUri(b) = LinkedUri(c)
        /\ Resource(b) = Resource(c) /\ ExternalUrl(b) = ExternalUrl(c)
    BY <2>1, <2>2, WidgetHeard DEF LinkedUri
  <2>4. QED
    BY <1>1, <2>3 DEF McpUiLinkage, UiCheck
<1>2. ASSUME McpUiSelfContained(c) = "pass" PROVE McpUiSelfContained(b) # "fail"
  <2>1. UiTool(c) # None /\ Page(c) # None /\ CallResult(c) # None
    BY <1>2 DEF McpUiSelfContained, UiCheck, PassIf
  <2>2. Resource(c) # None
    BY <2>1 DEF Page, ExternalUrl
  <2>3. /\ UiTool(b) = UiTool(c) /\ CallResult(b) = CallResult(c)
        /\ Resource(b) = Resource(c) /\ ExternalUrl(b) = ExternalUrl(c)
    BY <2>1, <2>2, WidgetHeard
  <2>4. Page(b) = Page(c)
    <3>1. CASE ExternalUrl(c) = None
      BY <2>3, <3>1 DEF Page
    <3>2. CASE ExternalUrl(c) # None
      <4>1. Fetched(Ev(c, "external")) # None
        BY <2>1, <3>2 DEF Page
      <4>2. Ev(c, "external").body # "none"
        BY <4>1 DEF Fetched
      <4>3. Ev(b, "external") = Ev(c, "external")
        BY <4>2, Answers
      <4>4. QED
        BY <2>3, <4>3 DEF Page
    <3>3. QED
      BY <3>1, <3>2
  <2>5. QED
    BY <1>2, <2>3, <2>4 DEF McpUiSelfContained, UiCheck
<1>3. ASSUME McpUiEnvelopeHygiene(c) = "pass" PROVE McpUiEnvelopeHygiene(b) # "fail"
  <2>1. UiTool(c) # None /\ CallResult(c) # None
    BY <1>3 DEF McpUiEnvelopeHygiene, UiCheck
  <2>2. UiTool(b) = UiTool(c) /\ CallResult(b) = CallResult(c)
    BY <2>1, WidgetHeard
  <2>3. QED
    BY <1>3, <2>2 DEF McpUiEnvelopeHygiene, UiCheck
<1>4. ASSUME McpUiRegisterParity(c) = "pass" PROVE McpUiRegisterParity(b) # "fail"
  <2>1. UiTool(c) # None /\ CallResult(c) # None
    BY <1>4 DEF McpUiRegisterParity, UiCheck
  <2>2. UiTool(b) = UiTool(c) /\ CallResult(b) = CallResult(c)
    BY <2>1, WidgetHeard
  <2>3. QED
    BY <1>4, <2>2 DEF McpUiRegisterParity, UiCheck
<1>5. ASSUME McpUiHostRender(c) = "pass" PROVE McpUiHostRender(b) # "fail"
  <2>1. UiTool(c) # None
    BY <1>5 DEF McpUiHostRender, UiCheck
  <2>2. UiTool(b) = UiTool(c)
    BY <2>1, WidgetHeard
  <2>3. QED
    BY <1>5, <2>2 DEF McpUiHostRender, UiCheck
<1>6. QED
  BY <1>1, <1>2, <1>3, <1>4, <1>5

\* The stream and its twin, and the digital link.
LEMMA StreamKeeps ==
    ASSUME NEW b, NEW c, Completes(b, c)
    PROVE  /\ UiStreamTransport(c) = "pass" => UiStreamTransport(b) # "fail"
           /\ UiStreamFraming(c) = "pass" => UiStreamFraming(b) # "fail"
           /\ UiStreamPartShapes(c) = "pass" => UiStreamPartShapes(b) # "fail"
           /\ UiStreamEnvelopeHygiene(c) = "pass" => UiStreamEnvelopeHygiene(b) # "fail"
           /\ UiStreamParity(c) = "pass" => UiStreamParity(b) # "fail"
           /\ DigitalLinkResolver(c) = "pass" => DigitalLinkResolver(b) # "fail"
<1> DEFINE streamed == StreamDeclared(c) /\ Ok(c, "stream")
<1>1. ASSUME streamed
      PROVE  /\ StreamDeclared(b) /\ Ok(b, "stream") /\ Ev(b, "stream") = Ev(c, "stream")
             /\ Frames(b) = Frames(c) /\ Parts(b) = Parts(c) /\ Dones(b) = Dones(c)
             /\ Outputs(b) = Outputs(c)
  <2>1. Ev(b, "stream") = Ev(c, "stream") /\ Ok(b, "stream")
    BY <1>1, Served2xx
  <2>2. StreamDeclared(b)
    BY <1>1 DEF StreamDeclared, Completes
  <2>3. Frames(b) = Frames(c)
    BY <2>1 DEF Frames
  <2>4. Parts(b) = Parts(c) /\ Dones(b) = Dones(c)
    BY <2>3 DEF Parts, Dones
  <2>5. QED
    BY <2>1, <2>2, <2>3, <2>4 DEF Outputs
<1>2. ASSUME UiStreamTransport(c) = "pass" PROVE UiStreamTransport(b) # "fail"
  <2>1. streamed
    BY <1>2 DEF UiStreamTransport, Optional, PassIf
  <2>2. QED
    BY <1>1, <1>2, <2>1 DEF UiStreamTransport, Optional, PassIf
<1>3. ASSUME UiStreamFraming(c) = "pass" PROVE UiStreamFraming(b) # "fail"
  <2>1. streamed
    BY <1>3 DEF UiStreamFraming
  <2>2. UiStreamFraming(b) = UiStreamFraming(c)
    BY <1>1, <2>1 DEF UiStreamFraming
  <2>3. QED
    BY <1>3, <2>2
<1>4. ASSUME UiStreamPartShapes(c) = "pass" PROVE UiStreamPartShapes(b) # "fail"
  <2>1. streamed
    BY <1>4 DEF UiStreamPartShapes, StreamCheck
  <2>2. UiStreamPartShapes(b) = UiStreamPartShapes(c)
    BY <1>1, <2>1 DEF UiStreamPartShapes, StreamCheck
  <2>3. QED
    BY <1>4, <2>2
<1>5. ASSUME UiStreamEnvelopeHygiene(c) = "pass" PROVE UiStreamEnvelopeHygiene(b) # "fail"
  <2>1. streamed
    BY <1>5 DEF UiStreamEnvelopeHygiene, StreamCheck
  <2>2. UiStreamEnvelopeHygiene(b) = UiStreamEnvelopeHygiene(c)
    BY <1>1, <2>1 DEF UiStreamEnvelopeHygiene, StreamCheck
  <2>3. QED
    BY <1>5, <2>2
<1>6. ASSUME UiStreamParity(c) = "pass" PROVE UiStreamParity(b) # "fail"
  <2>1. streamed /\ Json(Ev(c, "twin")) # None
    BY <1>6 DEF UiStreamParity, StreamCheck
  <2>2. Json(Ev(b, "twin")) = Json(Ev(c, "twin"))
    BY <2>1, Documents DEF Doc
  <2>3. UiStreamParity(b) = UiStreamParity(c)
    BY <1>1, <2>1, <2>2 DEF UiStreamParity, StreamCheck
  <2>4. QED
    BY <1>6, <2>3
<1>7. ASSUME DigitalLinkResolver(c) = "pass" PROVE DigitalLinkResolver(b) # "fail"
  <2>1. Card(c).digitalLink # None /\ Ok(c, "gs1")
    BY <1>7 DEF DigitalLinkResolver, Optional, PassIf, Ok
  <2>2. Card(b) = Card(c)
    BY <2>1, Cards DEF NoCard
  <2>3. Ev(b, "gs1") = Ev(c, "gs1")
    BY <2>1, Served2xx
  <2>4. QED
    BY <1>7, <2>2, <2>3 DEF DigitalLinkResolver
<1>8. QED
  BY <1>2, <1>3, <1>4, <1>5, <1>6, <1>7

\* The faces of the agent-first contract, and the links between them.
LEMMA FacesKeep ==
    ASSUME NEW b, NEW c, Completes(b, c)
    PROVE  /\ ConnegAccept(c) = "pass" => ConnegAccept(b) # "fail"
           /\ ConnegClientClass(c) = "pass" => ConnegClientClass(b) # "fail"
           /\ ConnegAlternates(c) = "pass" => ConnegAlternates(b) # "fail"
           /\ ConnegForcedFace(c) = "pass" => ConnegForcedFace(b) # "fail"
           /\ CardInterfacesLinked(c) = "pass" => CardInterfacesLinked(b) # "fail"
           /\ CardInterfacesLinkedAgain(c) = "pass" => CardInterfacesLinkedAgain(b) # "fail"
<1>1. ASSUME Card(c).probes # None PROVE Card(b) = Card(c)
  BY <1>1, Cards DEF NoCard
<1>2. ASSUME NEW face \in Faces, NEW role, role # Role("vitestRun"), IsFace(face, Find(c, role))
      PROVE  Find(b, role) = Find(c, role) /\ role \in DOMAIN c /\ role \in DOMAIN b
  <2>1. Answered2xx(Find(c, role))
    <3>1. CASE face = "html"
      BY <1>2, <3>1 DEF IsFace, IsHtml, HasBody
    <3>2. CASE face = "json"
      BY <1>2, <3>2 DEF IsFace, IsJson
    <3>3. CASE face = "md"
      BY <1>2, <3>3 DEF IsFace, IsMarkdown, NotHtml, HasBody
    <3>4. QED
      BY <3>1, <3>2, <3>3 DEF Faces
  <2>2. QED
    BY <1>2, <2>1, Heard DEF Mute, Answered2xx
<1>3. ASSUME NEW face \in Faces, NEW name, name # "vitestRun", IsFace(face, Ev(c, name))
      PROVE  IsFace(face, Ev(b, name))
  <2>1. Role(name) # Role("vitestRun")
    BY <1>3 DEF Role
  <2>2. QED
    BY <1>2, <1>3, <2>1 DEF Ev
<1>4. ASSUME ConnegAccept(c) = "pass" PROVE ConnegAccept(b) # "fail"
  <2>1. /\ Card(c).probes # None
        /\ IsFace("html", Ev(c, "rootBrowser")) /\ IsFace("json", Ev(c, "rootJson"))
        /\ IsFace("md", Ev(c, "rootMarkdown"))
    BY <1>4 DEF ConnegAccept, AxpCheck, Optional, PassIf
  <2>2. /\ IsFace("html", Ev(b, "rootBrowser")) /\ IsFace("json", Ev(b, "rootJson"))
        /\ IsFace("md", Ev(b, "rootMarkdown"))
    BY <1>3, <2>1 DEF Faces
  <2>3. QED
    BY <2>2 DEF ConnegAccept, AxpCheck, Optional, PassIf
<1>5. ASSUME ConnegClientClass(c) = "pass" PROVE ConnegClientClass(b) # "fail"
  <2>1. /\ IsFace("json", Ev(c, "rootAgent")) /\ IsFace("html", Ev(c, "rootBrowserNav"))
        /\ IsFace("md", Ev(c, "rootAgentUa"))
    BY <1>5 DEF ConnegClientClass, AxpCheck, Optional, PassIf
  <2>2. /\ IsFace("json", Ev(b, "rootAgent")) /\ IsFace("html", Ev(b, "rootBrowserNav"))
        /\ IsFace("md", Ev(b, "rootAgentUa"))
    BY <1>3, <2>1 DEF Faces
  <2>3. QED
    BY <2>2 DEF ConnegClientClass, AxpCheck, Optional, PassIf
<1>6. ASSUME ConnegAlternates(c) = "pass" PROVE ConnegAlternates(b) # "fail"
  <2> DEFINE links(x, r) == /\ Ok(x, r) /\ Ev(x, r).ct \in Faces
                            /\ \A face \in Faces \ {Ev(x, r).ct} : Ev(x, r).alts[face] # None
             roots == {"rootAgent", "rootBrowser", "rootMarkdown"}
  <2>1. \A r \in roots : links(c, r)
    BY <1>6 DEF ConnegAlternates, AxpCheck, Optional, PassIf
  <2>2. ASSUME NEW r \in roots PROVE links(b, r)
    BY <2>1, Served2xx
  <2>3. QED
    BY <2>2 DEF ConnegAlternates, AxpCheck, Optional, PassIf
<1>7. ASSUME ConnegForcedFace(c) = "pass" PROVE ConnegForcedFace(b) # "fail"
  <2>1. \A face \in Faces : FaceRole(face) \in DOMAIN c /\ IsFace(face, c[FaceRole(face)])
    BY <1>7 DEF ConnegForcedFace, AxpCheck, Optional, PassIf
  <2>2. ASSUME NEW face \in Faces PROVE FaceRole(face) \in DOMAIN b /\ IsFace(face, b[FaceRole(face)])
    <3>1. FaceRole(face) # Role("vitestRun") /\ IsFace(face, Find(c, FaceRole(face)))
      BY <2>1 DEF FaceRole, Role, Find
    <3>2. QED
      BY <1>2, <3>1 DEF Find
  <2>3. QED
    BY <2>2 DEF ConnegForcedFace, AxpCheck, Optional, PassIf
<1>8. ASSUME Mentions(c) # {} PROVE Mentions(b) = Mentions(c)
  <2>1. Ev(c, "llms").body # "none"
    BY <1>8 DEF Mentions, Text, HasText
  <2>2. Ev(b, "llms") = Ev(c, "llms")
    BY <2>1, Answers
  <2>3. QED
    BY <2>2 DEF Mentions, Text, HasText
<1>9. ASSUME CardInterfacesLinked(c) = "pass" PROVE CardInterfacesLinked(b) # "fail"
  <2>1. Card(c).probes # None /\ Ok(c, "llms") /\ "agents.json" \in Mentions(c)
    BY <1>9 DEF CardInterfacesLinked, AxpCheck, Optional, PassIf
  <2>2. Card(b) = Card(c) /\ Ok(b, "llms") /\ Mentions(b) = Mentions(c)
    BY <1>1, <1>8, <2>1, Served2xx
  <2>3. QED
    BY <1>9, <2>1, <2>2 DEF CardInterfacesLinked, AxpCheck, Optional, PassIf
<1>10. ASSUME CardInterfacesLinkedAgain(c) = "pass" PROVE CardInterfacesLinkedAgain(b) # "fail"
  <2>1. Card(c).probes # None /\ "agents.json" \in Mentions(c)
    BY <1>10 DEF CardInterfacesLinkedAgain, AxpCheck, Optional, PassIf
  <2>2. Card(b) = Card(c) /\ Mentions(b) = Mentions(c)
    BY <1>1, <1>8, <2>1
  <2>3. QED
    BY <1>10, <2>1, <2>2 DEF CardInterfacesLinkedAgain, AxpCheck, Optional, PassIf
<1>11. QED
  BY <1>4, <1>5, <1>6, <1>7, <1>9, <1>10

\* The published suite: the same rows are judged alike where each of them passed.
LEMMA RowsHeard ==
    ASSUME NEW b, NEW c, Completes(b, c), Rows(c) \in Seq(ToSet(Rows(c))),
           PublishedTestSuite(c) = "pass"
    PROVE  \A i \in 1 .. Len(Rows(c)) :
              Find(b, Row(Rows(c)[i].id)) = Find(c, Row(Rows(c)[i].id))
<1> SUFFICES ASSUME NEW i \in 1 .. Len(Rows(c))
             PROVE  Find(b, Row(Rows(c)[i].id)) = Find(c, Row(Rows(c)[i].id))
  OBVIOUS
<1>1. Rows(c)[i] \in ToSet(Rows(c))
  BY DEF ToSet
<1>2. Find(c, Row(Rows(c)[i].id)).st # 0
  BY <1>1, PassedRowsAnswered
<1>3. Row(Rows(c)[i].id) # Role("vitestRun")
  BY DEF Row, Role
<1>4. QED
  BY <1>2, <1>3, Heard DEF Mute

\* Rows that were answered alike have the same results.
LEMMA JudgedAlike ==
    ASSUME NEW b, NEW c, Rows(b) = Rows(c), Vars(b) = Vars(c), Len(Rows(c)) \in Nat,
           \A i \in 1 .. Len(Rows(c)) : Find(b, Row(Rows(c)[i].id)) = Find(c, Row(Rows(c)[i].id))
    PROVE  RowResults(b) = RowResults(c)
<1> DEFINE last == Len(Rows(c))
           bad == {n \in 0 .. last : Judgement(b)[n] # Judgement(c)[n]}
<1>1. Judges(b, Judgement(b), last) /\ Judges(c, Judgement(c), last)
  BY JudgementTurns
<1>2. SUFFICES ASSUME bad # {} PROVE FALSE
  BY DEF RowResults
<1>3. PICK n \in bad : \A m \in bad : n <= m
  <2>1. bad \subseteq Nat
    OBVIOUS
  <2> HIDE DEF bad
  <2>2. QED
    BY <1>2, <2>1, LeastExists
<1>4. n \in 0 .. last /\ Judgement(b)[n] # Judgement(c)[n]
  BY <1>3
<1>5. n # 0
  BY <1>1, <1>4 DEF Judges
<1>6. n - 1 \in 0 .. last /\ n - 1 \notin bad
  BY <1>3, <1>4, <1>5
<1>7. Judgement(b)[n - 1] = Judgement(c)[n - 1]
  BY <1>6
<1>8. /\ Judgement(b)[n] = JudgeRow(b, Judgement(b)[n - 1], Rows(b)[n])
      /\ Judgement(c)[n] = JudgeRow(c, Judgement(c)[n - 1], Rows(c)[n])
  BY <1>1, <1>4, <1>5 DEF Judges
<1>9. Find(b, Row(Rows(c)[n].id)) = Find(c, Row(Rows(c)[n].id))
  BY <1>4, <1>5
<1>10. QED
  BY <1>4, <1>7, <1>8, <1>9 DEF JudgeRow

\* The suite: the card, the document, its rows and the run of its tests are the same.
LEMMA SuiteKeeps ==
    ASSUME NEW b, NEW c, Completes(b, c), Rows(c) \in Seq(ToSet(Rows(c))),
           PublishedTestSuite(c) = "pass"
    PROVE  PublishedTestSuite(b) # "fail"
<1>1. Claim(c) # None /\ PublishedSuitePasses(c) /\ Completed(c)
  BY DEF PublishedTestSuite, Optional, PassIf, PublishedSuitePasses
<1>2. Card(b) = Card(c) /\ Claim(b) = Claim(c)
  <2>1. Card(c) # NoCard
    BY <1>1 DEF Claim, NoCard
  <2>2. QED
    BY <2>1, Cards DEF Claim
<1>3. Document(b) = Document(c)
  <2>1. HasBody(Ev(c, "testSuite"))
    BY <1>1 DEF Completed, Admitted, DocumentFits, Document
  <2>2. Ev(b, "testSuite") = Ev(c, "testSuite")
    BY <2>1, Answers DEF HasBody, Answered2xx
  <2>3. QED
    BY <2>2 DEF Document
<1>4. /\ Admitted(b) = Admitted(c) /\ Rows(b) = Rows(c) /\ Vars(b) = Vars(c)
  BY <1>2, <1>3 DEF Admitted, Published, HasRows, Rows, Vars
<1>5. IsVitest(Claim(c)) => RunRecord(b) = RunRecord(c)
  <2>1. SUFFICES ASSUME IsVitest(Claim(c)) PROVE RunRecord(b) = RunRecord(c)
    OBVIOUS
  <2>2. RunRecord(c) # None /\ RunRecord(c).outcome = "ran"
    BY <1>1, <2>1 DEF Completed, Ran
  <2>3. Role("vitestRun") \in DOMAIN c
    BY <2>2 DEF RunRecord, Ev, Find, NoAnswer
  <2>4. ~Silent(Role("vitestRun"), c[Role("vitestRun")])
    BY <2>2, <2>3 DEF Silent, RunRecord, Ev, Find
  <2>5. Role("vitestRun") \in DOMAIN b /\ b[Role("vitestRun")] = c[Role("vitestRun")]
    BY <2>3, <2>4 DEF Completes
  <2>6. QED
    BY <2>3, <2>5 DEF RunRecord, Ev, Find
<1>6. Completed(b) /\ TestResults(b) = TestResults(c)
  BY <1>1, <1>2, <1>4, <1>5 DEF Completed, Ran, TestResults
<1>7. RowResults(b) = RowResults(c)
  <2>1. Len(Rows(c)) \in Nat
    OBVIOUS
  <2>2. \A i \in 1 .. Len(Rows(c)) :
           Find(b, Row(Rows(c)[i].id)) = Find(c, Row(Rows(c)[i].id))
    BY RowsHeard
  <2>3. QED
    BY <1>4, <2>1, <2>2, JudgedAlike
<1>8. PublishedSuitePasses(b)
  BY <1>1, <1>6, <1>7 DEF PublishedSuitePasses
<1>9. QED
  BY <1>8 DEF PublishedTestSuite, Optional, PassIf

\* No check that passes would fail: but for those of ByAbsence, and for those that read the
\* second metadata document where the first was lost.
NoFlattery(b, c) ==
    \A id \in DOMAIN Checks(c) \ ByAbsence :
        /\ "as" \in FirstSource(id) => FirstHeard(c)
        /\ Checks(c)[id] = "pass"
        => Checks(b)[id] # "fail"

\* Of any two bundles, one of which completes the other.
LEMMA CompletingKeepsPasses ==
    ASSUME NEW b, NEW c, Completes(b, c), Doored(c), Priced(c), Rows(c) \in Seq(ToSet(Rows(c)))
    PROVE  NoFlattery(b, c)
<1>1. ASSUME NEW id \in ToSet(AxItems) \ ByAbsence, Scored(c)[id] = "pass"
      PROVE  Scored(b)[id] = "pass"
  <2>1. id \in {"llms-txt", "agents-json", "icp-json", "openapi", "mcp-declared",
                "keyless-flow", "linkset", "attestation", "offers-402"}
    BY <1>1 DEF AxItems, ToSet, ByAbsence
  <2>2. CASE id = "offers-402"
    BY <1>1, <2>2, OffersKeep DEF Scored
  <2>3. CASE id \in {"llms-txt", "agents-json", "icp-json", "openapi"}
    BY <1>1, <2>3, SurfacesKeep DEF Scored
  <2>4. CASE id \in {"mcp-declared", "keyless-flow", "linkset", "attestation"}
    BY <1>1, <2>4, SurfacesKeep DEF Scored
  <2>5. QED
    BY <2>1, <2>2, <2>3, <2>4
<1>2. ASSUME NEW id \in DOMAIN Unscored(c) \ ByAbsence, "as" \in FirstSource(id) => FirstHeard(c),
             Unscored(c)[id] = "pass"
      PROVE  Unscored(b)[id] # "fail"
  <2>1. CASE id \in {"protectedResource", "resourceIndicators", "wwwAuthenticate"}
    BY <1>2, <2>1, OauthKeeps DEF Unscored
  <2>2. CASE id \in {"asMetadata", "pkce", "dcr", "authmd"}
    <3>1. FirstHeard(c)
      BY <1>2, <2>2 DEF FirstSource
    <3>2. QED
      BY <1>2, <2>2, <3>1, DelegationKeeps DEF Unscored
  <2>3. CASE id \in {"aap", "serverJson", "remoteLive", "ownership", "presence"}
    BY <1>2, <2>3, RegistryKeeps DEF Unscored
  <2>4. CASE id \in {"uiLinkage", "uiSelfContained", "uiHygiene", "uiParity", "uiHostRender"}
    BY <1>2, <2>4, WidgetKeeps DEF Unscored
  <2>5. CASE id \in {"streamTransport", "streamFraming", "streamShapes", "streamHygiene",
                     "streamParity", "digitalLink"}
    BY <1>2, <2>5, StreamKeeps DEF Unscored
  <2>6. CASE id \in {"connegAccept", "clientClass", "alternates", "forcedFace", "linked",
                     "linkedAgain"}
    BY <1>2, <2>6, FacesKeep DEF Unscored
  <2>7. CASE id = "suite"
    BY <1>2, <2>7, SuiteKeeps DEF Unscored
  <2>8. id \in {"protectedResource", "resourceIndicators", "wwwAuthenticate", "asMetadata",
                "pkce", "dcr", "authmd", "aap", "serverJson", "remoteLive", "ownership",
                "presence", "uiLinkage", "uiSelfContained", "uiHygiene", "uiParity",
                "uiHostRender", "streamTransport", "streamFraming", "streamShapes",
                "streamHygiene", "streamParity", "digitalLink", "connegAccept", "clientClass",
                "alternates", "forcedFace", "linked", "linkedAgain", "suite"}
    BY DEF Unscored, ByAbsence
  <2>9. QED
    BY <2>1, <2>2, <2>3, <2>4, <2>5, <2>6, <2>7, <2>8
<1>3. DOMAIN Unscored(b) = DOMAIN Unscored(c)
  BY DEF Unscored
<1>4. ASSUME NEW id \in DOMAIN Checks(c) \ ByAbsence, "as" \in FirstSource(id) => FirstHeard(c),
             Checks(c)[id] = "pass"
      PROVE  Checks(b)[id] # "fail"
  <2>1. CASE id \in ToSet(AxItems)
    <3>1. Scored(b)[id] = "pass"
      BY <1>1, <1>4, <2>1, ReportIs
    <3>2. QED
      BY <2>1, <3>1, ReportIs
  <2>2. CASE id \notin ToSet(AxItems)
    <3>1. id \in DOMAIN Unscored(c) /\ Unscored(c)[id] = "pass"
      BY <1>4, <2>2, ReportIs
    <3>2. Unscored(b)[id] # "fail"
      BY <1>2, <1>4, <3>1
    <3>3. QED
      BY <1>3, <2>2, <3>1, <3>2, ReportIs
  <2>3. QED
    BY <2>1, <2>2
<1>5. QED
  BY <1>4 DEF NoFlattery

\* The doors and the price in the record, and those that are still to be asked for
KindInv ==
    /\ Doored(bundle) /\ Priced(bundle)
    /\ \A r \in queue : /\ r.role[1] = "keyless" => r.role = Keyless(r.role[2])
                        /\ r.role = Role("pricing") => IsObject(Doc(bundle, "agents"))

LEMMA KindRecord ==
    ASSUME KindInv, NEW request \in queue, NEW ev, bundle' = Record(bundle, request.role, ev),
           queue' \subseteq queue
    PROVE  KindInv'
<1> DEFINE role == request.role
<1>1. /\ DOMAIN bundle' = DOMAIN bundle \cup {role} /\ Extends(bundle, bundle')
  BY RecordKeeps, RecordValue
<1>2. IsObject(Doc(bundle, "agents")) => IsObject(Doc(bundle', "agents"))
  BY <1>1, ObjectStays
<1>3. Doored(bundle)'
  BY <1>1 DEF KindInv, Doored
<1>4. Priced(bundle)'
  BY <1>1, <1>2 DEF KindInv, Priced
<1>5. QED
  BY <1>2, <1>3, <1>4 DEF KindInv

LEMMA KindNextStage == ASSUME IInv, KindInv, NextStage PROVE KindInv'
<1>1. /\ stage \in 1 .. 30 /\ queue' = Plan(Stages[stage + 1], bundle) /\ bundle' = bundle
      /\ stage + 1 \in DOMAIN Stages
  BY DEF NextStage, IInv, Stages
<1>2. TurnsIn(queue', stage + 1)
  BY <1>1, StageOrderly
<1>3. ASSUME NEW r \in queue', r.role[1] = "keyless" PROVE r.role = Keyless(r.role[2])
  <2>1. stage + 1 = 6
    BY <1>1, <1>2, <1>3 DEF TurnsIn, Turn, Home
  <2>2. queue' = PlanDoors(bundle)
    BY <1>1, <2>1, StagePlan
  <2>3. PICK p : r = InTurn(PlaceIn(seed.doors, p)
                              + IF p \in Hinted(bundle) THEN 0 ELSE Len(seed.doors),
                            Get(Keyless(p), Self))
    BY <1>3, <2>2 DEF PlanDoors
  <2>4. r.role = Keyless(p)
    BY <2>3, Requests
  <2>5. QED
    BY <2>4 DEF Keyless
<1>4. ASSUME NEW r \in queue', r.role = Role("pricing") PROVE IsObject(Doc(bundle, "agents"))
  <2>1. stage + 1 = 5
    BY <1>1, <1>2, <1>4 DEF TurnsIn, Turn, Home, Role
  <2>2. queue' = PlanPricing(bundle)
    BY <1>1, <2>1, StagePlan
  <2>3. PricingEntry(Card(bundle)) # None
    BY <1>4, <2>2 DEF PlanPricing, If
  <2>4. Card(bundle) # NoCard
    BY <2>3 DEF PricingEntry, NoCard
  <2>5. QED
    BY <2>4 DEF Card, Object
<1>5. QED
  BY <1>1, <1>3, <1>4 DEF KindInv

LEMMA KindStep == IInv /\ KindInv /\ [Next]_vars => KindInv'
<1> SUFFICES ASSUME IInv, KindInv, [Next]_vars PROVE KindInv'
  OBVIOUS
<1>1. ASSUME queue' \subseteq queue, bundle' = bundle PROVE KindInv'
  BY <1>1 DEF KindInv
<1>2. CASE NextStage
  BY <1>2, KindNextStage
<1>3. CASE StopWalk \/ Deadline \/ RunChecks \/ UNCHANGED vars
  BY <1>1, <1>3 DEF StopWalk, Deadline, RunChecks, vars
<1>4. ASSUME NEW request \in queue, SkipRow(request) PROVE KindInv'
  BY <1>1, <1>4 DEF SkipRow
<1>5. ASSUME NEW request \in queue, NEW answered \in BOOLEAN, Send(request, answered)
      PROVE  KindInv'
  <2>1. bundle' = Record(bundle, request.role, Exchanged(request, answered))
        /\ queue' \subseteq queue
    BY <1>5 DEF Send
  <2>2. QED
    BY <2>1, KindRecord
<1>6. ASSUME NEW request \in queue, Refuse(request) PROVE KindInv'
  BY <1>6, KindRecord DEF Refuse
<1>7. QED
  BY <1>2, <1>3, <1>4, <1>5, <1>6 DEF Next

LEMMA KindInit == Init => KindInv
<1> SUFFICES ASSUME Init PROVE KindInv
  OBVIOUS
<1>1. bundle = <<>> /\ queue = PlanRoot
  BY DEF Init
<1>2. TurnsIn(PlanRoot, 1)
  BY RootOrderly
<1>3. \A r \in queue : r.role[1] # "keyless" /\ r.role # Role("pricing")
  BY <1>1, <1>2 DEF TurnsIn, Turn, Home, Role
<1>4. QED
  BY <1>1, <1>3 DEF KindInv, Doored, Priced

\* Losing an answer never turns a failure into a pass (runChecks over a bundle with holes in
\* it): whatever site and seed, whichever answers were lost or refused, a check that passes
\* would not fail if any of them, and any exchanges that were not made for want of them, were
\* there.  Two kinds of check are exempt, and are so in the code: those that pass for the
\* absence of something, and those of the OAuth metadata when RFC 8414's document was the one
\* that was lost and OpenID's was judged instead.
THEOREM LossNeverFlatters ==
    Spec => [](\A b : Completes(b, bundle) => NoFlattery(b, bundle))
<1>1. Init => SuiteInv
  BY DEF Init, SuiteInv, Ev, Find, NoAnswer, HasBody, Answered2xx
<1>2. CountInv /\ SuiteInv /\ KindInv => \A b : Completes(b, bundle) => NoFlattery(b, bundle)
  <2> SUFFICES ASSUME CountInv, SuiteInv, KindInv, NEW b, Completes(b, bundle)
               PROVE  NoFlattery(b, bundle)
    OBVIOUS
  <2>1. Rows(bundle) \in Seq(ToSet(Rows(bundle)))
    BY RowsAreSequence DEF CountInv
  <2>2. QED
    BY <2>1, CompletingKeepsPasses DEF KindInv
<1>3. QED
  BY <1>1, <1>2, CountInvariance, SuiteStep, KindInit, KindStep, PTL DEF Spec

-----------------------------------------------------------------------------
(* What the site would have said.                                              *)

PostNames == {"mcpInit", "remoteInit", "tools", "call", "read"}
\* A request is a POST or a GET by its role.
MethodFits(r) == r.post = (r.role[1] \in PostNames)
MethodsFit(plan) == \A r \in plan : MethodFits(r)

\* What the site would have answered to each request that was recorded.
Told == [role \in DOMAIN bundle |->
            IF role = Role("vitestRun") THEN RunOf(TRUE)
            ELSE Answer(Request(role, bundle[role].at, role[1] \in PostNames, 1))]

\* The method of a request is that of its role, in each of the plans.
LEMMA Methods ==
    ASSUME NEW role, NEW at, NEW turn, NEW name
    PROVE  /\ role[1] \notin PostNames =>
                 MethodFits(Get(role, at)) /\ MethodFits(InTurn(turn, Get(role, at)))
           /\ name \in PostNames => MethodFits(Post(name, at))
<1>1. /\ Get(role, at).post = FALSE /\ Get(role, at).role = role
      /\ InTurn(turn, Get(role, at)).post = FALSE /\ InTurn(turn, Get(role, at)).role = role
      /\ Post(name, at).post = TRUE /\ Post(name, at).role[1] = name
  BY DEF Get, Post, InTurn, Request, Role
<1>2. ASSUME NEW r, r.post = FALSE, r.role[1] \notin PostNames PROVE MethodFits(r)
  <2>1. (r.role[1] \in PostNames) = FALSE
    BY <1>2
  <2>2. QED
    BY <1>2, <2>1, Zenon DEF MethodFits
<1>3. ASSUME NEW r, r.post = TRUE, r.role[1] \in PostNames PROVE MethodFits(r)
  BY <1>3 DEF MethodFits
<1>4. QED
  BY <1>1, <1>2, <1>3

LEMMA IfFits ==
    ASSUME NEW condition, NEW request, MethodFits(request) PROVE MethodsFit(If(condition, request))
  BY DEF If, MethodsFit

LEMMA NamesAreGets ==
    ASSUME NEW name, name \notin PostNames, NEW at, NEW turn, NEW condition
    PROVE  /\ MethodsFit(If(condition, Get(Role(name), at)))
           /\ MethodsFit(If(condition, InTurn(turn, Get(Role(name), at))))
<1>1. Role(name)[1] \notin PostNames
  BY DEF Role
<1>2. QED
  BY <1>1, Methods, IfFits

LEMMA NamesArePosts ==
    ASSUME NEW name \in PostNames, NEW at, NEW condition
    PROVE  MethodsFit(If(condition, Post(name, at)))
  BY Methods, IfFits

LEMMA FirstMethods ==
    ASSUME NEW b
    PROVE  /\ MethodsFit(PlanRoot) /\ MethodsFit(PlanFaces(b)) /\ MethodsFit(PlanTexts)
           /\ MethodsFit(PlanDoors(b)) /\ MethodsFit(PlanTyped(b)) /\ MethodsFit(PlanRows(b))
           /\ MethodsFit(PlanContract(b))
<1>1. ASSUME NEW role, NEW at, NEW turn, role[1] \notin PostNames
      PROVE  MethodFits(InTurn(turn, Get(role, at)))
  BY <1>1, Methods
<1>2. MethodsFit(PlanRoot)
  <2> DEFINE names == <<"rootAgent", "rootBrowser", "rootJson", "rootMarkdown",
                        "rootBrowserNav", "rootAgentUa">>
  <2>1. \A i \in 1 .. 6 : Role(names[i])[1] \notin PostNames
    BY DEF Role, PostNames
  <2> HIDE DEF names
  <2>2. \A i \in 1 .. 6 : MethodFits(InTurn(i, Get(Role(names[i]), Self)))
    BY <1>1, <2>1
  <2>3. QED
    BY <2>2 DEF PlanRoot, MethodsFit, names
<1>3. MethodsFit(PlanTexts)
  <2> DEFINE names == <<"llms", "agents", "icp", "agentConfig">>
  <2>1. \A i \in 1 .. 4 : Role(names[i])[1] \notin PostNames
    BY DEF Role, PostNames
  <2> HIDE DEF names
  <2>2. \A i \in 1 .. 4 : MethodFits(InTurn(i, Get(Role(names[i]), Self)))
    BY <1>1, <2>1
  <2>3. QED
    BY <2>2 DEF PlanTexts, MethodsFit, names
<1>4. MethodsFit(PlanFaces(b))
  <2>1. \A f : FaceRole(f)[1] \notin PostNames
    BY DEF FaceRole, PostNames
  <2>2. QED
    BY <1>1, <2>1 DEF PlanFaces, MethodsFit
<1>5. MethodsFit(PlanDoors(b))
  <2>1. \A p : Keyless(p)[1] \notin PostNames
    BY DEF Keyless, PostNames
  <2>2. QED
    BY <1>1, <2>1 DEF PlanDoors, MethodsFit
<1>6. MethodsFit(PlanTyped(b))
  <2>1. \A p : TypedAgent(p)[1] \notin PostNames /\ TypedBrowser(p)[1] \notin PostNames
    BY DEF TypedAgent, TypedBrowser, PostNames
  <2>2. ASSUME NEW r \in PlanTyped(b) PROVE MethodFits(r)
    <3> DEFINE place == [x \in Candidates(b) |-> PlaceIn(seed.typed, x)]
    <3>1. \E p : \/ r = InTurn(2 * place[p], Get(TypedAgent(p), Self))
                 \/ r = InTurn(2 * place[p] + 1, Get(TypedBrowser(p), Self))
      BY TypedAre
    <3> HIDE DEF place
    <3>2. QED
      BY <1>1, <2>1, <3>1
  <2>3. QED
    BY <2>2 DEF MethodsFit
<1>7. MethodsFit(PlanRows(b))
  <2>1. \A id : Row(id)[1] \notin PostNames
    BY DEF Row, PostNames
  <2>2. QED
    BY <1>1, <2>1 DEF PlanRows, MethodsFit
<1>8. MethodsFit(PlanContract(b))
  <2> DEFINE rest == {p \in Candidates(b) \ Astray : Keyless(p) \notin DOMAIN b}
             paths == Foremost(rest, MaxContract, [x \in rest |-> x])
  <2>1. \A p : Contract(p)[1] \notin PostNames
    BY DEF Contract, PostNames
  <2>2. PlanContract(b) = {InTurn(p, Get(Contract(p), Self)) : p \in paths}
    BY DEF PlanContract
  <2> HIDE DEF paths
  <2>3. QED
    BY <1>1, <2>1, <2>2 DEF MethodsFit
<1>9. QED
  BY <1>2, <1>3, <1>4, <1>5, <1>6, <1>7, <1>8

LEMMA SingleMethods ==
    ASSUME NEW b
    PROVE  /\ MethodsFit(PlanOpenapi(b)) /\ MethodsFit(PlanPricing(b)) /\ MethodsFit(PlanOffer(b))
           /\ MethodsFit(PlanMcp(b)) /\ MethodsFit(PlanMcpInit(b)) /\ MethodsFit(PlanProtected(b))
           /\ MethodsFit(PlanAs(b)) /\ MethodsFit(PlanOidc(b)) /\ MethodsFit(PlanIdentity(b))
<1>1. {"openapi", "pricing", "offer", "mcp", "protected", "as", "oidc", "identity"}
         \cap PostNames = {} /\ "mcpInit" \in PostNames
  BY DEF PostNames
<1>2. MethodsFit(PlanOpenapi(b))
  <2> DEFINE at == IF Card(b).openapi = None THEN Self ELSE Card(b).openapi
  <2> HIDE DEF at
  <2>1. MethodsFit(If(Local(at), Get(Role("openapi"), at)))
    BY <1>1, NamesAreGets
  <2>2. QED
    BY <2>1 DEF PlanOpenapi, at
<1>3. MethodsFit(PlanPricing(b))
  <2> DEFINE e == PricingEntry(Card(b))
  <2> HIDE DEF e
  <2>1. MethodsFit(If(e # None /\ e.method = "GET" /\ Local(e.at), Get(Role("pricing"), e.at)))
    BY <1>1, NamesAreGets
  <2>2. QED
    BY <2>1 DEF PlanPricing, e
<1>4. MethodsFit(PlanOffer(b)) /\ MethodsFit(PlanMcp(b)) /\ MethodsFit(PlanProtected(b))
  BY <1>1, NamesAreGets DEF PlanOffer, PlanMcp, PlanProtected
<1>5. MethodsFit(PlanMcpInit(b))
  BY <1>1, NamesArePosts DEF PlanMcpInit
<1>6. MethodsFit(PlanAs(b)) /\ MethodsFit(PlanOidc(b)) /\ MethodsFit(PlanIdentity(b))
  BY <1>1, NamesAreGets DEF PlanAs, PlanOidc, PlanIdentity
<1>7. QED
  BY <1>2, <1>3, <1>4, <1>5, <1>6

LEMMA RemoteMethods ==
    ASSUME NEW b
    PROVE  /\ MethodsFit(PlanServerJson(b)) /\ MethodsFit(PlanRemote(b)) /\ MethodsFit(PlanTools(b))
           /\ MethodsFit(PlanOwnership(b)) /\ MethodsFit(PlanPresence(b))
           /\ MethodsFit(PlanUiInit(b)) /\ MethodsFit(PlanUiTools(b)) /\ MethodsFit(PlanUiCall(b))
           /\ MethodsFit(PlanUiRead(b)) /\ MethodsFit(PlanUiExternal(b))
<1>1. {"serverJson", "dns", "registryAuth", "presence", "external"} \cap PostNames = {}
      /\ {"remoteInit", "tools", "call", "read"} \subseteq PostNames
  BY DEF PostNames
<1>2. MethodsFit(PlanServerJson(b))
  <2> DEFINE at == IF Card(b).serverJson = None THEN Self ELSE Card(b).serverJson
  <2> HIDE DEF at
  <2>1. MethodsFit(If(Local(at), Get(Role("serverJson"), at)))
    BY <1>1, NamesAreGets
  <2>2. QED
    BY <2>1 DEF PlanServerJson, at
<1>3. MethodsFit(PlanRemote(b)) /\ MethodsFit(PlanTools(b))
  BY <1>1, NamesArePosts DEF PlanRemote, PlanTools
<1>4. MethodsFit(PlanOwnership(b))
  <2>1. /\ MethodsFit(If(Domain(b) # None, Get(Role("dns"), Doh)))
        /\ MethodsFit(If(Delegable(Domain(b)), InTurn(2, Get(Role("registryAuth"), Domain(b)))))
    BY <1>1, NamesAreGets
  <2>2. QED
    BY <2>1 DEF PlanOwnership, MethodsFit
<1>5. MethodsFit(PlanPresence(b)) /\ MethodsFit(PlanUiExternal(b))
  BY <1>1, NamesAreGets DEF PlanPresence, PlanUiExternal
<1>6. /\ MethodsFit(PlanUiInit(b)) /\ MethodsFit(PlanUiTools(b)) /\ MethodsFit(PlanUiCall(b))
      /\ MethodsFit(PlanUiRead(b))
  BY <1>1, NamesArePosts DEF PlanUiInit, PlanUiTools, PlanUiCall, PlanUiRead
<1>7. QED
  BY <1>2, <1>3, <1>4, <1>5, <1>6

LEMMA LastMethods ==
    ASSUME NEW b
    PROVE  /\ MethodsFit(PlanStream(b)) /\ MethodsFit(PlanTwin(b)) /\ MethodsFit(PlanDigitalLink(b))
           /\ MethodsFit(PlanSuite(b)) /\ MethodsFit(PlanRun(b))
<1>1. {"stream", "twin", "gs1", "testSuite", "vitestRun"} \cap PostNames = {}
  BY DEF PostNames
<1>2. MethodsFit(PlanDigitalLink(b))
  <2> DEFINE dl == Card(b).digitalLink
  <2> HIDE DEF dl
  <2>1. MethodsFit(If(dl # None /\ ~dl.malformed /\ Local(dl.at), Get(Role("gs1"), dl.at)))
    BY <1>1, NamesAreGets
  <2>2. QED
    BY <2>1 DEF PlanDigitalLink, dl
<1>3. MethodsFit(PlanStream(b)) /\ MethodsFit(PlanTwin(b))
  BY <1>1, NamesAreGets DEF PlanStream, PlanTwin
<1>4. MethodsFit(PlanSuite(b)) /\ MethodsFit(PlanRun(b))
  BY <1>1, NamesAreGets DEF PlanSuite, PlanRun
<1>5. QED
  BY <1>2, <1>3, <1>4

LEMMA StageMethods ==
    ASSUME NEW b, NEW i \in DOMAIN Stages PROVE MethodsFit(Plan(Stages[i], b))
<1>1. i \in 1 .. 31
  BY DEF Stages
<1>2. CASE i \in {1, 2, 3, 6, 7, 29, 31}
  BY <1>2, StagePlan, FirstMethods
<1>3. CASE i \in {4, 5} \cup 8 .. 14
  BY <1>3, StagePlan, SingleMethods
<1>4. CASE i \in 15 .. 24
  BY <1>4, StagePlan, RemoteMethods
<1>5. CASE i \in 25 .. 28 \cup {30}
  BY <1>5, StagePlan, LastMethods
<1>6. QED
  BY <1>1, <1>2, <1>3, <1>4, <1>5

\* Every exchange of the record is the site's answer to its request, or silent.
OfSiteOrSilent(role) == bundle[role] = Told[role] \/ Silent(role, bundle[role])
ToldInv ==
    /\ \A role \in DOMAIN bundle : OfSiteOrSilent(role)
    /\ Role("vitestRun") \in DOMAIN bundle => Claim(bundle) # None
    /\ MethodsFit(queue)

\* What is recorded of a request without an answer is silent.
LEMMA SilentIs ==
    ASSUME NEW at, NEW role
    PROVE  /\ Silent(role, [NoAnswer EXCEPT !.at = at])
           /\ Silent(role, [NoAnswer EXCEPT !.at = at, !.refused = TRUE])
  BY DEF Silent, Mute, NoAnswer

\* An answer depends on the role, on the origin and on the method.
LEMMA AnswerByRole ==
    ASSUME NEW request, MethodFits(request)
    PROVE  Answer(request) = Answer(Request(request.role, request.at, request.role[1] \in PostNames, 1))
<1> DEFINE same == Request(request.role, request.at, request.role[1] \in PostNames, 1)
<1>1. same.role = request.role /\ same.at = request.at /\ same.post = request.post
  BY DEF Request, MethodFits
<1> HIDE DEF same
<1>2. Hops(same) = Hops(request)
  BY <1>1 DEF Hops
<1>3. Followed(same) = Followed(request)
  BY <1>1, <1>2 DEF Followed
<1>4. Answer(same) = Answer(request)
  BY <1>1, <1>3 DEF Answer
<1>5. QED
  BY <1>4 DEF same

\* An exchange that is made is the site's or silent.
LEMMA ExchangeIs ==
    ASSUME site \in Sites, NEW request, MethodFits(request), NEW answered \in BOOLEAN
    PROVE  LET ev == Exchanged(request, answered)
           IN  \/ Silent(request.role, ev)
               \/ /\ request.role # Role("vitestRun")
                  /\ ev = Answer(Request(request.role, ev.at, request.role[1] \in PostNames, 1))
               \/ request.role = Role("vitestRun") /\ ev = RunOf(TRUE)
<1>1. CASE request.role = Role("vitestRun") /\ answered
  <2>1. answered = TRUE
    BY <1>1
  <2>2. QED
    BY <1>1, <2>1 DEF Exchanged
<1>2. CASE request.role = Role("vitestRun") /\ ~answered
  <2> DEFINE run == Answer(Get(Role("vitestRun"), Address(Claim(bundle))))
             outcome == site.replies[Role("vitestRun")].ev.doc
             doc == [digest |-> Claim(bundle).digest, results |-> outcome.results,
                     outcome |-> "failed"]
  <2>1. Sound(run)
    BY AnswerSound
  <2>2. Exchanged(request, answered) = [run EXCEPT !["doc"] = doc]
    BY <1>2 DEF Exchanged, RunOf
  <2>3. doc.outcome # "ran"
    OBVIOUS
  <2> HIDE DEF run, doc
  <2>4. [run EXCEPT !["doc"] = doc]["doc"] = doc
    BY <2>1, Fields DEF Sound
  <2>5. QED
    BY <1>2, <2>2, <2>3, <2>4 DEF Silent
<1>3. CASE request.role # Role("vitestRun") /\ answered
  <2>1. Exchanged(request, answered) = Answer(request) /\ Exchanged(request, answered).at = request.at
    BY <1>3, ExchangedSound DEF Exchanged
  <2>2. QED
    BY <1>3, <2>1, AnswerByRole
<1>4. CASE request.role # Role("vitestRun") /\ ~answered
  BY <1>4, SilentIs DEF Exchanged
<1>5. QED
  BY <1>1, <1>2, <1>3, <1>4

\* So what the site says does not change.
LEMMA AnswerStays == ASSUME site' = site, NEW request PROVE Answer(request)' = Answer(request)
  BY DEF Answer, Followed, Hops, Reply

LEMMA RunStays ==
    ASSUME site' = site, Extends(bundle, bundle'), Claim(bundle) # None
    PROVE  RunOf(TRUE)' = RunOf(TRUE)
<1>1. Claim(bundle)' = Claim(bundle)
  BY ClaimStays
<1> DEFINE request == Get(Role("vitestRun"), Address(Claim(bundle)))
<1>2. request' = request
  BY <1>1 DEF Get, Request, Address, IsVitest
<1>3. Answer(request)' = Answer(request)
  BY <1>2 DEF Answer, Followed, Hops, Reply
<1>4. RunOf(TRUE) = [Answer(request) EXCEPT
                        !.doc = [digest |-> Claim(bundle).digest,
                                 results |-> site.replies[Role("vitestRun")].ev.doc.results,
                                 outcome |-> site.replies[Role("vitestRun")].ev.doc.outcome]]
  BY DEF RunOf
<1>5. RunOf(TRUE)' = [Answer(request)' EXCEPT
                         !.doc = [digest |-> Claim(bundle)'.digest,
                                  results |-> site'.replies[Role("vitestRun")].ev.doc.results,
                                  outcome |-> site'.replies[Role("vitestRun")].ev.doc.outcome]]
  BY DEF RunOf
<1> HIDE DEF request
<1>6. QED
  BY <1>1, <1>3, <1>4, <1>5

\* What the site would have said stays what it is while the record grows.
LEMMA ToldSame ==
    ASSUME site' = site, Extends(bundle, bundle'), NEW role \in DOMAIN bundle,
           role = Role("vitestRun") => Claim(bundle) # None
    PROVE  Told'[role] = Told[role] /\ bundle'[role] = bundle[role]
<1>1. bundle'[role] = bundle[role] /\ role \in DOMAIN bundle'
  BY DEF Extends
<1>2. CASE role # Role("vitestRun")
  <2> DEFINE request == Request(role, bundle[role].at, role[1] \in PostNames, 1)
  <2>1. request' = request
    BY <1>1 DEF Request
  <2>2. Answer(request)' = Answer(request)
    BY <2>1 DEF Answer, Followed, Hops, Reply
  <2>3. Told[role] = Answer(request)
    BY <1>2 DEF Told
  <2>4. Told'[role] = Answer(request)'
    BY <1>1, <1>2 DEF Told
  <2> HIDE DEF request
  <2>5. QED
    BY <1>1, <2>2, <2>3, <2>4
<1>3. CASE role = Role("vitestRun")
  <2>1. RunOf(TRUE)' = RunOf(TRUE)
    BY <1>3, RunStays
  <2>2. Told[role] = RunOf(TRUE) /\ Told'[role] = RunOf(TRUE)'
    BY <1>1, <1>3 DEF Told
  <2>3. QED
    BY <1>1, <2>1, <2>2
<1>4. QED
  BY <1>2, <1>3

LEMMA ToldStays ==
    ASSUME site' = site, Extends(bundle, bundle'), NEW role \in DOMAIN bundle, OfSiteOrSilent(role),
           role = Role("vitestRun") => Claim(bundle) # None
    PROVE  OfSiteOrSilent(role)'
  BY ToldSame DEF OfSiteOrSilent

\* And an answer that is recorded is what the site would have said.
LEMMA ToldNew ==
    ASSUME IInv, NEW request \in queue, NEW ev,
           site' = site, bundle' = Record(bundle, request.role, ev),
           request.role \notin DOMAIN bundle,
           \/ /\ request.role # Role("vitestRun")
              /\ ev = Answer(Request(request.role, ev.at, request.role[1] \in PostNames, 1))
           \/ request.role = Role("vitestRun") /\ ev = RunOf(TRUE)
    PROVE  bundle'[request.role] = Told'[request.role]
<1> DEFINE role == request.role
<1>1. /\ DOMAIN bundle' = DOMAIN bundle \cup {role} /\ Extends(bundle, bundle')
      /\ bundle'[role] = ev
  BY RecordKeeps, RecordValue
<1>2. CASE role # Role("vitestRun") /\ ev = Answer(Request(role, ev.at, role[1] \in PostNames, 1))
  <2>1. PICK at : at = ev.at
    OBVIOUS
  <2> DEFINE ask == Request(role, at, role[1] \in PostNames, 1)
  <2>2. bundle'[role] = Answer(ask) /\ bundle'[role].at = at
    BY <1>1, <1>2, <2>1
  <2>3. Told'[role] = Answer(ask)'
    BY <1>1, <1>2, <2>2 DEF Told
  <2>4. Answer(ask)' = Answer(ask)
    BY AnswerStays
  <2>5. QED
    BY <2>2, <2>3, <2>4
<1>3. CASE role = Role("vitestRun") /\ ev = RunOf(TRUE)
  <2>1. Claim(bundle) # None
    BY <1>3 DEF IInv, PlanBacked, Backed, Role
  <2>2. RunOf(TRUE)' = RunOf(TRUE)
    BY <1>1, <2>1, RunStays
  <2>3. Told'[role] = RunOf(TRUE)'
    BY <1>1, <1>3 DEF Told
  <2>4. QED
    BY <1>1, <1>3, <2>2, <2>3
<1>4. QED
  BY <1>2, <1>3

\* One more exchange.
LEMMA ToldRecord ==
    ASSUME IInv, ToldInv, NEW request \in queue, NEW ev,
           site' = site, bundle' = Record(bundle, request.role, ev), queue' \subseteq queue,
           \/ Silent(request.role, ev)
           \/ /\ request.role # Role("vitestRun")
              /\ ev = Answer(Request(request.role, ev.at, request.role[1] \in PostNames, 1))
           \/ request.role = Role("vitestRun") /\ ev = RunOf(TRUE)
    PROVE  ToldInv'
<1> DEFINE role == request.role
<1>1. /\ DOMAIN bundle' = DOMAIN bundle \cup {role} /\ Extends(bundle, bundle')
      /\ role \notin DOMAIN bundle => bundle'[role] = ev
  BY RecordKeeps, RecordValue
<1>2. \A r \in DOMAIN bundle : OfSiteOrSilent(r)'
  BY <1>1, ToldStays DEF ToldInv
<1>3. role = Role("vitestRun") => Claim(bundle) # None
  BY DEF IInv, PlanBacked, Backed, Role
<1>4. ASSUME role \notin DOMAIN bundle PROVE OfSiteOrSilent(role)'
  <2>1. CASE Silent(role, ev)
    BY <1>1, <1>4, <2>1 DEF OfSiteOrSilent
  <2>2. CASE ~Silent(role, ev)
    BY <1>4, <2>2, ToldNew DEF OfSiteOrSilent
  <2>3. QED
    BY <2>1, <2>2
<1>5. (Role("vitestRun") \in DOMAIN bundle => Claim(bundle) # None)'
  <2>1. Claim(bundle) # None => Claim(bundle') # None
    BY <1>1, ClaimStays
  <2>2. QED
    BY <1>1, <1>3, <2>1 DEF ToldInv
<1>6. MethodsFit(queue)'
  BY DEF ToldInv, MethodsFit
<1>7. QED
  BY <1>1, <1>2, <1>4, <1>5, <1>6 DEF ToldInv

LEMMA ToldStep == IInv /\ CountInv /\ ToldInv /\ [Next]_vars => ToldInv'
<1> SUFFICES ASSUME IInv, CountInv, ToldInv, [Next]_vars PROVE ToldInv'
  OBVIOUS
<1>1. site \in Sites /\ site' = site
  BY DEF CountInv, Next, NextStage, StopWalk, Deadline, RunChecks, SkipRow, Send, Refuse, vars
<1>2. ASSUME bundle' = bundle, MethodsFit(queue') PROVE ToldInv'
  <2>1. Extends(bundle, bundle')
    BY <1>2 DEF Extends
  <2>2. \A role \in DOMAIN bundle : OfSiteOrSilent(role)'
    BY <1>1, <2>1, ToldStays DEF ToldInv
  <2>3. QED
    BY <1>2, <2>2 DEF ToldInv
<1>3. ASSUME bundle' = bundle, queue' \subseteq queue PROVE ToldInv'
  <2>1. MethodsFit(queue')
    BY <1>3 DEF ToldInv, MethodsFit
  <2>2. QED
    BY <1>2, <1>3, <2>1
<1>4. CASE NextStage
  <2>1. stage + 1 \in DOMAIN Stages /\ queue' = Plan(Stages[stage + 1], bundle) /\ bundle' = bundle
    BY <1>4 DEF NextStage, IInv, Stages
  <2>2. MethodsFit(queue')
    BY <2>1, StageMethods
  <2>3. QED
    BY <1>2, <2>1, <2>2
<1>5. CASE StopWalk \/ Deadline \/ RunChecks \/ UNCHANGED vars
  BY <1>3, <1>5 DEF StopWalk, Deadline, RunChecks, vars
<1>6. ASSUME NEW request \in queue, SkipRow(request) PROVE ToldInv'
  BY <1>3, <1>6 DEF SkipRow
<1>7. ASSUME NEW request \in queue, NEW answered \in BOOLEAN, Send(request, answered)
      PROVE  ToldInv'
  <2>1. PICK ev : ev = Exchanged(request, answered)
    OBVIOUS
  <2>2. MethodFits(request)
    BY DEF ToldInv, MethodsFit
  <2>3. \/ Silent(request.role, ev)
        \/ /\ request.role # Role("vitestRun")
           /\ ev = Answer(Request(request.role, ev.at, request.role[1] \in PostNames, 1))
        \/ request.role = Role("vitestRun") /\ ev = RunOf(TRUE)
    BY <1>1, <2>1, <2>2, ExchangeIs
  <2>4. bundle' = Record(bundle, request.role, ev) /\ queue' \subseteq queue
    BY <1>7, <2>1 DEF Send
  <2>5. QED
    BY <1>1, <2>3, <2>4, ToldRecord
<1>8. ASSUME NEW request \in queue, Refuse(request) PROVE ToldInv'
  <2>1. PICK ev : ev = [NoAnswer EXCEPT !.at = request.at, !.refused = TRUE]
    OBVIOUS
  <2>2. Silent(request.role, ev)
    BY <2>1, SilentIs
  <2>3. bundle' = Record(bundle, request.role, ev) /\ queue' \subseteq queue
    BY <1>8, <2>1 DEF Refuse
  <2>4. QED
    BY <1>1, <2>2, <2>3, ToldRecord
<1>9. QED
  BY <1>4, <1>5, <1>6, <1>7, <1>8 DEF Next

LEMMA ToldInit == Init => ToldInv
<1> SUFFICES ASSUME Init PROVE ToldInv
  OBVIOUS
<1>1. MethodsFit(queue)
  BY FirstMethods DEF Init
<1>2. QED
  BY <1>1 DEF ToldInv, Init

\* What is recorded of an exchange is the site's own answer or silence; so had each request
\* that was made been answered as the site answers, and the tests run to their end, no check
\* that passes would fail, with the two exemptions of LossNeverFlatters (observe, runChecks).
THEOREM AnswersNeverRefute == Spec => []NoFlattery(Told, bundle)
<1>1. ToldInv => Completes(Told, bundle)
  BY DEF ToldInv, OfSiteOrSilent, Completes, Told
<1>2. Completes(Told, bundle) /\ (\A b : Completes(b, bundle) => NoFlattery(b, bundle))
         => NoFlattery(Told, bundle)
  OBVIOUS
<1>3. QED
  BY <1>1, <1>2, CountInvariance, ToldInit, ToldStep, LossNeverFlatters, PTL DEF Spec

-----------------------------------------------------------------------------
(* What an undisturbed verification reports.                                   *)

\* Where nothing was lost, whatever was not refused is recorded as the site said it.
HeardInv ==
    /\ bundle = [role \in DOMAIN bundle |-> bundle[role]]
    /\ lost = 0 => \A role \in DOMAIN bundle : bundle[role] = Told[role] \/ bundle[role].refused

\* An exchange that was answered is the site's.
LEMMA ExchangeAnswers ==
    ASSUME site \in Sites, NEW request, MethodFits(request)
    PROVE  LET ev == Exchanged(request, TRUE)
           IN  \/ /\ request.role # Role("vitestRun")
                  /\ ev = Answer(Request(request.role, ev.at, request.role[1] \in PostNames, 1))
               \/ request.role = Role("vitestRun") /\ ev = RunOf(TRUE)
<1>1. CASE request.role = Role("vitestRun")
  BY <1>1 DEF Exchanged
<1>2. CASE request.role # Role("vitestRun")
  <2>1. Exchanged(request, TRUE) = Answer(request) /\ Exchanged(request, TRUE).at = request.at
    BY <1>2, ExchangedSound DEF Exchanged
  <2>2. QED
    BY <1>2, <2>1, AnswerByRole
<1>3. QED
  BY <1>1, <1>2

\* One more exchange, answered or refused.
LEMMA HeardRecord ==
    ASSUME ToldInv, HeardInv, lost' = lost, site' = site, NEW role, NEW ev,
           bundle' = Record(bundle, role, ev),
           role \notin DOMAIN bundle => bundle'[role] = Told'[role] \/ bundle'[role].refused
    PROVE  HeardInv'
<1>1. DOMAIN bundle' = DOMAIN bundle \cup {role} /\ Extends(bundle, bundle')
  BY RecordKeeps
<1>2. ASSUME lost = 0, NEW r \in DOMAIN bundle PROVE bundle'[r] = Told'[r] \/ bundle'[r].refused
  <2>1. Told'[r] = Told[r] /\ bundle'[r] = bundle[r]
    BY <1>1, ToldSame DEF ToldInv
  <2>2. QED
    BY <1>2, <2>1 DEF HeardInv
<1>3. bundle' = [r \in DOMAIN bundle' |-> bundle'[r]]
  BY DEF Record
<1>4. QED
  BY <1>1, <1>2, <1>3 DEF HeardInv

LEMMA HeardStep == IInv /\ CountInv /\ ToldInv /\ HeardInv /\ [Next]_vars => HeardInv'
<1> SUFFICES ASSUME IInv, CountInv, ToldInv, HeardInv, [Next]_vars PROVE HeardInv'
  OBVIOUS
<1>1. /\ site \in Sites /\ lost \in 0 .. site.faults /\ site.faults \in Nat
  BY SitesAssumption DEF CountInv
<1>8. site' = site
  BY DEF Next, NextStage, StopWalk, Deadline, RunChecks, SkipRow, Send, Refuse, vars
<1>9. bundle' = bundle \/ \E role, ev : bundle' = Record(bundle, role, ev)
  BY DEF Next, NextStage, StopWalk, Deadline, RunChecks, SkipRow, Send, Refuse, vars
<1>10. ASSUME lost' # 0 PROVE HeardInv'
  <2>1. bundle' = [r \in DOMAIN bundle' |-> bundle'[r]]
    BY <1>9 DEF Record, HeardInv
  <2>2. QED
    BY <1>10, <2>1 DEF HeardInv
<1>2. ASSUME bundle' = bundle, lost' = lost PROVE HeardInv'
  <2>1. Extends(bundle, bundle')
    BY <1>2 DEF Extends
  <2>2. \A role \in DOMAIN bundle : Told'[role] = Told[role]
    BY <1>8, <2>1, ToldSame DEF ToldInv
  <2>3. QED
    BY <1>2, <2>2 DEF HeardInv
<1>3. CASE NextStage \/ StopWalk \/ RunChecks \/ UNCHANGED vars
           \/ \E request \in queue : SkipRow(request)
  BY <1>2, <1>3 DEF NextStage, StopWalk, RunChecks, SkipRow, vars
<1>4. CASE Deadline \/ \E request \in queue : Send(request, FALSE)
  <2>1. lost' = lost + 1
    BY <1>4 DEF Deadline, Send
  <2>2. QED
    BY <1>1, <1>10, <2>1
<1>5. ASSUME NEW request \in queue, Send(request, TRUE) PROVE HeardInv'
  <2>1. PICK ev : ev = Exchanged(request, TRUE)
    OBVIOUS
  <2>2. MethodFits(request)
    BY DEF ToldInv, MethodsFit
  <2>3. \/ /\ request.role # Role("vitestRun")
           /\ ev = Answer(Request(request.role, ev.at, request.role[1] \in PostNames, 1))
        \/ request.role = Role("vitestRun") /\ ev = RunOf(TRUE)
    BY <1>1, <2>1, <2>2, ExchangeAnswers
  <2>4. bundle' = Record(bundle, request.role, ev) /\ lost' = lost
    BY <1>5, <2>1 DEF Send
  <2>5. request.role \notin DOMAIN bundle => bundle'[request.role] = Told'[request.role]
    BY <1>8, <2>3, <2>4, ToldNew
  <2>6. QED
    BY <1>8, <1>10, <2>4, <2>5, HeardRecord
<1>6. ASSUME NEW request \in queue, Refuse(request) PROVE HeardInv'
  <2>1. PICK ev : ev = [NoAnswer EXCEPT !.at = request.at, !.refused = TRUE]
    OBVIOUS
  <2>2. bundle' = Record(bundle, request.role, ev) /\ lost' = lost /\ ev.refused
    BY <1>6, <2>1, RefusedIs DEF Refuse
  <2>3. request.role \notin DOMAIN bundle => bundle'[request.role].refused
    BY <2>2, RecordValue
  <2>4. QED
    BY <1>8, <1>10, <2>2, <2>3, HeardRecord
<1>7. QED
  BY <1>3, <1>4, <1>5, <1>6 DEF Next

LEMMA HeardInit == Init => HeardInv
  BY DEF Init, HeardInv

\* Where nothing was lost and nothing refused, the record is what the site answers to each of the
\* requests, as far as its redirects are followed and its bodies are read, and the report is the
\* judge's of that: nothing that was recorded before comes between them (observe, runChecks).
THEOREM UndisturbedIsTold == Spec => [](Undisturbed => bundle = Told /\ Checks(bundle) = Checks(Told))
<1>1. HeardInv => (Undisturbed => bundle = Told /\ Checks(bundle) = Checks(Told))
  <2> SUFFICES ASSUME HeardInv, Undisturbed PROVE bundle = Told
    OBVIOUS
  <2>1. \A role \in DOMAIN bundle : bundle[role] = Told[role]
    BY DEF HeardInv, Undisturbed, Refused
  <2>2. DOMAIN Told = DOMAIN bundle
    BY DEF Told
  <2>3. Told = [role \in DOMAIN bundle |-> Told[role]]
    BY DEF Told
  <2>4. bundle = [role \in DOMAIN bundle |-> bundle[role]]
    BY DEF HeardInv
  <2>5. QED
    BY <2>1, <2>2, <2>3, <2>4
<1>2. IInv /\ CountInv /\ ToldInv /\ HeardInv /\ [Next]_vars => HeardInv'
  BY HeardStep
<1>3. IInv /\ CountInv /\ ToldInv /\ [Next]_vars => ToldInv'
  BY ToldStep
<1>4. QED
  BY <1>1, <1>2, <1>3, CountInvariance, ToldInit, HeardInit, PTL DEF Spec

-----------------------------------------------------------------------------
(* A verification never waits, and each of its steps brings it nearer to its end. *)

\* Finitely many requests, each with a place in the order
InOrder(plan) == IsFiniteSet(plan) /\ \A r \in plan : r.turn \in Nat

LEMMA Turns ==
    ASSUME NEW role, NEW at, NEW turn, NEW name
    PROVE  /\ Get(role, at).turn = 1 /\ Post(name, at).turn = 1
           /\ InTurn(turn, Get(role, at)).turn = turn
  BY DEF Get, Post, InTurn, Request

LEMMA OneInOrder ==
    ASSUME NEW condition, NEW request, request.turn \in Nat PROVE InOrder(If(condition, request))
<1>1. If(condition, request) \subseteq {request}
  BY DEF If
<1>2. IsFiniteSet(If(condition, request))
  BY <1>1, FS_Singleton, FS_Subset
<1>3. QED
  BY <1>1, <1>2 DEF InOrder

LEMMA GetInOrder ==
    ASSUME NEW condition, NEW role, NEW at
    PROVE  InOrder(If(condition, Get(role, at)))
<1>1. Get(role, at).turn \in Nat
  BY Turns
<1>2. QED
  BY <1>1, OneInOrder

LEMMA PostInOrder ==
    ASSUME NEW condition, NEW name, NEW at
    PROVE  InOrder(If(condition, Post(name, at)))
<1>1. Post(name, at).turn \in Nat
  BY Turns
<1>2. QED
  BY <1>1, OneInOrder

LEMMA ListInOrder ==
    ASSUME NEW f, IsFiniteSet(DOMAIN f), \A x \in DOMAIN f : f[x].turn \in Nat
    PROVE  InOrder({f[x] : x \in DOMAIN f})
<1>1. IsFiniteSet({f[x] : x \in DOMAIN f})
  BY ValuesAreFinite
<1>2. QED
  BY <1>1 DEF InOrder

LEMMA BothInOrder ==
    ASSUME NEW p, NEW q, InOrder(p), InOrder(q) PROVE InOrder(p \cup q)
<1>1. IsFiniteSet(p \cup q)
  BY FS_Union DEF InOrder
<1>2. QED
  BY <1>1 DEF InOrder

LEMMA SurfacesInOrder ==
    ASSUME NEW b
    PROVE  /\ InOrder(PlanOpenapi(b)) /\ InOrder(PlanPricing(b)) /\ InOrder(PlanOffer(b))
           /\ InOrder(PlanMcp(b)) /\ InOrder(PlanMcpInit(b)) /\ InOrder(PlanProtected(b))
           /\ InOrder(PlanAs(b)) /\ InOrder(PlanOidc(b)) /\ InOrder(PlanIdentity(b))
<1>1. InOrder(PlanOpenapi(b))
  <2> DEFINE at == IF Card(b).openapi = None THEN Self ELSE Card(b).openapi
  <2> HIDE DEF at
  <2>1. InOrder(If(Local(at), Get(Role("openapi"), at)))
    BY GetInOrder
  <2>2. QED
    BY <2>1 DEF PlanOpenapi, at
<1>2. InOrder(PlanPricing(b))
  <2> DEFINE e == PricingEntry(Card(b))
  <2> HIDE DEF e
  <2>1. InOrder(If(e # None /\ e.method = "GET" /\ Local(e.at), Get(Role("pricing"), e.at)))
    BY GetInOrder
  <2>2. QED
    BY <2>1 DEF PlanPricing, e
<1>3. InOrder(PlanOffer(b)) /\ InOrder(PlanMcp(b)) /\ InOrder(PlanProtected(b))
  BY GetInOrder DEF PlanOffer, PlanMcp, PlanProtected
<1>4. InOrder(PlanMcpInit(b))
  BY PostInOrder DEF PlanMcpInit
<1>5. InOrder(PlanAs(b)) /\ InOrder(PlanOidc(b)) /\ InOrder(PlanIdentity(b))
  BY GetInOrder DEF PlanAs, PlanOidc, PlanIdentity
<1>6. QED
  BY <1>1, <1>2, <1>3, <1>4, <1>5

LEMMA RemotesInOrder ==
    ASSUME NEW b
    PROVE  /\ InOrder(PlanServerJson(b)) /\ InOrder(PlanRemote(b)) /\ InOrder(PlanTools(b))
           /\ InOrder(PlanOwnership(b)) /\ InOrder(PlanPresence(b))
           /\ InOrder(PlanUiInit(b)) /\ InOrder(PlanUiTools(b)) /\ InOrder(PlanUiCall(b))
           /\ InOrder(PlanUiRead(b)) /\ InOrder(PlanUiExternal(b))
<1>1. InOrder(PlanServerJson(b))
  <2> DEFINE at == IF Card(b).serverJson = None THEN Self ELSE Card(b).serverJson
  <2> HIDE DEF at
  <2>1. InOrder(If(Local(at), Get(Role("serverJson"), at)))
    BY GetInOrder
  <2>2. QED
    BY <2>1 DEF PlanServerJson, at
<1>2. InOrder(PlanRemote(b)) /\ InOrder(PlanTools(b))
  BY PostInOrder DEF PlanRemote, PlanTools
<1>3. InOrder(PlanOwnership(b))
  <2> DEFINE auth == InTurn(2, Get(Role("registryAuth"), Domain(b)))
  <2>1. auth.turn = 2
    BY Turns
  <2> HIDE DEF auth
  <2>2. InOrder(If(Domain(b) # None, Get(Role("dns"), Doh))) /\ InOrder(If(Delegable(Domain(b)), auth))
    BY <2>1, GetInOrder, OneInOrder
  <2>3. QED
    BY <2>2, BothInOrder DEF PlanOwnership, auth
<1>4. InOrder(PlanPresence(b)) /\ InOrder(PlanUiExternal(b))
  BY GetInOrder DEF PlanPresence, PlanUiExternal
<1>5. /\ InOrder(PlanUiInit(b)) /\ InOrder(PlanUiTools(b)) /\ InOrder(PlanUiCall(b))
      /\ InOrder(PlanUiRead(b))
  BY PostInOrder DEF PlanUiInit, PlanUiTools, PlanUiCall, PlanUiRead
<1>6. QED
  BY <1>1, <1>2, <1>3, <1>4, <1>5

LEMMA LastInOrder ==
    ASSUME NEW b
    PROVE  /\ InOrder(PlanStream(b)) /\ InOrder(PlanTwin(b)) /\ InOrder(PlanDigitalLink(b))
           /\ InOrder(PlanSuite(b)) /\ InOrder(PlanRun(b))
<1>1. InOrder(PlanDigitalLink(b))
  <2> DEFINE dl == Card(b).digitalLink
  <2> HIDE DEF dl
  <2>1. InOrder(If(dl # None /\ ~dl.malformed /\ Local(dl.at), Get(Role("gs1"), dl.at)))
    BY GetInOrder
  <2>2. QED
    BY <2>1 DEF PlanDigitalLink, dl
<1>2. InOrder(PlanStream(b)) /\ InOrder(PlanTwin(b))
  BY GetInOrder DEF PlanStream, PlanTwin
<1>3. InOrder(PlanSuite(b)) /\ InOrder(PlanRun(b))
  BY GetInOrder DEF PlanSuite, PlanRun
<1>4. QED
  BY <1>1, <1>2, <1>3

\* A path has a place in the order that a seed draws, and there are finitely many.
LEMMA PlacesInOrder ==
    ASSUME site \in Sites, seed \in Seeds, NEW order \in {seed.doors, seed.typed},
           NEW C, C \subseteq Offered(site)
    PROVE  /\ IsFiniteSet(C) /\ C \subseteq Nat /\ Len(order) \in Nat
           /\ \A p \in C : PlaceIn(order, p) \in Nat
<1>1. order \in Seq(ToSet(order)) /\ C \subseteq ToSet(order) /\ ToSet(order) \subseteq Nat
  BY SeedsAssumption
<1>2. DOMAIN order = 1 .. Len(order) /\ Len(order) \in Nat
  BY <1>1
<1>3. \A p \in C : PlaceIn(order, p) \in Nat
  <2>1. \A p \in C : \E i \in DOMAIN order : order[i] = p
    BY <1>1 DEF ToSet
  <2>2. \A p \in C : PlaceIn(order, p) \in DOMAIN order
    BY <2>1 DEF PlaceIn
  <2>3. QED
    BY <1>2, <2>2
<1>4. IsFiniteSet(C)
  <2>1. IsFiniteSet(DOMAIN order)
    BY <1>2, FS_Interval
  <2>2. IsFiniteSet({order[i] : i \in DOMAIN order})
    BY <2>1, ValuesAreFinite
  <2>3. C \in SUBSET {order[i] : i \in DOMAIN order}
    BY <1>1 DEF ToSet
  <2>4. QED
    BY <2>2, <2>3, FS_Subset
<1>5. QED
  BY <1>1, <1>2, <1>3, <1>4

LEMMA FixedInOrder == ASSUME NEW b PROVE InOrder(PlanRoot) /\ InOrder(PlanTexts) /\ InOrder(PlanFaces(b))
<1>1. InOrder(PlanRoot)
  <2> DEFINE names == <<"rootAgent", "rootBrowser", "rootJson", "rootMarkdown",
                        "rootBrowserNav", "rootAgentUa">>
             f == [i \in 1 .. 6 |-> InTurn(i, Get(Role(names[i]), Self))]
  <2>1. IsFiniteSet(DOMAIN f)
    <3>1. PICK n \in Nat : n = 6
      OBVIOUS
    <3>2. DOMAIN f = 1 .. n
      BY <3>1
    <3> HIDE DEF f
    <3>3. QED
      BY <3>2, FS_Interval
  <2>4. \A i \in DOMAIN f : f[i].turn \in Nat
    BY Turns
  <2>2. PlanRoot = {f[i] : i \in DOMAIN f}
    BY DEF PlanRoot
  <2> HIDE DEF f
  <2>3. QED
    BY <2>1, <2>2, <2>4, ListInOrder
<1>2. InOrder(PlanTexts)
  <2> DEFINE names == <<"llms", "agents", "icp", "agentConfig">>
             f == [i \in 1 .. 4 |-> InTurn(i, Get(Role(names[i]), Self))]
  <2>1. IsFiniteSet(DOMAIN f)
    <3>1. PICK n \in Nat : n = 4
      OBVIOUS
    <3>2. DOMAIN f = 1 .. n
      BY <3>1
    <3> HIDE DEF f
    <3>3. QED
      BY <3>2, FS_Interval
  <2>4. \A i \in DOMAIN f : f[i].turn \in Nat
    BY Turns
  <2>2. PlanTexts = {f[i] : i \in DOMAIN f}
    BY DEF PlanTexts
  <2> HIDE DEF f
  <2>3. QED
    BY <2>1, <2>2, <2>4, ListInOrder
<1>3. InOrder(PlanFaces(b))
  <2> DEFINE order == <<"html", "json", "md">>
             S == {g \in Faces : Local(Advertised(b, g))}
             f == [x \in S |-> InTurn(PlaceIn(order, x), Get(FaceRole(x), Advertised(b, x)))]
  <2>1. IsFiniteSet(S)
    <3>1. IsFiniteSet({order[i] : i \in 1 .. 3})
      <4>1. PICK n \in Nat : n = 3
        OBVIOUS
      <4>2. DOMAIN order = 1 .. n
        BY <4>1
      <4> HIDE DEF order
      <4>3. IsFiniteSet(1 .. n)
        BY FS_Interval
      <4>4. QED
        BY <4>1, <4>2, <4>3, ValuesAreFinite
    <3>2. S \in SUBSET {order[i] : i \in 1 .. 3}
      BY DEF Faces
    <3>3. QED
      BY <3>1, <3>2, FS_Subset
  <2>2. \A x \in S : PlaceIn(order, x) \in Nat
    <3>1. \A x \in S : \E i \in DOMAIN order : order[i] = x
      BY DEF Faces
    <3>2. DOMAIN order \subseteq Nat
      OBVIOUS
    <3> HIDE DEF order, S
    <3>3. \A x \in S : PlaceIn(order, x) \in DOMAIN order
      BY <3>1 DEF PlaceIn
    <3>4. QED
      BY <3>2, <3>3
  <2>3. PlanFaces(b) = {f[x] : x \in DOMAIN f}
    BY DEF PlanFaces
  <2> HIDE DEF order, S
  <2>4. IsFiniteSet(DOMAIN f) /\ \A x \in DOMAIN f : f[x].turn \in Nat
    BY <2>1, <2>2, Turns
  <2> HIDE DEF f
  <2>5. QED
    BY <2>3, <2>4, ListInOrder
<1>4. QED
  BY <1>1, <1>2, <1>3

\* A seed has a turn for each path that the verification finds, and so has the contract.
LEMMA DoorsInOrder ==
    ASSUME site \in Sites, seed \in Seeds, NEW b, Candidates(b) \subseteq Offered(site)
    PROVE  InOrder(PlanDoors(b)) /\ InOrder(PlanTyped(b)) /\ InOrder(PlanContract(b))
<1>1. PICK C : C = Candidates(b)
  OBVIOUS
<1>2. /\ IsFiniteSet(C) /\ C \subseteq Nat /\ Len(seed.doors) \in Nat
      /\ \A p \in C : PlaceIn(seed.doors, p) \in Nat /\ PlaceIn(seed.typed, p) \in Nat
  BY <1>1, PlacesInOrder
<1>3. \A S : S \subseteq C => IsFiniteSet(S) /\ S \subseteq Nat
  BY <1>2, FS_Subset
<1>4. InOrder(PlanDoors(b))
  <2> DEFINE turn(p) == PlaceIn(seed.doors, p) + IF p \in Hinted(b) THEN 0 ELSE Len(seed.doors)
             f == [p \in C \ Astray |-> InTurn(turn(p), Get(Keyless(p), Self))]
  <2>1. PlanDoors(b) = {f[p] : p \in DOMAIN f}
    BY <1>1 DEF PlanDoors
  <2>2. \A p \in C : turn(p) \in Nat
    BY <1>2
  <2>3. IsFiniteSet(DOMAIN f)
    BY <1>3
  <2> HIDE DEF turn
  <2>4. \A p \in DOMAIN f : f[p].turn \in Nat
    BY <2>2, Turns
  <2> HIDE DEF f
  <2>5. QED
    BY <2>1, <2>3, <2>4, ListInOrder
<1>5. InOrder(PlanTyped(b))
  <2> DEFINE place == [p \in C |-> PlaceIn(seed.typed, p)]
             paths == Foremost(DOMAIN place, MaxTyped, place) \ Astray
             f == [p \in paths |-> InTurn(2 * place[p], Get(TypedAgent(p), Self))]
             g == [p \in paths |-> InTurn(2 * place[p] + 1, Get(TypedBrowser(p), Self))]
  <2>1. PlanTyped(b) = IF Card(b).probes = None THEN {}
                       ELSE {f[p] : p \in DOMAIN f} \cup {g[p] : p \in DOMAIN g}
    BY <1>1 DEF PlanTyped
  <2>2. paths \subseteq C
    BY DEF Foremost
  <2>3. IsFiniteSet(DOMAIN f) /\ IsFiniteSet(DOMAIN g)
    BY <1>3, <2>2
  <2>4. ASSUME NEW p \in paths PROVE 2 * place[p] \in Nat /\ 2 * place[p] + 1 \in Nat
    <3>1. place[p] \in Nat
      BY <1>2, <2>2
    <3> HIDE DEF place
    <3>2. QED
      BY <3>1
  <2> HIDE DEF place, paths
  <2>5. (\A p \in DOMAIN f : f[p].turn \in Nat) /\ (\A p \in DOMAIN g : g[p].turn \in Nat)
    BY <2>4, Turns
  <2> HIDE DEF f, g
  <2>6. InOrder({f[p] : p \in DOMAIN f}) /\ InOrder({g[p] : p \in DOMAIN g})
    BY <2>3, <2>5, ListInOrder
  <2>7. InOrder({})
    BY FS_EmptySet DEF InOrder
  <2>8. QED
    BY <2>1, <2>6, <2>7, BothInOrder
<1>6. InOrder(PlanContract(b))
  <2> DEFINE rest == {p \in C \ Astray : Keyless(p) \notin DOMAIN b}
             paths == Foremost(rest, MaxContract, [q \in rest |-> q])
             f == [p \in paths |-> InTurn(p, Get(Contract(p), Self))]
  <2>1. PlanContract(b) = {f[p] : p \in DOMAIN f}
    BY <1>1 DEF PlanContract
  <2>2. paths \subseteq C
    BY DEF Foremost
  <2> HIDE DEF paths
  <2>3. IsFiniteSet(DOMAIN f) /\ paths \subseteq Nat
    BY <1>3, <2>2
  <2>4. \A p \in DOMAIN f : f[p].turn \in Nat
    BY <2>3, Turns
  <2> HIDE DEF f
  <2>5. QED
    BY <2>1, <2>3, <2>4, ListInOrder
<1>7. QED
  BY <1>4, <1>5, <1>6

LEMMA RowsInOrder == ASSUME site \in Sites, SuiteInv PROVE InOrder(PlanRows(bundle))
<1>1. PICK rows : rows = Rows(bundle)
  OBVIOUS
<1>2. rows \in Seq(ToSet(rows))
  BY <1>1, RowsAreSequence
<1>3. DOMAIN rows = 1 .. Len(rows) /\ Len(rows) \in Nat
  BY <1>2
<1> DEFINE f == [i \in 1 .. Len(rows) |-> InTurn(i, Get(Row(rows[i].id), Self))]
<1>4. PlanRows(bundle) = {f[i] : i \in DOMAIN f}
  BY <1>1, <1>3 DEF PlanRows
<1>5. IsFiniteSet(DOMAIN f)
  BY <1>3, FS_Interval
<1>7. \A i \in DOMAIN f : f[i].turn \in Nat
  BY <1>3, Turns
<1> HIDE DEF f
<1>6. QED
  BY <1>4, <1>5, <1>7, ListInOrder

LEMMA StageInOrder ==
    ASSUME site \in Sites, seed \in Seeds, SuiteInv, Candidates(bundle) \subseteq Offered(site),
           NEW i \in DOMAIN Stages
    PROVE  InOrder(Plan(Stages[i], bundle))
<1>1. i \in 1 .. 31
  BY DEF Stages
<1>2. CASE i \in 1 .. 3
  BY <1>2, StagePlan, FixedInOrder
<1>3. CASE i \in {6, 7, 31}
  BY <1>3, StagePlan, DoorsInOrder
<1>4. CASE i \in {4, 5, 8, 9, 10, 11, 12, 13, 14}
  BY <1>4, StagePlan, SurfacesInOrder
<1>5. CASE i \in 15 .. 24
  BY <1>5, StagePlan, RemotesInOrder
<1>6. CASE i \in {25, 26, 27, 28, 30}
  BY <1>6, StagePlan, LastInOrder
<1>7. CASE i = 29
  BY <1>7, StagePlan, RowsInOrder
<1>8. QED
  BY <1>1, <1>2, <1>3, <1>4, <1>5, <1>6, <1>7

\* What is recorded of the card and of the contract is the site's, the requests that wait are
\* finitely many and each has its turn, and the report is made when none is left.
EndInv ==
    /\ SuiteInv
    /\ OfSite(bundle, site, "agents") /\ OfSite(bundle, site, "openapi")
    /\ InOrder(queue)
    /\ judged => queue = {} /\ stage = Len(Stages)

LEMMA SubsetInOrder == ASSUME NEW p, NEW q, InOrder(q), p \subseteq q PROVE InOrder(p)
<1>1. IsFiniteSet(p)
  BY FS_Subset DEF InOrder
<1>2. QED
  BY <1>1 DEF InOrder

LEMMA EndRecord ==
    ASSUME EndInv, SuiteInv', NEW role, NEW ev, queue' \subseteq queue, queue # {},
           bundle' = Record(bundle, role, ev), UNCHANGED <<site, stage, judged>>,
           \A name \in {"agents", "openapi"} :
              role = Role(name) /\ IsObject(Json(ev)) => Json(ev) = Doc(Whole(site), name)
    PROVE  EndInv'
<1>1. OfSite(bundle', site, "agents") /\ OfSite(bundle', site, "openapi")
  BY RecordsAreOfSite DEF EndInv
<1>2. InOrder(queue')
  BY SubsetInOrder DEF EndInv
<1>3. ~judged
  BY DEF EndInv
<1>4. QED
  BY <1>1, <1>2, <1>3 DEF EndInv

LEMMA EndStep == IInv /\ CountInv /\ EndInv /\ [Next]_vars => EndInv'
<1> SUFFICES ASSUME IInv, CountInv, EndInv, [Next]_vars PROVE EndInv'
  OBVIOUS
<1>1. SuiteInv'
  BY SuiteStep DEF EndInv
<1>2. ASSUME UNCHANGED <<site, bundle>>, InOrder(queue'), judged' => queue' = {} /\ stage' = Len(Stages)
      PROVE  EndInv'
  BY <1>1, <1>2 DEF EndInv
<1>3. ASSUME queue' \subseteq queue, queue # {}, UNCHANGED <<site, bundle, stage, judged>> PROVE EndInv'
  <2>1. InOrder(queue') /\ ~judged
    BY <1>3, SubsetInOrder DEF EndInv
  <2>2. QED
    BY <1>2, <1>3, <2>1
<1>4. CASE NextStage
  <2>1. /\ stage + 1 \in DOMAIN Stages /\ queue' = Plan(Stages[stage + 1], bundle)
        /\ UNCHANGED <<site, bundle, judged>> /\ site \in Sites /\ seed \in Seeds /\ ~judged
    BY <1>4 DEF NextStage, IInv, Stages, EndInv, CountInv
  <2>2. Candidates(bundle) \subseteq Offered(site)
    BY CandidatesAreOffered DEF EndInv
  <2>3. InOrder(queue')
    BY <2>1, <2>2, StageInOrder DEF EndInv
  <2>4. QED
    BY <1>2, <2>1, <2>3
<1>5. CASE StopWalk \/ Deadline \/ \E request \in queue : SkipRow(request)
  BY <1>3, <1>5 DEF StopWalk, Deadline, SkipRow
<1>6. CASE RunChecks
  BY <1>2, <1>6 DEF RunChecks, EndInv
<1>7. CASE UNCHANGED vars
  BY <1>2, <1>7 DEF vars, EndInv
<1>8. ASSUME NEW request \in queue, NEW answered \in BOOLEAN, Send(request, answered)
      PROVE  EndInv'
  <2>1. PICK ev : ev = Exchanged(request, answered)
    OBVIOUS
  <2>2. /\ bundle' = Record(bundle, request.role, ev) /\ queue' \subseteq queue
        /\ UNCHANGED <<site, stage, judged>> /\ site \in Sites
    BY <1>8, <2>1 DEF Send, CountInv
  <2>3. ASSUME NEW name \in {"agents", "openapi"}, request.role = Role(name), IsObject(Json(ev))
        PROVE  Json(ev) = Doc(Whole(site), name)
    <3>1. Role(name) # Role("vitestRun")
      BY DEF Role
    <3>2. QED
      BY <2>1, <2>2, <2>3, <3>1, ExchangedSound, ReplyIsOfSite
  <2>4. QED
    BY <1>1, <2>2, <2>3, EndRecord
<1>9. ASSUME NEW request \in queue, Refuse(request) PROVE EndInv'
  <2>1. PICK ev : ev = [NoAnswer EXCEPT !.at = request.at, !.refused = TRUE]
    OBVIOUS
  <2>2. /\ bundle' = Record(bundle, request.role, ev) /\ queue' \subseteq queue
        /\ UNCHANGED <<site, stage, judged>> /\ ~IsObject(Json(ev))
    BY <1>9, <2>1, RefusedIs DEF Refuse
  <2>3. QED
    BY <1>1, <2>2, EndRecord
<1>10. QED
  BY <1>4, <1>5, <1>6, <1>7, <1>8, <1>9 DEF Next

LEMMA EndInit == Init => EndInv
<1> SUFFICES ASSUME Init PROVE EndInv
  OBVIOUS
<1>1. SuiteInv /\ OfSite(bundle, site, "agents") /\ OfSite(bundle, site, "openapi")
  BY DEF Init, SuiteInv, OfSite, Doc, Ev, Find, Json, NoAnswer, IsObject, HasBody, Answered2xx
<1>2. InOrder(queue) /\ ~judged
  BY FixedInOrder DEF Init
<1>3. QED
  BY <1>1, <1>2 DEF EndInv

LEMMA EndInvariance == Spec => [](IInv /\ EndInv)
<1>1. IInv /\ CountInv /\ EndInv /\ [Next]_vars => EndInv'
  BY EndStep
<1>2. QED
  BY <1>1, CountInvariance, EndInit, PTL DEF Spec

\* There is a next step: the stage that follows or the judge where nothing is left to be asked,
\* and where something is, a request whose turn it is (it is sent, or passed over, or refused:
\* one of StopWalk, SkipRow, Send and Refuse has its guard in any state).
Able ==
    \/ queue = {} /\ (stage < Len(Stages) \/ (stage = Len(Stages) /\ ~judged))
    \/ \E request \in queue : IsNext(request)

\* Up to the report a verification can always go on: whatever the site serves and the seed draws,
\* and also where the budget is spent, the stage follows, the judge runs, or one of the requests
\* that wait is the next (observeTarget; the part of VerificationEnds that is an invariant).
THEOREM NeverWaits == Spec => [](judged \/ Able)
<1>1. IInv /\ EndInv => judged \/ Able
  <2> SUFFICES ASSUME IInv, EndInv, ~judged PROVE Able
    OBVIOUS
  <2>1. CASE queue = {}
    BY <2>1 DEF IInv, Stages, Able
  <2>2. CASE queue # {}
    <3> DEFINE T == {r.turn : r \in queue}
    <3>1. T \subseteq Nat /\ T # {}
      BY <2>2 DEF EndInv, InOrder
    <3>2. PICK t \in T : \A u \in T : t <= u
      BY <3>1, LeastExists
    <3>3. PICK request \in queue : request.turn = t
      BY <3>2
    <3>4. IsNext(request)
      BY <3>2, <3>3 DEF IsNext
    <3>5. QED
      BY <3>4 DEF Able
  <2>3. QED
    BY <2>1, <2>2
<1>2. QED
  BY <1>1, EndInvariance, PTL

\* A stage further, or a request fewer in the same stage, or the report; and nothing after it
Nearer ==
    /\ ~judged
    /\ \/ stage < Len(Stages) /\ stage' = stage + 1 /\ ~judged'
       \/ stage' = stage /\ Cardinality(queue') < Cardinality(queue) /\ ~judged'
       \/ stage' = stage /\ queue' = queue /\ judged'

\* Each step of a verification brings it nearer to its report, none comes back to a stage or to a
\* request, and the report is the last: no redirect, no loss and no refusal makes it go round
\* (observeTarget, runChecks).  With NeverWaits and the fairness of Next that is why it ends.
THEOREM EachStepIsNearer == Spec => [][Nearer]_vars
<1>1. IInv /\ EndInv /\ [Next]_vars => [Nearer]_vars
  <2> SUFFICES ASSUME IInv, EndInv, Next PROVE Nearer
    OBVIOUS
  <2>1. ASSUME queue' \subseteq queue, queue' # queue, UNCHANGED <<stage, judged>> PROVE Nearer
    <3>1. IsFiniteSet(queue) /\ ~judged
      BY <2>1 DEF EndInv, InOrder
    <3>2. Cardinality(queue') < Cardinality(queue)
      <4>1. /\ Cardinality(queue') <= Cardinality(queue)
            /\ Cardinality(queue') = Cardinality(queue) => queue' = queue
        BY <2>1, <3>1, FS_Subset
      <4>2. Cardinality(queue') \in Nat /\ Cardinality(queue) \in Nat
        BY <2>1, <3>1, FS_Subset, FS_CardinalityType
      <4>3. QED
        BY <2>1, <4>1, <4>2
    <3>3. QED
      BY <2>1, <3>1, <3>2 DEF Nearer
  <2>2. CASE NextStage
    BY <2>2 DEF NextStage, EndInv, Nearer
  <2>3. CASE StopWalk \/ Deadline
    BY <2>1, <2>3 DEF StopWalk, Deadline
  <2>4. CASE RunChecks
    BY <2>4 DEF RunChecks, Nearer
  <2>5. ASSUME NEW request \in queue, SkipRow(request) \/ Refuse(request) PROVE Nearer
    BY <2>1, <2>5 DEF SkipRow, Refuse
  <2>6. ASSUME NEW request \in queue, NEW answered \in BOOLEAN, Send(request, answered) PROVE Nearer
    BY <2>1, <2>6 DEF Send
  <2>7. QED
    BY <2>2, <2>3, <2>4, <2>5, <2>6 DEF Next
<1>2. QED
  BY <1>1, EndInvariance, PTL DEF Spec

================================================================================
