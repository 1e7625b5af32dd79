--------------------------------- MODULE Judge ---------------------------------
(***************************************************************************)
(* The judge (checks.ts, contract.ts, grade.ts): every check is a pure     *)
(* function of the recorded bundle, so a verdict can be derived again from *)
(* the evidence alone.  Ten checks are worth a point; a failure of any of  *)
(* the others caps the grade.                                              *)
(***************************************************************************)
EXTENDS SuiteFace

Verdicts == {"pass", "fail", "skip"}
PassIf(holds) == IF holds THEN "pass" ELSE "fail"
Optional(claimed, holds) == IF claimed THEN PassIf(holds) ELSE "skip"

\* looksLikeHtml
IsHtml(ev) == HasBody(ev) /\ ev.body = "html"
NotHtml(ev) == HasBody(ev) /\ ev.body # "html"

Probed(b, kind) == {r[2] : r \in {x \in DOMAIN b : x[1] = kind}}
Doors(b) == {b[Keyless(p)] : p \in Probed(b, "keyless")}

-----------------------------------------------------------------------------
(* The surfaces that an agent reads first.                                   *)

LlmsTxt(b) == PassIf(Ok(b, "llms") /\ Text(b, "llms") # None /\ Text(b, "llms").md)
AgentsJson(b) == PassIf(Ok(b, "agents") /\ Card(b).name)
IcpJson(b) == PassIf(Ok(b, "icp") /\ IsObject(Doc(b, "icp")) /\ Doc(b, "icp").classes)
OpenapiPublished(b) == PassIf(Ok(b, "openapi") /\ Openapi(b).valid)

ContentNegotiation(b) ==
    PassIf(/\ NotHtml(Ev(b, "rootAgent")) /\ IsHtml(Ev(b, "rootBrowser"))
           /\ ~IsHtml(Ev(b, "rootJson")))

McpDeclared(b) ==
    LET mcp == Card(b).mcp
    IN  PassIf(mcp # None /\ (mcp.transport # "unstated" \/ mcp.at # None) /\ mcp.tools)

Siblings == {"agents.json", "icp.json", "openapi", "llms.txt"}
Mentions(b) == IF Text(b, "llms") = None THEN {} ELSE Text(b, "llms").mentions
Linkset(b) ==
    PassIf(\/ Cardinality(Mentions(b) \cap Siblings) >= 2
           \/ Ev(b, "rootAgent").link)

Attestation(b) ==
    PassIf(Card(b).attestation \/ (IsObject(Doc(b, "icp")) /\ Doc(b, "icp").ladder))

-----------------------------------------------------------------------------
(* An MCP endpoint as an OAuth 2.1 resource server.                          *)

Challenges(ev) == ev.st \in {401, 403} \/ ev.www # "none"
\* The GET neither answers nor challenges: the initialization by POST decides.
Undecided(ev) == ~Answered2xx(ev) /\ ~Challenges(ev)
Initializes(b) ==
    /\ Ok(b, "mcpInit") /\ Message(b, "mcpInit") # None
    /\ ~Message(b, "mcpInit").error /\ Message(b, "mcpInit").version

IsRemote(card) ==
    /\ card.mcp # None /\ card.mcp.transport # "stdio"
    /\ ~(card.mcp.transport = "unstated" /\ card.mcp.at = None)

KeylessMcp(b) ==
    LET get == Ev(b, "mcp")
    IN  IF Undecided(get) THEN ~Challenges(Ev(b, "mcpInit")) /\ Initializes(b)
                          ELSE ~Challenges(get)

McpCheck(b, holds) ==
    LET card == Card(b)
    IN  CASE ~IsRemote(card) -> "skip"
          [] IsRemote(card) /\ ~Local(card.mcp.at) -> "fail"
          [] IsRemote(card) /\ Local(card.mcp.at) /\ KeylessMcp(b) -> "skip"
          [] OTHER -> PassIf(holds)

Audience(b) == IF IsObject(Doc(b, "protected")) THEN Doc(b, "protected").resource ELSE None

ProtectedResource(b) ==
    McpCheck(b, Ok(b, "protected") /\ Audience(b) # None
                /\ IsObject(Doc(b, "protected")) /\ Doc(b, "protected").servers # <<>>)
AsMetadata(b) ==
    McpCheck(b, Delegable(AuthServer(b)) /\ AsResolved(b) /\ AsMeta(b) # None /\ AsMeta(b).complete)
Pkce(b) == McpCheck(b, AsResolved(b) /\ AsMeta(b) # None /\ AsMeta(b).pkce)
Dcr(b) == McpCheck(b, AsResolved(b) /\ AsMeta(b) # None /\ AsMeta(b).register)
ResourceIndicators(b) == McpCheck(b, Audience(b) # None /\ Audience(b) = McpUrl(Card(b)))
\* Only the answer to the GET is read.
WwwAuthenticate(b) ==
    McpCheck(b, Ev(b, "mcp").st \in {401, 403} /\ Ev(b, "mcp").www = "metadata")

-----------------------------------------------------------------------------
(* Agent identity.                                                           *)

AapDiscovery(b) ==
    Optional(Ok(b, "agentConfig"), IsObject(Doc(b, "agentConfig")) /\ Doc(b, "agentConfig").complete)

AuthmdAgentIdentity(b) ==
    LET auth == AgentAuth(AsMeta(b))
        identity == Ev(b, "identity")
    IN  IF auth = None THEN "skip"
        ELSE PassIf(/\ auth # Junk
                    /\ auth.complete /\ auth.idjag
                    /\ SameOrigin(auth.identity, AsEvidence(b).at)
                    /\ identity.st # 0 /\ identity.st # 404 /\ identity.st < 500)

-----------------------------------------------------------------------------
(* Doors, offers and the contract.                                           *)

KeylessFlow(b) == PassIf(\E ev \in Doors(b) : Answered2xx(ev))

PricingModel(b) ==
    IF Ok(b, "pricing") /\ IsObject(Doc(b, "pricing")) THEN Doc(b, "pricing").model ELSE "unknown"

\* A boundary that was refused unfetched is a violation; a free site needs none.
Offers402(b) ==
    LET card == Card(b)
        violation == card.boundary # None /\ ~OfferProbe(card)
        offer == Doc(b, "offer")
    IN  CASE violation -> "fail"
          [] ~violation /\ ~card.offers ->
                PassIf(~OfferProbe(card) /\ PricingModel(b) = "free")
          [] ~violation /\ card.offers /\ OfferProbe(card) ->
                PassIf(Ev(b, "offer").st = 402 /\ IsObject(offer) /\ offer.typed)
          [] OTHER -> "pass"

SchemaConformance(b) ==
    LET judged == {p \in Probed(b, "keyless") \cap Schemas(b) :
                      Answered2xx(b[Keyless(p)])}
    IN  Optional(judged # {},
                 \A p \in judged : Json(b[Keyless(p)]) # None /\ Json(b[Keyless(p)]).fits)

ClaimsHonesty(b) ==
    Optional(Doors(b) # {}, \A ev \in Doors(b) : ev.st # 404 /\ ev.st < 500)

\* liveEvidence: the probe of the contract pass comes first.
Live(b, path) ==
    IF Contract(path) \in DOMAIN b THEN b[Contract(path)] ELSE Find(b, Keyless(path))
Diffed(b) ==
    {p \in Openapi(b).doors : /\ {Contract(p), Keyless(p)} \cap DOMAIN b # {}
                              /\ ~Live(b, p).refused}
\* The answer, of whatever status, is of the media type that is declared for it, and its
\* body of the schema; a member that a closed schema does not name breaks it too.
Default == 1000
HeldTo(response, ev) ==
    /\ response.ct # "none" => ev.ct = response.ct
    /\ Sampled(response) => Json(ev) # None /\ Json(ev).fits /\ ~Json(ev).extra
\* Every status that is answered is declared, and no default covers a 404.
Keeps(b, path) ==
    LET ev == Live(b, path)
        declared == Openapi(b).responses[path]
        status == IF ev.st \in DOMAIN declared THEN ev.st ELSE Default
    IN  /\ ev.st # 0
        /\ status \in DOMAIN declared /\ (status = Default => ev.st # 404)
        /\ HeldTo(declared[status], ev)
ContractDiff(b) ==
    Optional(Openapi(b).valid /\ Diffed(b) # {}, \A p \in Diffed(b) : Keeps(b, p))

-----------------------------------------------------------------------------
(* The registry of MCP servers.                                              *)

Served(b) == Ok(b, "serverJson") /\ Server(b) # None

McpServerJson(b) ==
    Optional(Ok(b, "serverJson"),
             /\ Server(b) # None /\ Server(b).complete
             /\ NameIsValid(Server(b)) /\ Server(b).remotes # <<>>
             /\ \A r \in ToSet(Server(b).remotes) : r.transport /\ r.at # None)

ToolNames(b) == {i \in DOMAIN Tools(b) : Tools(b)[i].name}
McpRemoteLive(b) ==
    LET init == Ev(b, "remoteInit")
    IN  Optional(Served(b) /\ ServerRemote(b) # None,
                 /\ Delegable(ServerRemote(b))
                 /\ \/ init.st \in {401, 403}
                    \/ /\ Answered2xx(init)
                       /\ ~(Message(b, "remoteInit") # None /\ Message(b, "remoteInit").error)
                       /\ ToolNames(b) # {})

Listed(b) == Ok(b, "presence") /\ IsObject(Doc(b, "presence")) /\ Doc(b, "presence").listed
Proves(ev) == Answered2xx(ev) /\ ev.doc # None /\ ev.doc.proof
\* A GitHub name is proven by the registry, a domain by its DNS or at the domain itself.
McpRegistryOwnership(b) ==
    Optional(Served(b) /\ NameIsValid(Server(b)),
             IF Server(b).name = "github" THEN Listed(b)
             ELSE \/ Proves(Ev(b, "dns"))
                  \/ Proves(Ev(b, "registryAuth")) /\ Ev(b, "registryAuth").at = Domain(b))

\* Informational: it never fails.
McpRegistryPresence(b) == IF Served(b) /\ Server(b).name # "none" /\ Listed(b) THEN "pass" ELSE "skip"

-----------------------------------------------------------------------------
(* The widget of an MCP tool.                                                *)

UiCheck(b, verdict) == IF UiTool(b) = None THEN "skip" ELSE verdict

McpUiLinkage(b) ==
    UiCheck(b, PassIf(/\ LinkedUri(b) # None /\ Resource(b) # None
                      /\ ExternalUrl(b) # None => Delegable(ExternalUrl(b))
                      /\ Resource(b).mime \in {"mcp-app", "uri-list", "mcp-ui"}))

\* The page that the host would render, None when it is empty or was not fetched: any body
\* of the external page counts, also that of an error.
Blank == [refs |-> FALSE, scripts |-> {}]
Fetched(ev) ==
    CASE ev.body \in {"none", "empty"} -> None
      [] ev.body \notin {"none", "empty"} /\ ev.doc = None -> Blank
      [] OTHER -> ev.doc
Page(b) == IF ExternalUrl(b) # None THEN Fetched(Ev(b, "external"))
           ELSE IF Resource(b) = None THEN None ELSE Resource(b).page
\* A closed policy, no reference out of the page, and every inline script by its hash
SelfContained(call, page) ==
    call.csp = "closed" /\ ~page.refs /\ page.scripts \subseteq call.hashes
McpUiSelfContained(b) ==
    UiCheck(b, IF Page(b) = None THEN IF ExternalUrl(b) # None THEN "skip" ELSE "fail"
               ELSE PassIf(CallResult(b) # None /\ SelfContained(CallResult(b), Page(b))))

McpUiEnvelopeHygiene(b) ==
    UiCheck(b, IF CallResult(b) = None THEN "skip" ELSE PassIf(~CallResult(b).secret))
\* The widget shows what the structured content says, where it has data of its own.
McpUiRegisterParity(b) ==
    UiCheck(b, IF CallResult(b) = None THEN "skip"
               ELSE PassIf(/\ CallResult(b).structured # None
                           /\ CallResult(b).data \in {None, CallResult(b).structured}))
McpUiHostRender(b) == UiCheck(b, PassIf(~UiTool(b).needs /\ UiTool(b).described))

-----------------------------------------------------------------------------
(* The stream of UI messages.  A frame is a part, the terminal, or broken.   *)

Frames(b) == IF Ev(b, "stream").doc = None THEN <<>> ELSE Ev(b, "stream").doc
Parts(b) == SelectSeq(Frames(b), LAMBDA f : f.kind = "part")
Dones(b) == SelectSeq(Frames(b), LAMBDA f : f.kind = "done")
StreamDeclared(b) == Role("stream") \in DOMAIN b
\* Nothing to read of a stream that is not served with a 2xx
StreamCheck(b, verdict) ==
    IF StreamDeclared(b) /\ Ok(b, "stream") /\ Parts(b) # <<>> THEN verdict ELSE "skip"

UiStreamTransport(b) ==
    Optional(StreamDeclared(b), Ok(b, "stream") /\ Ev(b, "stream").ct = "event-stream-v1")
UiStreamFraming(b) ==
    LET frames == Frames(b)
    IN  CASE ~StreamDeclared(b) -> "skip"
          [] StreamDeclared(b) /\ Ev(b, "stream").st = 0 -> "fail"
          [] StreamDeclared(b) /\ Ev(b, "stream").st # 0 /\ ~Ok(b, "stream") -> "skip"
          [] OTHER -> PassIf(/\ \A i \in DOMAIN frames : frames[i].kind # "broken"
                             /\ Parts(b) # <<>> /\ Len(Dones(b)) = 1
                             /\ frames[Len(frames)].kind = "done")
UiStreamPartShapes(b) == StreamCheck(b, PassIf(\A p \in ToSet(Parts(b)) : p.shaped))
UiStreamEnvelopeHygiene(b) == StreamCheck(b, PassIf(\A p \in ToSet(Parts(b)) : ~p.secret))
\* The twin is read whatever its status, the outputs must be what it says.
Outputs(b) == {p.output : p \in {q \in ToSet(Parts(b)) : q.output # None}}
UiStreamParity(b) ==
    LET twin == Json(Ev(b, "twin"))
    IN  StreamCheck(b, IF twin = None \/ Outputs(b) = {} THEN "skip"
                       ELSE PassIf(Outputs(b) = {twin.value}))

-----------------------------------------------------------------------------
(* The GS1 digital link.                                                     *)

DigitalLinkResolver(b) ==
    LET dl == Card(b).digitalLink
        ev == Ev(b, "gs1")
        doc == Json(ev)
    IN  Optional(dl # None,
                 /\ ~dl.malformed /\ Local(dl.at) /\ Answered2xx(ev)
                 /\ ev.ct = "json" /\ IsObject(doc) /\ doc.valid /\ doc.root = Self
                 /\ dl.root \in {None, doc.root})

-----------------------------------------------------------------------------
(* The published test suite: one run, two judgements.                        *)

PublishedTestSuite(b) == Optional(Claim(b) # None, PublishedSuitePasses(b))
CapabilityCoverage(b) == Optional(Claim(b) # None, CoveragePasses(b))

-----------------------------------------------------------------------------
(* The agent-first contract, which a card claims with a manifest of probes.  *)

AxpCheck(b, holds) == Optional(Card(b).probes # None, holds)

IsJson(ev) == Answered2xx(ev) /\ ev.ct = "json" /\ Json(ev) # None
IsMarkdown(ev) ==
    NotHtml(ev) /\ (ev.ct = "md" \/ (ev.ct = "text" /\ Json(ev) = None))
IsFace(face, ev) ==
    CASE face = "html" -> IsHtml(ev) [] face = "json" -> IsJson(ev) [] face = "md" -> IsMarkdown(ev)

\* Of the typed bodies only those of the doors are read.
MachineLegibleHome(b) ==
    AxpCheck(b, /\ \A r \in {"rootAgent", "rootJson", "rootAgentUa"} : NotHtml(Ev(b, r))
                /\ \A ev \in Doors(b) : ~IsHtml(ev))
ConnegAccept(b) ==
    AxpCheck(b, /\ IsFace("html", Ev(b, "rootBrowser")) /\ IsFace("json", Ev(b, "rootJson"))
                /\ IsFace("md", Ev(b, "rootMarkdown")))
ConnegClientClass(b) ==
    AxpCheck(b, /\ IsFace("json", Ev(b, "rootAgent")) /\ IsFace("html", Ev(b, "rootBrowserNav"))
                /\ IsFace("md", Ev(b, "rootAgentUa")))
ConnegAlternates(b) ==
    AxpCheck(b, \A r \in {"rootAgent", "rootBrowser", "rootMarkdown"} :
                   /\ Ok(b, r) /\ Ev(b, r).ct \in Faces
                   /\ \A face \in Faces \ {Ev(b, r).ct} : Ev(b, r).alts[face] # None)
ConnegForcedFace(b) ==
    AxpCheck(b, \A face \in Faces : /\ FaceRole(face) \in DOMAIN b
                                     /\ IsFace(face, b[FaceRole(face)]))

\* Two checks of one name judge the cross-links, each by rules of its own.
CardInterfacesLinked(b) ==
    LET card == Card(b)
    IN  AxpCheck(b, /\ card.endpoints # {} \/ card.mcp # None
                    /\ card.openapi # None /\ card.llms # "none"
                    /\ Ok(b, "llms") /\ "agents.json" \in Mentions(b)
                    /\ Mentions(b) \cap {"openapi", "OpenAPI"} # {})
CardInterfacesLinkedAgain(b) ==
    LET card == Card(b)
    IN  AxpCheck(b, /\ \/ card.endpoints # {}
                       \/ card.mcp # None /\ (card.mcp.tools \/ card.mcp.at # None \/ card.mcp.command)
                    /\ card.openapi # None /\ card.llms \in {"llms", "surfaces"}
                    /\ {"agents.json", "openapi"} \subseteq Mentions(b))

\* The entries of a channel, of two with one URL the last
Distinct(entries) ==
    {entries[i] : i \in {j \in DOMAIN entries :
        \A k \in j + 1 .. Len(entries) : entries[k].url # entries[j].url}}
Urls(entries) == {e.url : e \in Distinct(entries)}
DeclaredPaths(b) ==
    (IF IsObject(Doc(b, "openapi")) THEN Doc(b, "openapi").paths ELSE {})
    \cup {e.path : e \in {x \in Card(b).endpoints : x.at = Self}}
Least(channel, metered) ==
    CASE channel \in {"knownEmpty", "knownForbidden"} -> 2
      [] channel = "overCeiling" /\ ~metered -> 0
      [] OTHER -> 1
ProbeManifest(b) ==
    LET probes == Card(b).probes
        metered == PricingModel(b) = "metered"
    IN  Optional(probes # None,
          /\ \A c \in DOMAIN probes : Cardinality(Urls(probes[c])) >= Least(c, metered)
          /\ \A c \in DOMAIN probes : \A e \in Distinct(probes[c]) :
                Local(e.at) /\ e.method = "GET" /\ e.path \in DeclaredPaths(b)
          /\ Urls(probes.knownEmpty) \cap Urls(probes.knownForbidden) = {}
          /\ \A e \in Distinct(probes.overCeiling) : e.param
          /\ metered => OfferProbe(Card(b)))

-----------------------------------------------------------------------------
(* The report.                                                               *)

\* The checks that are worth a point, in the order of their items
AxItems == <<"llms-txt", "agents-json", "icp-json", "content-negotiation", "openapi",
             "mcp-declared", "keyless-flow", "offers-402", "linkset", "attestation">>

Joined(f, g) == [x \in DOMAIN f \cup DOMAIN g |-> IF x \in DOMAIN f THEN f[x] ELSE g[x]]
Scored(b) ==
    [id \in ToSet(AxItems) |->
     CASE id = "llms-txt" -> LlmsTxt(b) [] id = "agents-json" -> AgentsJson(b)
       [] id = "icp-json" -> IcpJson(b) [] id = "content-negotiation" -> ContentNegotiation(b)
       [] id = "openapi" -> OpenapiPublished(b) [] id = "mcp-declared" -> McpDeclared(b)
       [] id = "keyless-flow" -> KeylessFlow(b) [] id = "offers-402" -> Offers402(b)
       [] id = "linkset" -> Linkset(b) [] id = "attestation" -> Attestation(b)]
Unscored(b) ==
    [protectedResource |-> ProtectedResource(b), asMetadata |-> AsMetadata(b), pkce |-> Pkce(b),
     dcr |-> Dcr(b), resourceIndicators |-> ResourceIndicators(b),
     wwwAuthenticate |-> WwwAuthenticate(b), aap |-> AapDiscovery(b),
     authmd |-> AuthmdAgentIdentity(b), schema |-> SchemaConformance(b),
     honesty |-> ClaimsHonesty(b), contract |-> ContractDiff(b),
     serverJson |-> McpServerJson(b), remoteLive |-> McpRemoteLive(b),
     ownership |-> McpRegistryOwnership(b), presence |-> McpRegistryPresence(b),
     uiLinkage |-> McpUiLinkage(b), uiSelfContained |-> McpUiSelfContained(b),
     uiHygiene |-> McpUiEnvelopeHygiene(b), uiParity |-> McpUiRegisterParity(b),
     uiHostRender |-> McpUiHostRender(b), streamTransport |-> UiStreamTransport(b),
     streamFraming |-> UiStreamFraming(b), streamShapes |-> UiStreamPartShapes(b),
     streamHygiene |-> UiStreamEnvelopeHygiene(b), streamParity |-> UiStreamParity(b),
     digitalLink |-> DigitalLinkResolver(b), suite |-> PublishedTestSuite(b),
     coverage |-> CapabilityCoverage(b), legible |-> MachineLegibleHome(b),
     connegAccept |-> ConnegAccept(b), clientClass |-> ConnegClientClass(b),
     alternates |-> ConnegAlternates(b), forcedFace |-> ConnegForcedFace(b),
     linked |-> CardInterfacesLinked(b), linkedAgain |-> CardInterfacesLinkedAgain(b),
     manifest |-> ProbeManifest(b)]
Checks(b) == Joined(Scored(b), Unscored(b))

\* axScoreOf and gradeOf
Points(checks) == Cardinality({id \in ToSet(AxItems) : checks[id] = "pass"})
Dishonest(checks) == {id \in DOMAIN checks \ ToSet(AxItems) : checks[id] = "fail"}
Grades == <<"F", "D", "C", "B", "A", "A+">>
ByPoints(points) ==
    CASE points >= 10 -> 6 [] points = 9 -> 5 [] points \in {7, 8} -> 4
      [] points \in {5, 6} -> 3 [] points \in {3, 4} -> 2 [] OTHER -> 1
\* A surface that lies is at most a C, however complete it is.
GradeRank(checks) ==
    LET rank == ByPoints(Points(checks))
    IN  IF Dishonest(checks) # {} /\ rank > 3 THEN 3 ELSE rank
=============================================================================
