------------------------------ MODULE MCDiscovery ------------------------------
(* Sites for Discovery: five that comply with all that they claim, and next to
   each the ones that differ from it in one respect, labelled with the checks
   that this respect breaks.                                                  *)
EXTENDS Discovery

CONSTANTS Private, Clear, Auth, Host, Owner, Elsewhere   \* origins

Rest == <<5, 6, 7, 8, 9, 10, 11, 12, 13>>
TheSeeds ==
    {[doors |-> <<1, 2, 3, 4, 5, 6, 7, 8, 9, 10, 11, 12, 13, 99>>, typed |-> <<1, 2, 3, 4, 99>> \o Rest],
     [doors |-> <<99, 3, 1, 2, 5, 4, 6, 7, 8, 9, 10, 11, 13, 12>>, typed |-> <<99, 3, 1, 2, 4>> \o Rest]}

-----------------------------------------------------------------------------
(* Answers                                                                     *)

Answered(st, ct, body, doc) ==
    [NoAnswer EXCEPT !.st = st, !.ct = ct, !.body = body, !.doc = doc]
JsonOf(doc) == Answered(200, "json", "json", doc)
Html == Answered(200, "html", "html", None)
Markdown == Answered(200, "md", "text", None)
Status(st) == [NotFound EXCEPT !.st = st]
Challenge(www) == [NotFound EXCEPT !.st = 401, !.www = www]
Linking(ev, alts) == [ev EXCEPT !.alts = [f \in Faces |-> IF f \in alts THEN Self ELSE None]]

Reached(ev) == [ev |-> ev, via |-> <<>>, size |-> "small"]
Via(ev, hops) == [Reached(ev) EXCEPT !.via = hops]
OfSize(ev, size) == [Reached(ev) EXCEPT !.size = size]
Says(names) == [r \in {Role(n) : n \in DOMAIN names} |-> Reached(names[r[1]])]
Opens(paths, ev) == [r \in {Keyless(p) : p \in paths} \cup {Contract(p) : p \in paths} |-> Reached(ev)]

Site(replies, claims) == [replies |-> replies, faults |-> 0, breaks |-> {}, claims |-> claims]
\* The site that answers these instead, and breaks those checks
But(base, replies, breaks) ==
    [base EXCEPT !.replies = replies @@ @, !.breaks = breaks]
ButAt(base, name, ev, breaks) == But(base, Role(name) :> Reached(ev), breaks)
ButCard(base, card, breaks) == ButAt(base, "agents", JsonOf(card), breaks)
CardOf(base) == base.replies[Role("agents")].ev.doc
Unreliable(base) == [base EXCEPT !.faults = 1]

-----------------------------------------------------------------------------
(* A plain site: the ten surfaces, three doors, and no interface of its own.   *)

Stdio == [transport |-> "stdio", at |-> None, tools |-> TRUE, command |-> TRUE]
Door(path, auth) == [path |-> path, at |-> Self, method |-> "GET", auth |-> auth]
PlainCard ==
    [NoCard EXCEPT !.name = TRUE, !.offers = TRUE, !.attestation = TRUE, !.openapi = Self,
                   !.llms = "llms", !.mcp = Stdio, !.endpoints = {Door(1, "keyless")}]
Fitting == [fits |-> TRUE, extra |-> FALSE]
LlmsOf(mentions) == Answered(200, "text", "text", [md |-> TRUE, mentions |-> mentions])
Icp == [classes |-> TRUE, ladder |-> FALSE]
Untyped == [ct |-> "none", schema |-> FALSE]
Typed(schema) == [ct |-> "json", schema |-> schema]
Responses == [p \in (1 .. 13) \cup {99} |->
                 (200 :> IF p \in {1, 2, 4} THEN Typed(TRUE) ELSE Untyped) @@ (401 :> Untyped)]
Spec3 == [valid |-> TRUE, doors |-> 1 .. 4, paths |-> 1 .. 4, responses |-> Responses]
\* A contract that says so of one answer of the second or the third door
Declaring(path, status, response) ==
    JsonOf([Spec3 EXCEPT !.responses[path] = (status :> response) @@ @])

Plain ==
    Site(Says([rootAgent |-> Markdown, rootBrowser |-> Html, rootJson |-> JsonOf(Junk),
               llms |-> LlmsOf(Siblings), agents |-> JsonOf(PlainCard), icp |-> JsonOf(Icp),
               openapi |-> JsonOf(Spec3), agentConfig |-> JsonOf([complete |-> TRUE])])
         @@ Opens(1 .. 4, JsonOf(Fitting)),
         {"aap", "schema", "honesty", "contract"})

\* The door answers so, under a contract that says this of one of its answers.
ButContract(path, status, response, ev, breaks) ==
    But(ButAt(Plain, "openapi", Declaring(path, status, response), {}), Opens({path}, ev), breaks)
Refusal(doc) == [Challenge("none") EXCEPT !.ct = "json", !.body = "json", !.doc = doc]
\* A page that is answered for every path, and names what it could link to
Fallback == Answered(200, "html", "html", [md |-> FALSE, mentions |-> Siblings])

PlainSites ==
    {Plain, ButAt(Plain, "llms", Fallback, {"llms-txt"}),
     ButAt(Plain, "llms", [Fallback EXCEPT !.st = 404], {"llms-txt"}),
     ButAt(Plain, "llms", NotFound, {"llms-txt", "linkset"}),
     ButAt(Plain, "llms", [LlmsOf({"agents.json"}) EXCEPT !.doc.md = FALSE], {"llms-txt", "linkset"}),
     But(ButAt(Plain, "llms", LlmsOf({"agents.json"}), {}),
         Role("rootAgent") :> Reached([Markdown EXCEPT !.link = TRUE]), {}),
     ButAt(Plain, "agents", NotFound, {"agents-json", "mcp-declared", "attestation", "offers-402"}),
     ButAt(Plain, "agents", JsonOf(Junk), {"agents-json", "mcp-declared", "attestation", "offers-402"}),
     ButCard(Plain, [PlainCard EXCEPT !.name = FALSE], {"agents-json"}),
     ButAt(Plain, "icp", Html, {"icp-json"}),
     ButAt(Plain, "icp", JsonOf([Icp EXCEPT !.classes = FALSE]), {"icp-json"}),
     ButAt(Plain, "rootBrowser", Markdown, {"content-negotiation"}),
     ButAt(Plain, "rootAgent", Html, {"content-negotiation"}),
     ButAt(Plain, "rootJson", Html, {"content-negotiation"}),
     [But(Plain, Role("openapi") :> Via(JsonOf(Spec3), <<Self, Elsewhere>>), {"openapi"})
        EXCEPT !.claims = {"aap", "honesty"}],
     But(Plain, Role("openapi") :> Via(JsonOf(Spec3), <<Self, Self, Self>>), {}),
     [But(Plain, Role("openapi") :> Via(JsonOf(Spec3), <<Self, Self, Self, Self>>), {"openapi"})
        EXCEPT !.claims = {}],
     [ButCard(Plain, [PlainCard EXCEPT !.openapi = Elsewhere], {"openapi"}) EXCEPT !.claims = {"aap"}],
     [ButCard(Plain, [PlainCard EXCEPT !.openapi = Elsewhere, !.endpoints = {}],
              {"openapi", "keyless-flow"}) EXCEPT !.claims = {"aap"}],
     ButCard(Plain, [PlainCard EXCEPT !.mcp.tools = FALSE], {"mcp-declared"}),
     ButCard(Plain, [PlainCard EXCEPT !.mcp = None], {"mcp-declared"}),
     ButCard(Plain, [PlainCard EXCEPT !.attestation = FALSE], {"attestation"}),
     ButAt(ButCard(Plain, [PlainCard EXCEPT !.attestation = FALSE], {}),
           "icp", JsonOf([Icp EXCEPT !.ladder = TRUE]), {}),
     [But(Plain, Opens(1 .. 4, Challenge("none")), {"keyless-flow"})
        EXCEPT !.claims = {"honesty", "contract"}],
     But(Plain, Opens({1}, NotFound), {"honesty", "contract"}),
     But(Plain, Opens({1}, Status(500)), {"honesty", "contract"}),
     ButContract(2, Default, Untyped, Status(403), {}),
     ButContract(2, Default, Untyped, NotFound, {"honesty", "contract"}),
     ButContract(2, Default, Typed(FALSE), Status(403), {"contract"}),
     \* An error is held to what is declared of it, and a door to a type without a schema.
     ButContract(2, 401, Typed(TRUE), Refusal(Fitting), {}),
     ButContract(2, 401, Typed(TRUE), Refusal([Fitting EXCEPT !.fits = FALSE]), {"contract"}),
     ButContract(2, 401, Typed(FALSE), Challenge("none"), {"contract"}),
     ButContract(3, 200, Typed(FALSE), JsonOf([Fitting EXCEPT !.fits = FALSE]), {}),
     ButContract(3, 200, Typed(FALSE), Markdown, {"contract"}),
     But(Plain, Opens({3}, Markdown), {}),
     But(Plain, Opens({2}, Status(403)), {"contract"}),
     But(Plain, Opens({1}, JsonOf([Fitting EXCEPT !.fits = FALSE])), {"schema", "contract"}),
     But(Plain, Opens({1}, Markdown), {"schema", "contract"}),
     But(Plain, Opens({1}, JsonOf([Fitting EXCEPT !.extra = TRUE])), {"contract"}),
     But(Plain, Opens({4}, JsonOf([Fitting EXCEPT !.fits = FALSE])), {"contract"}),
     ButCard(Plain, [PlainCard EXCEPT !.offers = FALSE], {"offers-402"}),
     ButAt(Plain, "agentConfig", JsonOf([complete |-> FALSE]), {"aap"}),
     ButAt(Plain, "agentConfig", Html, {"aap"})}

-----------------------------------------------------------------------------
(* A site with a protected MCP endpoint, delegated to an authorization server. *)

McpAt(at) == [transport |-> "http", at |-> at, tools |-> TRUE, command |-> FALSE]
OauthIds == {"protectedResource", "asMetadata", "pkce", "dcr", "resourceIndicators", "wwwAuthenticate"}
Agency == [complete |-> TRUE, idjag |-> TRUE, identity |-> Auth]
AsDoc == [complete |-> TRUE, pkce |-> TRUE, register |-> TRUE, agentAuth |-> Agency]
Metered402 == [NotFound EXCEPT !.st = 402, !.body = "json", !.ct = "json", !.doc = [typed |-> TRUE]]
Protection == [resource |-> Self, servers |-> <<Auth>>]
GuardedReplies ==
    Says([mcp |-> Challenge("metadata"), protected |-> JsonOf(Protection), as |-> JsonOf(AsDoc),
          identity |-> Status(401), agents |-> JsonOf([PlainCard EXCEPT !.mcp = McpAt(Self)])])
Guarded == [But(Plain, GuardedReplies, {}) EXCEPT !.claims = OauthIds \cup {"authmd"}]
Free(base) == [base EXCEPT !.claims = @ \ (OauthIds \cup {"authmd"})]
NoAuthmd(base) == [base EXCEPT !.claims = @ \ {"authmd"}]

GuardedSites ==
    {Guarded,
     NoAuthmd(ButAt(Guarded, "protected", NotFound, OauthIds \ {"wwwAuthenticate"})),
     NoAuthmd(ButAt(Guarded, "protected", JsonOf([Protection EXCEPT !.servers = <<>>]),
              {"protectedResource", "asMetadata", "pkce", "dcr"})),
     NoAuthmd(ButAt(Guarded, "protected", JsonOf([Protection EXCEPT !.servers = <<Private>>]),
              {"asMetadata", "pkce", "dcr"})),
     ButAt(Guarded, "protected", JsonOf([Protection EXCEPT !.resource = Elsewhere]),
           {"resourceIndicators"}),
     ButAt(ButAt(Guarded, "as", NotFound, {}), "oidc", JsonOf(AsDoc), {}),
     NoAuthmd(ButAt(Guarded, "as", NotFound, {"asMetadata", "pkce", "dcr"})),
     NoAuthmd(But(Guarded, Role("as") :> Via(JsonOf(AsDoc), <<Self>>), {"asMetadata", "pkce", "dcr"})),
     \* Not served with a 2xx: the observation reads it, the judge does not.
     NoAuthmd(ButAt(Guarded, "as", [JsonOf(AsDoc) EXCEPT !.st = 500], {"asMetadata", "pkce", "dcr"})),
     ButAt(Guarded, "as", JsonOf([AsDoc EXCEPT !.complete = FALSE]), {"asMetadata"}),
     ButAt(Guarded, "as", JsonOf([AsDoc EXCEPT !.pkce = FALSE]), {"pkce"}),
     \* The first of two documents counts.
     ButAt(ButAt(Guarded, "as", JsonOf([AsDoc EXCEPT !.pkce = FALSE]), {}), "oidc", JsonOf(AsDoc),
           {"pkce"}),
     ButAt(Guarded, "as", JsonOf([AsDoc EXCEPT !.register = FALSE]), {"dcr"}),
     ButAt(Guarded, "as", JsonOf([AsDoc EXCEPT !.agentAuth = Junk]), {"authmd"}),
     NoAuthmd(ButAt(Guarded, "as", JsonOf([AsDoc EXCEPT !.agentAuth = None]), {})),
     ButAt(Guarded, "as", JsonOf([AsDoc EXCEPT !.agentAuth.idjag = FALSE]), {"authmd"}),
     ButAt(Guarded, "as", JsonOf([AsDoc EXCEPT !.agentAuth.identity = Elsewhere]), {"authmd"}),
     ButAt(Guarded, "identity", NotFound, {"authmd"}),
     ButAt(Guarded, "identity", Status(500), {"authmd"}),
     ButAt(Guarded, "mcp", Challenge("bearer"), {"wwwAuthenticate"}),
     ButAt(Guarded, "mcp", [Status(405) EXCEPT !.www = "metadata"], {"wwwAuthenticate"}),
     \* A server that answers to POST only is seen to be keyless by that.
     Free(ButAt(ButAt(Guarded, "mcp", Status(405), {}), "mcpInit",
                JsonOf([error |-> FALSE, version |-> TRUE]), {})),
     ButAt(ButAt(Guarded, "mcp", Status(405), {}), "mcpInit",
           JsonOf([error |-> TRUE, version |-> TRUE]), {"wwwAuthenticate"}),
     ButAt(ButAt(Guarded, "mcp", Status(405), {}), "mcpInit", Challenge("metadata"), {"wwwAuthenticate"}),
     But(Guarded, Role("mcpInit") :> Via(JsonOf([error |-> FALSE, version |-> TRUE]), <<Self>>)
                  @@ Role("mcp") :> Reached(Status(405)), {"wwwAuthenticate"}),
     Free(ButAt(Guarded, "mcp", JsonOf(Junk), {})),
     NoAuthmd(ButCard(Guarded, [PlainCard EXCEPT !.mcp = McpAt(Elsewhere)], OauthIds)),
     NoAuthmd(ButCard(Guarded, [PlainCard EXCEPT !.mcp = McpAt(None)], OauthIds))}

-----------------------------------------------------------------------------
(* A site with a manifest for the registry of MCP servers, and a widget.       *)

Manifest ==
    [complete |-> TRUE, name |-> "domain", domain |-> Owner,
     remotes |-> <<[transport |-> TRUE, at |-> Host]>>]
Tool == [name |-> TRUE, template |-> "ui", needs |-> FALSE, described |-> TRUE]
Alive == [error |-> FALSE, version |-> TRUE]
Called == [uri |-> "ui", structured |-> "s", data |-> "s", secret |-> FALSE, csp |-> "closed",
           hashes |-> {"h"}]
Widget == [refs |-> FALSE, scripts |-> {"h"}]
Inline == [uri |-> "ui", mime |-> "mcp-app", page |-> Widget, url |-> None]
Remotely == [uri |-> "ui", mime |-> "uri-list", page |-> None, url |-> Host]
Proof == Answered(200, "text", "text", [proof |-> TRUE])
NoProof == Answered(200, "text", "text", [proof |-> FALSE])
RegistryIds == {"serverJson", "remoteLive", "ownership"}
UiIds == {"uiLinkage", "uiSelfContained", "uiHygiene", "uiParity", "uiHostRender"}
Registered ==
    [But(Plain,
         Says([serverJson |-> JsonOf(Manifest), remoteInit |-> JsonOf(Alive),
               tools |-> JsonOf([tools |-> <<Tool>>, error |-> FALSE]), dns |-> Proof,
               registryAuth |-> Proof, presence |-> JsonOf([listed |-> TRUE]),
               call |-> JsonOf(Called), read |-> JsonOf(Remotely),
               external |-> Answered(200, "html", "html", Widget)]), {})
     EXCEPT !.claims = RegistryIds \cup UiIds]
Claiming(base, ids) == [base EXCEPT !.claims = ids]
ButManifest(doc, breaks) == ButAt(Registered, "serverJson", JsonOf(doc), breaks)
ButTool(tool, breaks) ==
    ButAt(Registered, "tools", JsonOf([tools |-> <<tool>>, error |-> FALSE]), breaks)
ButCall(doc, breaks) == ButAt(Registered, "call", JsonOf(doc), breaks)
Inlined == ButAt(Registered, "read", JsonOf(Inline), {})

RegisteredSites ==
    {Unreliable(Registered), Inlined,
     ButManifest([Manifest EXCEPT !.complete = FALSE], {"serverJson"}),
     Claiming(ButManifest([Manifest EXCEPT !.name = "invalid"], {"serverJson"}),
              {"serverJson", "remoteLive"}),
     Claiming(ButAt(Registered, "serverJson", JsonOf(Junk), {"serverJson"}), {"serverJson"}),
     Claiming(ButManifest([Manifest EXCEPT !.remotes = <<>>], {"serverJson"}),
              {"serverJson", "ownership"}),
     Claiming(ButManifest([Manifest EXCEPT !.remotes[1].at = Private], {"remoteLive"}), RegistryIds),
     Claiming(Registered, RegistryIds),
     Claiming(ButCard(Registered, [PlainCard EXCEPT !.serverJson = Elsewhere], {}), {}),
     Claiming(ButAt(Registered, "remoteInit", Status(500), {"remoteLive"}), RegistryIds),
     Claiming(ButAt(Registered, "remoteInit", Status(401), {}), RegistryIds),
     Claiming(But(Registered, Role("remoteInit") :> Via(JsonOf(Alive), <<Host>>), {"remoteLive"}),
              RegistryIds),
     Claiming(ButAt(Registered, "remoteInit", JsonOf([Alive EXCEPT !.error = TRUE]), {"remoteLive"}),
              RegistryIds),
     Claiming(ButAt(Registered, "tools", JsonOf([tools |-> <<>>, error |-> FALSE]), {"remoteLive"}),
              RegistryIds),
     Claiming(ButTool([Tool EXCEPT !.name = FALSE], {"remoteLive", "uiLinkage", "uiSelfContained"}),
              RegistryIds \cup (UiIds \ {"uiHygiene", "uiParity"})),
     Claiming(ButTool([Tool EXCEPT !.template = None], {}), RegistryIds),
     ButTool([Tool EXCEPT !.needs = TRUE], {"uiHostRender"}),
     ButTool([Tool EXCEPT !.described = FALSE], {"uiHostRender"}),
     Unreliable(But(Registered, Says([dns |-> NoProof, registryAuth |-> NoProof]), {"ownership"})),
     But(Registered, Role("dns") :> Reached(NoProof) @@ Role("registryAuth") :> Via(Proof, <<Self>>),
         {"ownership"}),
     ButAt(Registered, "dns", NoProof, {}), ButAt(Registered, "registryAuth", NotFound, {}),
     ButAt(ButManifest([Manifest EXCEPT !.name = "github", !.domain = None], {}),
           "presence", JsonOf([listed |-> FALSE]), {"ownership"}),
     ButManifest([Manifest EXCEPT !.name = "github", !.domain = None], {}),
     ButAt(Registered, "presence", NotFound, {}),
     ButCall([Called EXCEPT !.uri = None], {"uiLinkage"}),
     ButAt(Registered, "read", JsonOf([Remotely EXCEPT !.uri = "other"]),
           {"uiLinkage", "uiSelfContained"}),
     ButAt(Inlined, "read", JsonOf([Inline EXCEPT !.mime = "other"]), {"uiLinkage"}),
     Unreliable(ButAt(Inlined, "read", JsonOf([Inline EXCEPT !.page.refs = TRUE]), {"uiSelfContained"})),
     ButAt(Inlined, "read", JsonOf([Inline EXCEPT !.page.scripts = {"h", "g"}]), {"uiSelfContained"}),
     Claiming(ButAt(Registered, "read", JsonOf([Remotely EXCEPT !.url = Private]), {"uiLinkage"}),
              UiIds \ {"uiSelfContained"}),
     Claiming(ButAt(Registered, "read", JsonOf([Remotely EXCEPT !.url = Elsewhere]), {}),
              UiIds \ {"uiSelfContained"}),
     ButCall([Called EXCEPT !.csp = "open"], {"uiSelfContained"}),
     ButCall([Called EXCEPT !.secret = TRUE], {"uiHygiene"}),
     ButCall([Called EXCEPT !.data = None], {}),
     ButCall([Called EXCEPT !.data = "t"], {"uiParity"}),
     ButCall([Called EXCEPT !.structured = None, !.data = None], {"uiParity"})}

-----------------------------------------------------------------------------
(* A site with a stream of UI messages and a GS1 digital link.                 *)

Part == [kind |-> "part", shaped |-> TRUE, secret |-> FALSE, output |-> "o"]
Other == [Part EXCEPT !.output = None]
Done == [Other EXCEPT !.kind = "done"]
Broken == [Other EXCEPT !.kind = "broken"]
Streamed(frames) == Answered(200, "event-stream-v1", "text", frames)
Link == [malformed |-> FALSE, at |-> Self, root |-> Self]
Gs1 == [valid |-> TRUE, root |-> Self]
StreamCard == [PlainCard EXCEPT !.stream = [at |-> Self, twin |-> Self], !.digitalLink = Link]
StreamIds == {"streamTransport", "streamFraming", "streamShapes", "streamHygiene", "streamParity"}
Streaming ==
    [But(Plain,
         Says([agents |-> JsonOf(StreamCard), stream |-> Streamed(<<Other, Part, Done>>),
               twin |-> JsonOf([value |-> "o"]), gs1 |-> JsonOf(Gs1)]), {})
     EXCEPT !.claims = StreamIds \cup {"digitalLink"}]
ButStream(ev, breaks, claims) == Claiming(ButAt(Streaming, "stream", ev, breaks), claims)
ButLink(link, breaks) == ButCard(Streaming, [StreamCard EXCEPT !.digitalLink = link], breaks)
ButGs1(ev, breaks) == ButAt(Streaming, "gs1", ev, breaks)

StreamingSites ==
    {Unreliable(Streaming),
     ButStream([Streamed(<<Part, Done>>) EXCEPT !.ct = "text"], {"streamTransport"}, StreamIds),
     ButStream(NotFound, {"streamTransport"}, {"streamTransport"}),
     ButStream(Streamed(<<>>), {"streamFraming"}, {"streamTransport", "streamFraming"}),
     ButStream(Streamed(<<Part>>), {"streamFraming"}, StreamIds),
     ButStream(Streamed(<<Part, Done, Part>>), {"streamFraming"}, StreamIds),
     ButStream(Streamed(<<Part, Done, Done>>), {"streamFraming"}, StreamIds),
     ButStream(Streamed(<<Part, Broken, Done>>), {"streamFraming"}, StreamIds),
     ButStream(Streamed(<<[Part EXCEPT !.shaped = FALSE], Done>>), {"streamShapes"}, StreamIds),
     ButStream(Streamed(<<Part, [Part EXCEPT !.secret = TRUE], Done>>), {"streamHygiene"}, StreamIds),
     ButAt(Streaming, "twin", JsonOf([value |-> "x"]), {"streamParity"}),
     ButStream(Streamed(<<Part, [Part EXCEPT !.output = "x"], Done>>), {"streamParity"}, StreamIds),
     Claiming(ButAt(Streaming, "twin", NotFound, {}), {"streamFraming"}),
     Claiming(ButCard(Streaming, [StreamCard EXCEPT !.stream.twin = Elsewhere], {}), {"streamFraming"}),
     ButLink([Link EXCEPT !.malformed = TRUE], {"digitalLink"}),
     ButLink([Link EXCEPT !.at = Elsewhere], {"digitalLink"}),
     ButLink([Link EXCEPT !.root = None], {}), ButLink([Link EXCEPT !.root = Elsewhere], {"digitalLink"}),
     ButGs1(NotFound, {"digitalLink"}), ButGs1([JsonOf(Gs1) EXCEPT !.ct = "text"], {"digitalLink"}),
     ButGs1(JsonOf([Gs1 EXCEPT !.valid = FALSE]), {"digitalLink"}),
     ButGs1(JsonOf([Gs1 EXCEPT !.root = Elsewhere]), {"digitalLink"})}

-----------------------------------------------------------------------------
(* A site that claims the agent-first contract, with a metered boundary.       *)

Channels == {"keyless", "pricing", "knownEmpty", "knownForbidden", "overCeiling"}
Try(url, path) == [url |-> url, path |-> path, at |-> Self, method |-> "GET", param |-> TRUE]
Probes ==
    [keyless |-> <<Try("u1", 1)>>, pricing |-> <<Try("u2", 2)>>,
     knownEmpty |-> <<Try("u3", 3), Try("u4", 3)>>,
     knownForbidden |-> <<Try("u5", 4), Try("u6", 4)>>, overCeiling |-> <<Try("u7", 1)>>]
AgenticCard ==
    [PlainCard EXCEPT !.probes = Probes, !.boundary = [method |-> "GET", at |-> Self]]
Agreed == Siblings \cup {"OpenAPI"}
AxpIds == {"legible", "connegAccept", "clientClass", "alternates", "forcedFace", "linked",
           "linkedAgain", "manifest"}
Pricing(model) == JsonOf([model |-> model])
Agentic ==
    [But(Plain,
         Says([rootAgent |-> Linking(JsonOf(Junk), {"html", "md"}),
               rootBrowser |-> Linking(Html, {"json", "md"}), rootJson |-> JsonOf(Junk),
               rootMarkdown |-> Linking(Markdown, {"html", "json"}), rootBrowserNav |-> Html,
               rootAgentUa |-> Markdown, llms |-> LlmsOf(Agreed), agents |-> JsonOf(AgenticCard),
               pricing |-> Pricing("metered"), offer |-> Metered402])
         @@ FaceRole("html") :> Reached(Html) @@ FaceRole("json") :> Reached(JsonOf(Junk))
         @@ FaceRole("md") :> Reached(Markdown), {})
     EXCEPT !.claims = AxpIds]
ButProbes(probes, breaks) == ButCard(Agentic, [AgenticCard EXCEPT !.probes = probes], breaks)
ButFace(face, reply, breaks) == But(Agentic, FaceRole(face) :> reply, breaks)
Unmetered == ButAt(Agentic, "pricing", Pricing("free"), {})

AgenticSites ==
    {Agentic,
     ButAt(Agentic, "rootAgent", Html,
           {"content-negotiation", "legible", "clientClass", "alternates"}),
     ButAt(Agentic, "rootAgent", Linking(Markdown, {"html", "json"}), {"clientClass"}),
     ButAt(Agentic, "rootJson", Html, {"content-negotiation", "legible", "connegAccept"}),
     ButAt(Agentic, "rootMarkdown", Linking(JsonOf(Junk), {"html", "md"}), {"connegAccept"}),
     ButAt(Agentic, "rootBrowserNav", Markdown, {"clientClass"}),
     ButAt(Agentic, "rootAgentUa", Html, {"legible", "clientClass"}),
     ButAt(Agentic, "rootBrowser", Linking(Html, {"json"}), {"alternates"}),
     ButFace("json", Reached(Html), {"forcedFace"}),
     ButFace("md", Via(Markdown, <<Elsewhere>>), {"forcedFace"}),
     But(Agentic, Says([rootAgent |-> [Linking(JsonOf(Junk), {"html", "md"}) EXCEPT !.alts["md"] = Private],
                        rootBrowser |-> Linking(Html, {"json", "md"})]), {"forcedFace"}),
     But(Agentic, Opens({1}, Html), {"legible", "schema", "contract"}),
     ButCard(Agentic, [AgenticCard EXCEPT !.llms = "none"], {"linked", "linkedAgain"}),
     ButCard(Agentic, [AgenticCard EXCEPT !.llms = "links"], {"linkedAgain"}),
     ButCard(Agentic, [AgenticCard EXCEPT !.openapi = None], {"linked", "linkedAgain"}),
     ButAt(Agentic, "llms", LlmsOf({"agents.json", "icp.json"}), {"linked", "linkedAgain"}),
     ButAt(Agentic, "llms", LlmsOf({"agents.json", "icp.json", "OpenAPI"}), {"linkedAgain"}),
     ButProbes([Probes EXCEPT !.knownEmpty = <<Try("u3", 3)>>], {"manifest"}),
     ButProbes([Probes EXCEPT !.knownEmpty = <<Try("u3", 3), Try("u3", 3)>>], {"manifest"}),
     ButProbes([Probes EXCEPT !.knownEmpty = <<Try("u3", 3), Try("u5", 4)>>], {"manifest"}),
     ButProbes([Probes EXCEPT !.keyless[1].path = 9], {"manifest"}),
     ButProbes([Probes EXCEPT !.keyless[1].at = Elsewhere], {"manifest"}),
     ButProbes([Probes EXCEPT !.overCeiling[1].param = FALSE], {"manifest"}),
     ButProbes([Probes EXCEPT !.overCeiling = <<>>], {"manifest"}),
     ButAt(ButProbes([Probes EXCEPT !.overCeiling = <<>>], {}), "pricing", Pricing("free"), {}),
     ButCard(Agentic, [AgenticCard EXCEPT !.boundary = None], {"manifest"}),
     ButCard(Agentic, [AgenticCard EXCEPT !.boundary.method = "POST"], {"manifest", "offers-402"}),
     ButCard(Agentic, [AgenticCard EXCEPT !.boundary.at = Elsewhere], {"manifest", "offers-402"}),
     ButAt(Agentic, "offer", JsonOf([typed |-> TRUE]), {"offers-402"}),
     ButAt(Agentic, "offer", [Metered402 EXCEPT !.doc.typed = FALSE], {"offers-402"}),
     \* A free site that offers nothing needs no boundary.
     ButCard(Unmetered, [AgenticCard EXCEPT !.offers = FALSE, !.boundary = None], {}),
     ButAt(ButCard(Agentic, [AgenticCard EXCEPT !.offers = FALSE, !.boundary = None], {}),
           "pricing", NotFound, {"offers-402"})}

-----------------------------------------------------------------------------
(* A site that publishes a test suite, in either dialect.                      *)

RowOf(id, needs, sets) ==
    [id |-> id, kind |-> "endpoint", method |-> "GET", path |-> 1, needs |-> needs, sets |-> sets,
     status |-> 200, schema |-> TRUE, tags |-> {}]
\* The second row follows what the first one captured; the third uses a variable.
TheRows == <<RowOf("a", None, "next"), RowOf("b", "next", None), RowOf("c", "env", None)>>
Ops == {<<"openapi", p>> : p \in 1 .. 4}
Mcp == <<"mcp", "tool">>
Suite(dialect, digest) ==
    [digest |-> digest, large |-> FALSE, dialect |-> dialect,
     environments |-> [public |-> [env |-> 1]], rows |-> TheRows,
     coverage |-> [id \in Ops \cup {Mcp} |-> {"a", "b"}]]
Result(name, tags, passed) == [name |-> name, tags |-> tags, passed |-> passed]
Tests == <<Result("t", {}, TRUE), Result("u", {}, TRUE)>>
RunOutcome(outcome, results) == [outcome |-> outcome, results |-> results]
TheClaim(runner) ==
    [malformed |-> FALSE, runner |-> runner, package |-> "none", digest |-> "d", at |-> Self,
     module |-> FALSE, export |-> "none", environment |-> "public"]
RowDoc == [fits |-> TRUE, value |-> 2]
SuiteSays(doc, outcome) ==
    Says([testSuite |-> JsonOf(doc), vitestRun |-> JsonOf(outcome)])
    @@ [r \in {Row("a"), Row("b"), Row("c")} |-> Reached(JsonOf(RowDoc))]
Suited(claim, doc, outcome) ==
    [But(Plain, SuiteSays(doc, outcome)
                @@ Says([agents |-> JsonOf([PlainCard EXCEPT !.suite = claim])]), {})
     EXCEPT !.claims = {"suite", "coverage"}]
Declarative == Suited(TheClaim("suite@1"), Suite("suite@1", "d"), RunOutcome("ran", <<>>))
Executable == Suited(TheClaim("vitest"), Suite("vitest", "d"), RunOutcome("ran", Tests))
\* A module binds its tests to what it covers by their names.
Tagged == <<Result("t", Ops \cup {Mcp}, TRUE)>>
ModuleClaim == [TheClaim("vitest") EXCEPT !.module = TRUE, !.at = Clear]
Modular(claim, results) == Suited(claim, Suite("none", "d"), RunOutcome("ran", results))
Both == {"suite", "coverage"}
ButClaim(base, claim) == ButCard(base, [PlainCard EXCEPT !.suite = claim], Both)
ButSuite(base, doc, breaks) == ButAt(base, "testSuite", JsonOf(doc), breaks)
ButRow(base, id, reply, breaks) == But(base, Row(id) :> reply, breaks)
\* A card that leaves the doors to the contract
Unlisted == ButCard(Declarative, [PlainCard EXCEPT !.suite = TheClaim("suite@1"), !.endpoints = {}], {})
DeclDoc == Suite("suite@1", "d")
ExecDoc == Suite("vitest", "d")

SuiteSites ==
    {Unreliable(Declarative), Unreliable(Executable),
     Modular(ModuleClaim, Tagged), Modular([ModuleClaim EXCEPT !.at = None, !.package = "exact"], Tagged),
     \* Refused by the card
     ButClaim(Declarative, [TheClaim("suite@1") EXCEPT !.malformed = TRUE]),
     ButClaim(Declarative, [TheClaim("suite@1") EXCEPT !.digest = Junk]),
     ButClaim(Declarative, [TheClaim("suite@1") EXCEPT !.at = Elsewhere]),
     ButClaim(Declarative, [TheClaim("suite@1") EXCEPT !.at = None, !.package = "exact"]),
     ButClaim(Declarative, TheClaim("other")),
     ButClaim(Executable, [TheClaim("vitest") EXCEPT !.at = Private]),
     ButClaim(Executable, [TheClaim("vitest") EXCEPT !.package = "loose"]),
     ButClaim(Executable, [TheClaim("vitest") EXCEPT !.export = "name"]),
     ButClaim(Executable, [TheClaim("vitest") EXCEPT !.digest = None]),
     ButClaim(Modular(ModuleClaim, Tagged), [ModuleClaim EXCEPT !.environment = "other"]),
     \* Refused by the document
     ButSuite(Declarative, [DeclDoc EXCEPT !.digest = "e"], Both),
     ButSuite(Executable, [ExecDoc EXCEPT !.digest = "e"], Both),
     ButSuite(Executable, [ExecDoc EXCEPT !.large = TRUE], Both),
     ButSuite(Declarative, ExecDoc, Both),
     ButSuite(Declarative, [DeclDoc EXCEPT !.environments = [other |-> <<>>]], Both),
     ButSuite(Declarative, [DeclDoc EXCEPT !.rows = <<>>], Both),
     ButSuite(Declarative, [DeclDoc EXCEPT !.rows = @ \o <<RowOf("d", None, None)>>], Both),
     ButSuite(Executable, [ExecDoc EXCEPT !.rows[2].kind = "check"], Both),
     ButSuite(Declarative, [DeclDoc EXCEPT !.rows[2].method = "POST"], Both),
     ButAt(Declarative, "testSuite", NotFound, Both),
     But(Executable, Role("testSuite") :> Via(JsonOf(ExecDoc), <<Elsewhere>>), Both),
     \* A row or a test that fails
     ButRow(Declarative, "c", Reached(NotFound), {"suite"}),
     ButRow(Declarative, "a", Reached(JsonOf([RowDoc EXCEPT !.fits = FALSE])), Both),
     ButRow(Executable, "a", Reached(JsonOf([RowDoc EXCEPT !.value = None])), {"suite"}),
     ButRow(Declarative, "a", Reached(JsonOf([RowDoc EXCEPT !.value = 99])), {"suite"}),
     ButRow(Executable, "c", Via(JsonOf(RowDoc), <<Elsewhere>>), {"suite"}),
     ButSuite(Executable, [ExecDoc EXCEPT !.rows = <<>>, !.coverage = [id \in Ops \cup {Mcp} |-> {"u"}]], {}),
     ButAt(Executable, "vitestRun", JsonOf(RunOutcome("unavailable", <<>>)), Both),
     ButAt(Executable, "vitestRun", JsonOf(RunOutcome("failed", <<>>)), Both),
     ButAt(Executable, "vitestRun", JsonOf(RunOutcome("ran", <<Result("t", {}, FALSE)>>)), {"suite"}),
     ButAt(Executable, "vitestRun", JsonOf(RunOutcome("ran", <<Result("a", {}, FALSE), Result("b", {}, FALSE)>>)), Both),
     \* What is covered
     ButSuite(Declarative, [DeclDoc EXCEPT !.coverage = None], {"coverage"}),
     ButSuite(Declarative, [DeclDoc EXCEPT !.coverage = Junk], {"coverage"}),
     ButSuite(Declarative, [DeclDoc EXCEPT !.coverage = [id \in Ops |-> {"a"}]], {"coverage"}),
     Unreliable(ButSuite(Unlisted, [DeclDoc EXCEPT !.coverage = [id \in {Mcp} |-> {"a"}]], {"coverage"})),
     ButSuite(Declarative, [DeclDoc EXCEPT !.coverage = [id \in Ops \cup {Mcp} |-> {}]], {"coverage"}),
     ButSuite(Declarative, [DeclDoc EXCEPT !.coverage = [id \in Ops \cup {Mcp} |-> {"a", "z"}]], {"coverage"}),
     ButSuite(Declarative, [DeclDoc EXCEPT !.coverage = [id \in Ops \cup {Mcp, <<"openapi", 9>>} |-> {"a"}]], {"coverage"}),
     ButSuite(Declarative, [DeclDoc EXCEPT !.rows[1].tags = {<<"openapi", 9>>}], {"coverage"}),
     ButSuite(Declarative, [DeclDoc EXCEPT !.coverage = None, !.rows[1].tags = Ops, !.rows[2].tags = {Mcp}], {}),
     ButCard(Declarative, [PlainCard EXCEPT !.suite = TheClaim("suite@1"), !.endpoints = {Door(1, "keyless"), Door(9, "oauth")}], {"coverage"}),
     ButCard(Declarative, [PlainCard EXCEPT !.suite = TheClaim("suite@1"), !.endpoints = {Door(1, "keyless"), Door(98, "oauth")}], {}),
     ButCard(Declarative, [StreamCard EXCEPT !.suite = TheClaim("suite@1"), !.digitalLink = None, !.stream.at = Elsewhere], {"coverage"}),
     [Modular(ModuleClaim, Tests) EXCEPT !.breaks = {"coverage"}]}

-----------------------------------------------------------------------------
(* Sites with more than a run can ask, and with bodies that are cut.           *)

\* Thirteen doors and one path that leads astray; of the doors only the last of a walk opens.
Locked == 1 .. 11
ManyDoors ==
    But(Agentic, Opens(Locked, Challenge("none")) @@ Opens({12, 13}, JsonOf(Fitting))
                 @@ Says([openapi |-> JsonOf([Spec3 EXCEPT !.doors = (1 .. 13) \cup {99},
                                                            !.paths = 1 .. 13])]), {})
Closed == But(ManyDoors, Opens(1 .. 13, Challenge("none")), {"keyless-flow"})
\* The same site, with the protected MCP endpoint of Guarded
Crowded ==
    [But(ManyDoors,
         [GuardedReplies EXCEPT ![Role("agents")] = Reached(JsonOf([AgenticCard EXCEPT !.mcp = McpAt(Self)]))],
         {}) EXCEPT !.claims = {}]
\* A page larger than what is read
CutSites ==
    {But(Plain, Role("rootBrowser") :> OfSize(Html, "large"), {})}

TheSites ==
    {Unreliable(s) : s \in PlainSites \cup GuardedSites \cup AgenticSites}
    \cup RegisteredSites \cup StreamingSites \cup SuiteSites
    \cup CutSites \cup {Unreliable(ManyDoors), Closed, Crowded}
=============================================================================
