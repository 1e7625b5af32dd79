------------------------------- MODULE Surfaces --------------------------------
(***************************************************************************)
(* What the verifier of an agent-facing site reads: the exchanges that an  *)
(* observer recorded, by role, and the documents in them (discovery.ts,    *)
(* the first half, and types.ts).  Both the observation (Discovery) and    *)
(* the judgement (Judge) read the bundle through these operators.          *)
(*                                                                         *)
(* A URL is the origin that it leads to; a path of the target is a number. *)
(* Evidence is one exchange: its status, 0 when there was no answer, the   *)
(* media type, what the body is, and the document in it.  A document is    *)
(* what its parser keeps: None when the body is no JSON at all, Junk when  *)
(* it is JSON and not an object.                                           *)
(***************************************************************************)
EXTENDS Integers, SequencesExt

CONSTANTS
    None, Junk,
    Self,          \* the origin of the target
    PrivateOrigins, CleartextOrigins,
    Doh, Registry, \* the DNS resolver and the official registry of MCP servers
    Astray         \* paths that, put behind the origin, lead away from it

Unsafe == PrivateOrigins \cup CleartextOrigins

ASSUME SurfacesAssumption ==
    /\ Self \notin Unsafe /\ Doh \notin Unsafe /\ Registry \notin Unsafe
    /\ None # Junk /\ {None, Junk} \cap (Unsafe \cup {Self, Doh, Registry}) = {}

Faces == {"html", "json", "md"}

-----------------------------------------------------------------------------
(* URLs and roles.                                                           *)

\* isPubliclyRoutableSameOrigin, isPublicHttpsOffOriginAllowed
SameOrigin(url, origin) == url = origin /\ url \notin PrivateOrigins
Delegable(url) == url # None /\ url \notin Unsafe
Local(url) == SameOrigin(url, Self)

\* A role is a name and, for a door, its path.
Role(name) == <<name, 0>>
FaceRole(face) == <<"face", face>>
Keyless(path) == <<"keyless", path>>
Contract(path) == <<"contract", path>>
TypedAgent(path) == <<"typedAgent", path>>
TypedBrowser(path) == <<"typedBrowser", path>>
Row(id) == <<"row", id>>

-----------------------------------------------------------------------------
(* The bundle: the first exchange that was recorded under each role.         *)

NoAlternates == [face \in Faces |-> None]
NoAnswer ==
    [st |-> 0, refused |-> FALSE, ct |-> "none", body |-> "none", doc |-> None,
     alts |-> NoAlternates, link |-> FALSE, www |-> "none", at |-> None]

Find(b, role) == IF role \in DOMAIN b THEN b[role] ELSE NoAnswer
Ev(b, name) == Find(b, Role(name))

Answered2xx(ev) == ev.st \in 200 .. 299
\* An empty body is a body.
HasBody(ev) == Answered2xx(ev) /\ ev.body # "none"
HasText(ev) == ev.body \in {"text", "json", "html"}
Ok(b, name) == Answered2xx(Ev(b, name))

IsObject(doc) == doc # None /\ doc # Junk
Object(doc, otherwise) == IF IsObject(doc) THEN doc ELSE otherwise
\* parseJsonBody, of any answer whatever its status
Json(ev) == IF ev.st # 0 /\ ev.body = "json" THEN ev.doc ELSE None
Doc(b, name) == Json(Ev(b, name))
\* What is read out of a body as text, whatever its status and whether it is text, JSON or HTML
Text(b, name) == IF HasText(Ev(b, name)) THEN Ev(b, name).doc ELSE None

-----------------------------------------------------------------------------
(* The capability card.                                                      *)

\* What parseAgentsJson returns of no document: nothing is claimed.
NoCard ==
    [name |-> FALSE, endpoints |-> {}, mcp |-> None, serverJson |-> None, stream |-> None,
     digitalLink |-> None, suite |-> None, offers |-> FALSE, boundary |-> None,
     probes |-> None, attestation |-> FALSE, openapi |-> None, llms |-> "none"]
Card(b) == Object(Doc(b, "agents"), NoCard)

\* A 402 boundary that may be probed: monetization.probe, GET and on the origin
OfferProbe(card) ==
    card.boundary # None /\ card.boundary.method = "GET" /\ Local(card.boundary.at)

McpUrl(card) == IF card.mcp = None THEN None ELSE card.mcp.at

\* The first pricing probe of the manifest, where one is declared
PricingEntry(card) ==
    IF card.probes = None \/ card.probes.pricing = <<>> THEN None ELSE card.probes.pricing[1]

\* The contract: valid, the paths that a GET can try without a key or a parameter, and what
\* each of them may answer, by status: the media type and whether a schema is declared.
NoContract ==
    [valid |-> FALSE, doors |-> {}, paths |-> {}, responses |-> <<>>]
Openapi(b) ==
    IF IsObject(Doc(b, "openapi")) /\ Doc(b, "openapi").valid
    THEN Doc(b, "openapi") ELSE NoContract

\* extractResponseSchema: the doors whose answer 200 is JSON of a schema
Sampled(response) == response.ct = "json" /\ response.schema
Schemas(b) ==
    {p \in Openapi(b).doors :
        200 \in DOMAIN Openapi(b).responses[p] /\ Sampled(Openapi(b).responses[p][200])}

Tries(e) == e.method = "GET" /\ e.auth \in {"unstated", "keyless"} /\ e.at = Self
Candidates(b) ==
    Openapi(b).doors \cup {e.path : e \in {x \in Card(b).endpoints : Tries(x)}}
Hinted(b) == {e.path : e \in {x \in Card(b).endpoints : Tries(x) /\ x.auth = "keyless"}}

\* faceAlternatesOf the three roots, the first that names a face
Advertised(b, face) ==
    LET names == SelectSeq(<<"rootAgent", "rootBrowser", "rootMarkdown">>,
                           LAMBDA r : Ev(b, r).alts[face] # None)
    IN  IF names = <<>> THEN None ELSE Ev(b, names[1]).alts[face]

-----------------------------------------------------------------------------
(* The authorization server and the registry manifest.                       *)

AuthServer(b) ==
    IF IsObject(Doc(b, "protected")) /\ Doc(b, "protected").servers # <<>>
    THEN Doc(b, "protected").servers[1] ELSE None

\* A slip: OpenID's metadata is not looked at.
AsEvidenceOnly(b) == IF Ok(b, "as") THEN Ev(b, "as") ELSE NoAnswer
\* The evidence of the metadata: RFC 8414's, or OpenID's where that one does not answer
AsEvidence(b) == IF Ok(b, "as") THEN Ev(b, "as")
                 ELSE IF Ok(b, "oidc") THEN Ev(b, "oidc") ELSE NoAnswer
AsResolved(b) == Ok(b, "as") \/ Ok(b, "oidc")
\* scrubAsMetadataEvidence: what is not an object is not kept.
Metadata(ev) == Object(Json(ev), None)
AsMeta(b) == Metadata(AsEvidence(b))

\* parseAgentAuth
AgentAuth(meta) == IF meta = None THEN None ELSE meta.agentAuth
\* The observation reads RFC 8414's answer, whatever its status, when neither answers 2xx.
ObservedAgentAuth(b) == AgentAuth(Metadata(IF AsResolved(b) THEN AsEvidence(b) ELSE Ev(b, "as")))

\* parseServerJson
Server(b) == Object(Doc(b, "serverJson"), None)
\* The first remote with a URL
ServerRemote(b) ==
    IF Server(b) = None THEN None
    ELSE LET urls == SelectSeq(Server(b).remotes, LAMBDA r : r.at # None)
         IN  IF urls = <<>> THEN None ELSE urls[1].at
\* parseReverseDnsName, isGithubNamespace and namespaceDomain: the domain of a name
NameIsValid(server) == server.name \in {"github", "domain"}
Domain(b) ==
    IF Server(b) # None /\ Server(b).name = "domain" THEN Server(b).domain ELSE None

-----------------------------------------------------------------------------
(* The widget that an MCP tool declares (MCP-UI).                            *)

\* The remote whose tools are read: the registry's, else the card's own
UiRemote(b) ==
    CASE Delegable(ServerRemote(b)) -> ServerRemote(b)
      [] ~Delegable(ServerRemote(b)) /\ Local(McpUrl(Card(b))) -> McpUrl(Card(b))
      [] OTHER -> None

\* parseJsonRpcMessage: any object, whatever the status
Message(b, name) == Object(Doc(b, name), None)
Tools(b) == IF Message(b, "tools") = None THEN <<>> ELSE Message(b, "tools").tools
\* The first tool with a ui:// template
FirstUi(tools) ==
    LET i == SelectInSeq(tools, LAMBDA t : t.template # None)
    IN  IF i = 0 THEN None ELSE tools[i]
UiTool(b) == FirstUi(Tools(b))

CallResult(b) == Message(b, "call")
LinkedUri(b) == IF CallResult(b) = None THEN None ELSE CallResult(b).uri
WantedUri(b) == IF LinkedUri(b) # None THEN LinkedUri(b)
                ELSE IF UiTool(b) = None THEN None ELSE UiTool(b).template
\* A slip: whatever content was read
ResourceAny(b) == Message(b, "read")
\* The content of that URI, never that of another
ContentOf(read, uri) == IF uri # None /\ read # None /\ read.uri = uri THEN read ELSE None
Resource(b) == ContentOf(Message(b, "read"), WantedUri(b))
ExternalUrl(b) == IF Resource(b) = None \/ Resource(b).mime # "uri-list" THEN None
                  ELSE Resource(b).url
=============================================================================
