------------------------------- MODULE SuiteFace -------------------------------
(***************************************************************************)
(* The test suite that a card publishes (test-suite.ts): the gates before  *)
(* it is fetched and before it is run, in two dialects, what its rows and  *)
(* its executable tests say, and the two verdicts that are read off its    *)
(* one run (checks.ts: judgeVitestPublishedSuite, the suite@1 judge and    *)
(* judgeCapabilityCoverage).  Discovery runs it.                           *)
(***************************************************************************)
EXTENDS Surfaces

CONSTANTS
    NpmHost,    \* serves a package that is named without a URL
    MaxRows,    \* MAX_SUITE_REQUIREMENTS
    ExemptPaths \* COVERAGE_EXEMPT_PATHNAMES

Claim(b) == Card(b).suite
IsVitest(claim) == claim.runner = "vitest"
\* A package names a module; a URL does by its ending.
IsModule(claim) == claim.package # "none" \/ claim.module
Address(claim) == IF IsVitest(claim) /\ claim.at = None /\ claim.package # "none"
                  THEN NpmHost ELSE claim.at

-----------------------------------------------------------------------------
(* The gates.                                                                *)

Pinned(claim) == claim.digest \notin {None, Junk}
\* gateTestSuiteCard: the document is on the origin of its card.
SuiteCardFits(claim) ==
    /\ ~claim.malformed /\ claim.runner = "suite@1" /\ claim.package = "none"
    /\ Pinned(claim) /\ Local(claim.at)
\* gateVitestSuiteCard: the artifact may be anywhere above the network floor, in cleartext
\* too; only the digest counts.
VitestCardFits(claim) ==
    /\ Pinned(claim) /\ claim.package # "loose"
    /\ Address(claim) \notin {None, Junk} \cup PrivateOrigins
    /\ IF IsModule(claim) THEN claim.environment = "public" /\ claim.export # "ill"
                          ELSE claim.export = "none"
CardFits(claim) == IF IsVitest(claim) THEN VitestCardFits(claim) ELSE SuiteCardFits(claim)

Runnable(row) == row.kind = "endpoint" /\ row.method \in {"GET", "HEAD"}
\* What the document itself must say: an artifact that is no module names the environment
\* and has rows that can be sent.
DocumentSpeaks(claim, doc) ==
    /\ IsVitest(claim) => ~doc.large
    /\ ~(IsVitest(claim) /\ IsModule(claim)) =>
          /\ doc.dialect = claim.runner /\ claim.environment \in DOMAIN doc.environments
          /\ \A i \in DOMAIN doc.rows : Runnable(doc.rows[i])
          /\ ~IsVitest(claim) => Len(doc.rows) \in 1 .. MaxRows
\* A slip: the document is not held against the pin.
DocumentFitsUnpinned(claim, doc) == doc # None /\ DocumentSpeaks(claim, doc)
\* gateTestSuiteDocument, gateVitestSuiteDocument and gateVitestModuleArtifact
DocumentFits(claim, doc) ==
    doc # None /\ doc.digest = claim.digest /\ DocumentSpeaks(claim, doc)

Document(b) == IF HasBody(Ev(b, "testSuite")) THEN Ev(b, "testSuite").doc ELSE None
Published(b) == Claim(b) # None /\ CardFits(Claim(b))
Admitted(b) == Published(b) /\ DocumentFits(Claim(b), Document(b))
HasRows(b) == Admitted(b) /\ ~(IsVitest(Claim(b)) /\ IsModule(Claim(b)))
Rows(b) == IF HasRows(b) THEN Document(b).rows ELSE <<>>
Vars(b) == IF HasRows(b) THEN Document(b).environments[Claim(b).environment] ELSE <<>>

-----------------------------------------------------------------------------
(* The rows.  A binding leads to a path.                                     *)

\* resolveEndpoint: a row whose variable is unbound, or leads away, is not sent.
Resolves(row, bindings) ==
    /\ row.needs # None => row.needs \in DOMAIN bindings
    /\ (IF row.needs = None THEN row.path ELSE bindings[row.needs]) \notin Astray
\* judgeExpect: without an answer nothing passes.
RowPasses(row, ev) ==
    /\ ev.st # 0 /\ ev.st = row.status
    /\ row.schema => IsObject(Json(ev)) /\ Json(ev).fits
\* captureInto, after a row that passes
Captured(row, ev, bindings) ==
    IF row.sets # None /\ RowPasses(row, ev) /\ IsObject(Json(ev)) /\ Json(ev).value # None
    THEN row.sets :> Json(ev).value @@ bindings ELSE bindings

\* The judge resolves the rows again, from what was recorded.
JudgeRow(b, judged, row) ==
    LET ev == Find(b, Row(row.id))
        resolves == Resolves(row, judged.bindings)
    IN  [bindings |-> IF resolves THEN Captured(row, ev, judged.bindings) ELSE judged.bindings,
         results |-> Append(judged.results,
                        [name |-> row.id, tags |-> row.tags,
                         passed |-> resolves /\ RowPasses(row, ev)])]
\* judgeFoldedRows: what is captured and concluded after each number of rows
Judgement(b) ==
    LET judged[n \in 0 .. Len(Rows(b))] ==
            IF n = 0 THEN [bindings |-> Vars(b), results |-> <<>>]
                     ELSE JudgeRow(b, judged[n - 1], Rows(b)[n])
    IN  judged
RowResults(b) == Judgement(b)[Len(Rows(b))].results

-----------------------------------------------------------------------------
(* The verdicts.                                                             *)

\* The record of the executable tests, of the pinned bytes and to the end
RunRecord(b) == Ev(b, "vitestRun").doc
Ran(b) ==
    /\ RunRecord(b) # None /\ RunRecord(b).digest = Claim(b).digest
    /\ RunRecord(b).outcome = "ran"
Completed(b) == Admitted(b) /\ (IsVitest(Claim(b)) => Ran(b))
TestResults(b) == IF IsVitest(Claim(b)) THEN RunRecord(b).results ELSE <<>>
\* foldPublishedSuiteRun: the rows and then the tests
Results(b) == RowResults(b) \o TestResults(b)

\* No row has a problem and no test failed.
PublishedSuitePasses(b) ==
    Completed(b) /\ \A r \in ToSet(RowResults(b)) \cup ToSet(TestResults(b)) : r.passed

\* coverageDomainOf: each operation of the contract, each tool and each other interface
Operations(b) == IF IsObject(Doc(b, "openapi")) THEN Doc(b, "openapi").paths ELSE {}
Capabilities(b) ==
    LET card == Card(b)
    IN  {<<"openapi", p>> : p \in Operations(b)}
        \cup (CASE card.mcp = None -> {}
                [] card.mcp # None /\ card.mcp.tools -> {<<"mcp", "tool">>}
                [] OTHER -> {<<"interfaces", "mcp">>})
        \cup (IF card.stream # None THEN {<<"interfaces", "uiMessageStream">>} ELSE {})
        \cup (IF card.digitalLink # None THEN {<<"interfaces", "digitalLink">>} ELSE {})
\* Of an endpoint only method and path are held against the contract, and nothing of a face
\* that every run verifies.
EndpointsAreOperations(b) ==
    \A e \in Card(b).endpoints :
        e.path \in ExemptPaths \/ (e.method = "GET" /\ e.path \in Operations(b))

\* Of two results with one name the last counts.
NameIn(name, results) == \E r \in ToSet(results) : r.name = name
NamePasses(name, results) ==
    \E i \in DOMAIN results : /\ results[i].name = name /\ results[i].passed
                              /\ \A j \in i + 1 .. Len(results) : results[j].name # name
CoverageMap(b) ==
    IF HasRows(b) /\ Document(b).coverage # None THEN Document(b).coverage ELSE <<>>
Tags(results) == UNION {r.tags : r \in ToSet(results)}
Covered(map, results) ==
    {id \in DOMAIN map : \E ref \in map[id] : NamePasses(ref, results)}
    \cup Tags(SelectSeq(results, LAMBDA r : r.passed))

\* Nothing that is undeclared is named, all that is declared is covered by something that
\* passed.
Covers(map, results, capabilities) ==
    /\ map # Junk /\ DOMAIN map \cup Tags(results) \subseteq capabilities
    /\ \A id \in DOMAIN map : map[id] # {} /\ \A ref \in map[id] : NameIn(ref, results)
    /\ capabilities \subseteq Covered(map, results)
\* judgeCapabilityCoverage
CoveragePasses(b) ==
    /\ Completed(b) /\ EndpointsAreOperations(b)
    /\ Covers(CoverageMap(b), Results(b), Capabilities(b))
=============================================================================
