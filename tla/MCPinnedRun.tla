---------------------------- MODULE MCPinnedRun -----------------------------
(* Contracts, manifests and answers for PinnedRun: each job is there for one
   hazard, next to neighbours that are refused or differ in one respect.     *)
EXTENDS PinnedRun

CONSTANTS v, w, ok, low, far, a, b

Free == [u \in Vars |-> None]
Always == [arm |-> "always", from |-> None, equals |-> None, own |-> FALSE]
When(c, x) == [arm |-> "probe", from |-> c, equals |-> x, own |-> FALSE]
OnCard(own) == [arm |-> "card", from |-> None, equals |-> None, own |-> own]
Plain == [id |-> <<>>, kind |-> "other", applies |-> Always, path |-> None, wants |-> None,
          capture |-> None, channel |-> None, min |-> 1, amount |-> None, mustServeOk |-> FALSE]
Endpoint(id, path, wants, capture) ==
    [Plain EXCEPT !.id = id, !.kind = "endpoint", !.path = path, !.wants = wants,
                  !.capture = capture]
Probe(id, c, wants) ==
    [Plain EXCEPT !.id = id, !.kind = "probe", !.channel = c, !.wants = wants]
Check(id, applies) == [Plain EXCEPT !.id = id, !.kind = "check", !.applies = applies]

Chained == <<Endpoint(<<7>>, None, None, v), Endpoint(<<8>>, v, v, None)>>
Early == <<Endpoint(<<8>>, v, None, None), Endpoint(<<7>>, None, None, v)>>
Rebound == <<Endpoint(<<7>>, None, w, v), Endpoint(<<8>>, v, None, v), Probe(<<9>>, a, v)>>
Metered == <<Probe(<<7>>, a, None), [Probe(<<8>>, b, ok) EXCEPT !.applies = When(a, low)],
             Check(<<9>>, When(a, low))>>
Ceiling == <<[Probe(<<8>>, b, None) EXCEPT !.amount = a], Probe(<<7>>, a, None)>>
Flipped == <<[Probe(<<7>>, a, low) EXCEPT !.mustServeOk = TRUE, !.min = 2]>>
Optional(own) == <<Check(<<7>>, OnCard(own)), [Plain EXCEPT !.id = <<8>>, !.kind = "surface"]>>

Contracts ==
    {Chained, Early, Rebound, Metered, Ceiling, Flipped, Optional(TRUE), Optional(FALSE), <<>>,
     <<Endpoint(<<7>>, None, None, None), Endpoint(<<7>>, None, ok, None)>>,
     <<Endpoint(<<7, 1>>, None, None, None), Probe(<<7>>, a, None)>>,
     <<[Endpoint(<<7>>, None, None, None) EXCEPT !.applies = When(a, low)]>>,
     <<Check(<<7>>, [Always EXCEPT !.arm = "malformed"])>>, <<[Plain EXCEPT !.id = <<7>>]>>}

Env(x, target) == [vars |-> [Free EXCEPT ![w] = x], target |-> target]
SpecJob(reqs, attested, pin, target) ==
    [door |-> "spec", attested |-> attested, pin |-> pin, known |-> TRUE, explicit |-> target,
     reqs |-> reqs, env |-> Env(None, None), rows |-> <<>>]
RowsOf(reqs, attested, rows) ==
    [door |-> "rows", attested |-> attested, pin |-> "match", known |-> TRUE, explicit |-> None,
     reqs |-> reqs, env |-> Env(ok, "public"), rows |-> rows]
SuiteJob(reqs, known, target) ==
    [SpecJob(reqs, TRUE, "match", None) EXCEPT !.door = "suite", !.known = known,
                                               !.env = Env(ok, target)]

TheJobs ==
    {SpecJob(c, FALSE, None, "public") : c \in Contracts}
    \cup {SpecJob(Chained, t, p, "public") : t \in BOOLEAN, p \in {None, "match", "mismatch"}}
    \cup {SpecJob(Chained, FALSE, "match", "private")}
    \cup {SuiteJob(Rebound, k, t) : k \in BOOLEAN, t \in {None, "public", "private"}}
    \cup {RowsOf(Chained, FALSE, <<[vars |-> Free, target |-> t], Env(low, None)>>) :
             t \in {None, "private"}}
    \cup {RowsOf(Chained, TRUE, <<[vars |-> Free, target |-> None]>>), RowsOf(Chained, FALSE, <<>>)}

E1(u, local, param) == [url |-> <<u>>, path |-> <<5>>, local |-> local, param |-> param]
TheManifests ==
    LET one(x, y) == [c \in Channels |-> IF c = a THEN x ELSE y]
    IN  {one(<<>>, <<>>), one(<<>>, <<E1(3, TRUE, TRUE)>>),
         one(<<E1(1, TRUE, TRUE), E1(1, TRUE, TRUE)>>, <<E1(3, TRUE, FALSE)>>),
         one(<<E1(1, TRUE, FALSE), E1(2, TRUE, TRUE)>>, <<E1(3, TRUE, TRUE)>>),
         one(<<E1(1, TRUE, TRUE), E1(2, FALSE, TRUE)>>, <<E1(3, TRUE, TRUE)>>)}

Reply(status, value, cut) == [status |-> status, value |-> value, cut |-> cut]
TheAnswers ==
    {Reply("none", None, FALSE), Reply("500", low, FALSE), Reply("200", None, FALSE),
     Reply("200", low, TRUE)} \cup {Reply("200", x, FALSE) : x \in {ok, low, far}}
=============================================================================
