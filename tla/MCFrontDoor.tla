----------------------------- MODULE MCFrontDoor -----------------------------
(* Instances of FrontDoor for TLC.                                           *)
EXTENDS FrontDoor, TLC

CONSTANTS a, b, self, h, spec, suite

\* Two services of one third party, on two ports, and api.qa.
OriginsOfTwo == (a :> h) @@ (b :> h) @@ (self :> self)

Domain(o) == [origin |-> o, doc |-> None, seed |-> None, pin |-> "none",
              attested |-> FALSE, stored |-> FALSE]
On(o, doc) == [Domain(o) EXCEPT !.doc = doc]

\* One request of every kind; a request that names a suite by its digest; a bad pin; an
\* attested run with and without its pin, the first of them on a seed of its own.
Kinds ==
    {Domain(a), Domain(self), On(a, spec), On(b, spec), On(a, suite),
     [On(a, suite) EXCEPT !.stored = TRUE],
     [On(a, spec) EXCEPT !.pin = "mismatch"],
     [On(a, spec) EXCEPT !.attested = TRUE],
     [On(a, spec) EXCEPT !.attested = TRUE, !.pin = "match", !.seed = 7]}

Symmetry == Permutations(Requests)
=============================================================================
