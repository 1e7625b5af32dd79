---------------------------- MODULE PinnedRun_proof ----------------------------
(***************************************************************************)
(* Proofs about PinnedRun, for any contracts, cards, answers and budget:   *)
(* nothing is asked of a target but under the pin and at a public address, *)
(* the judge speaks of the requests that were made, no binding is carried  *)
(* from one iteration into the next, no two exchanges share a role, no     *)
(* requirement passes unobserved and none is exempt without proof.         *)
(*                                                                         *)
(* That observer and judge agree needs the history of the bindings: the    *)
(* trail of a run is what the bindings were before each requirement.  Each *)
(* step of it is a function of the recorded evidence, the observer extends *)
(* it, the probes leave it alone, and the judge walks along it again.      *)
(* What passes and what is exempt needs the plans: what the judge says of a*)
(* requirement is what the observer left in its plan and in the record.    *)
(***************************************************************************)
EXTENDS PinnedRun, Ranks, SequenceTheorems, TLAPS

Started == pc \in {"target", "endpoints", "probes", "entry", "flip", "judge"}

\* What a run was let in with, and what the types of its state rest on.
AdmittedRight ==
    /\ job \in Jobs /\ at \in Nat /\ row \in Nat
    /\ pc \in {"asked", "row", "target", "endpoints", "probes", "entry", "flip", "judge", "over"}
    /\ pc = "asked" => row = 1
    /\ Started \/ pc = "row" => Admitted /\ (job.door = "rows" => row \in DOMAIN job.rows)
    /\ Started => RowAdmitted(row)
    /\ pc \in {"entry", "flip"} => at \in Probes

\* Exchanges that are recorded: answers are values, and at most one of them has the role of
\* an endpoint; the roles of the probes are longer.
Exchanges(s) ==
    /\ \E S : s \in Seq(S)
    /\ \A i \in DOMAIN s : s[i].value \in Maybe(Values)
    /\ \A i, j \in DOMAIN s : Len(s[i].role) = 1 /\ s[i].role = s[j].role => i = j

\* Has and Evidence, of any record.
HasIn(s, role) == \E i \in DOMAIN s : s[i].role = role
EvidenceIn(s, role) ==
    IF HasIn(s, role)
    THEN s[CHOOSE i \in DOMAIN s : s[i].role = role /\ \A j \in 1 .. i - 1 : s[j].role # role]
    ELSE NoBody

\* The bindings after a requirement, when they were b before it.
After(req, s, b) ==
    IF req.kind = "endpoint" /\ Resolves(req, b)
    THEN Capture(req, EvidenceIn(s, req.id), b) ELSE b

\* The requirement was asked as b resolves it.
AskedAs(req, s, b) ==
    req.kind = "endpoint" =>
        /\ HasIn(s, req.id) <=> Resolves(req, b)
        /\ HasIn(s, req.id) => EvidenceIn(s, req.id).url = Url(req, b)

\* b is what the bindings were before each of the first n requirements, and after them.
Trail(reqs, s, start, b, n) ==
    /\ b \in [1 .. n + 1 -> Bindings] /\ b[1] = start
    /\ \A k \in 1 .. n : b[k + 1] = After(reqs[k], s, b[k]) /\ AskedAs(reqs[k], s, b[k])

\* A binding that is not given was captured in this record: CapturesAreOwn, of any record.
Own(reqs, s, start, b) ==
    \A u \in Vars : b[u] # start[u] =>
        \E k \in DOMAIN reqs, i \in DOMAIN s :
            /\ reqs[k].capture = u /\ s[i].role = reqs[k].id
            /\ s[i].status = "200" /\ ~s[i].cut /\ s[i].value = b[u]

\* Where observer and judge are on the trail.
OnTrail ==
    /\ pc = "target" => items = <<>> /\ scope = Layered(row) /\ at = 1
    /\ pc = "endpoints" => /\ at \in 1 .. Len(Reqs) + 1
                           /\ \A k \in at .. Len(Reqs) : ~HasIn(items, Reqs[k].id)
                           /\ \E b : Trail(Reqs, items, Layered(row), b, at - 1) /\ b[at] = scope
    /\ pc \in {"probes", "entry", "flip"} =>
          \E b : Trail(Reqs, items, Layered(row), b, Len(Reqs))
    /\ pc = "judge" =>
          /\ at \in 1 .. Len(Reqs) + 1
          /\ \E b : Trail(Reqs, items, Layered(row), b, Len(Reqs)) /\ b[at] = scope

IInv ==
    /\ AdmittedRight /\ scope \in Bindings /\ Exchanges(items) /\ OnTrail
    /\ Running => Own(Reqs, items, Layered(row), scope)

-----------------------------------------------------------------------------
(* What is typed                                                             *)

LEMMA JobTypes ==
    ASSUME job \in Jobs
    PROVE  /\ Reqs \in Seq(Requirement) /\ job.env.vars \in Bindings
           /\ job.rows \in Seq(Row) /\ job.pin \in {None, "match", "mismatch"}
           /\ Len(Reqs) \in Nat /\ DOMAIN Reqs = 1 .. Len(Reqs)
<1>1. job \in Job
  BY PinnedAssumption
<1>2. /\ Reqs \in Seq(Requirement) /\ job.env \in Row
      /\ job.rows \in Seq(Row) /\ job.pin \in {None, "match", "mismatch"}
  BY <1>1 DEF Job, Reqs
<1>3. Len(Reqs) \in Nat /\ DOMAIN Reqs = 1 .. Len(Reqs)
  BY <1>2, LenProperties
<1>4. QED
  BY <1>2, <1>3 DEF Row

LEMMA LayeredType ==
    ASSUME job \in Jobs, NEW i, job.door = "rows" => i \in DOMAIN job.rows
    PROVE  Layered(i) \in Bindings
<1>1. CASE job.door = "rows"
  <2>1. job.rows[i] \in Row
    BY <1>1, JobTypes, ElementOfSeq
  <2>2. QED
    BY <1>1, <2>1, JobTypes DEF Layered, Over, Row, Bindings
<1>2. CASE job.door # "rows"
  BY <1>2, JobTypes DEF Layered
<1>3. QED
  BY <1>1, <1>2

LEMMA RequirementTypes ==
    ASSUME job \in Jobs, NEW k \in DOMAIN Reqs
    PROVE  /\ Reqs[k] \in Requirement /\ Reqs[k].id \in Id
           /\ Reqs[k].capture \in Maybe(Vars)
<1>1. Reqs[k] \in Requirement
  BY JobTypes, ElementOfSeq
<1>2. QED
  BY <1>1 DEF Requirement

\* A capture binds one name to the value that was answered, or nothing at all.
LEMMA CaptureType ==
    ASSUME NEW req \in Requirement, NEW ev, ev.value \in Maybe(Values), NEW b \in Bindings
    PROVE  /\ Capture(req, ev, b) \in Bindings
           /\ \A u \in Vars : Capture(req, ev, b)[u] # b[u] =>
                 /\ req.capture = u /\ ev.status = "200" /\ ~ev.cut
                 /\ Capture(req, ev, b)[u] = ev.value /\ ev.value # None
BY DEF Capture, Conforms, Bindings, Requirement, Maybe

-----------------------------------------------------------------------------
(* What is recorded stays                                                    *)

LEMMA HasIsHasIn == ASSUME NEW role PROVE Has(role) = HasIn(items, role)
BY DEF Has, HasIn

LEMMA EvidenceIsEvidenceIn ==
    ASSUME NEW role PROVE Evidence(role) = EvidenceIn(items, role)
BY DEF Evidence, EvidenceIn, Has, HasIn, Find

LEMMA Appended ==
    ASSUME NEW s, NEW x, \E S : s \in Seq(S)
    PROVE  /\ \E S : Append(s, x) \in Seq(S)
           /\ Len(s) \in Nat /\ DOMAIN s = 1 .. Len(s)
           /\ Len(Append(s, x)) = Len(s) + 1 /\ DOMAIN Append(s, x) = 1 .. Len(s) + 1
           /\ \A i \in DOMAIN s : Append(s, x)[i] = s[i]
           /\ Append(s, x)[Len(s) + 1] = x
<1>1. PICK S : s \in Seq(S)
  OBVIOUS
<1> DEFINE T == S \cup {x}
<1>2. s \in Seq(T) /\ x \in T
  BY <1>1, SeqMonotonic
<1> HIDE DEF T
<1>3. Append(s, x) \in Seq(T)
  BY <1>2, AppendProperties
<1>4. Len(s) \in Nat /\ DOMAIN s = 1 .. Len(s)
  BY <1>2, LenProperties
<1>5. /\ Len(Append(s, x)) = Len(s) + 1 /\ Append(s, x)[Len(s) + 1] = x
      /\ \A i \in 1 .. Len(s) : Append(s, x)[i] = s[i]
  BY <1>2, AppendProperties
<1>6. DOMAIN Append(s, x) = 1 .. Len(Append(s, x))
  BY <1>3, LenProperties
<1>7. QED
  BY <1>3, <1>4, <1>5, <1>6

LEMMA LastOf ==
    ASSUME NEW s, Exchanges(s), NEW x, NEW t, t = Append(s, x)
    PROVE  /\ Len(s) \in Nat /\ DOMAIN s = 1 .. Len(s)
           /\ Len(t) = Len(s) + 1 /\ DOMAIN t = 1 .. Len(s) + 1
           /\ t[Len(s) + 1] = x
<1>1. \E S : s \in Seq(S)
  BY DEF Exchanges
<1>2. /\ \E S : Append(s, x) \in Seq(S)
      /\ Len(s) \in Nat /\ DOMAIN s = 1 .. Len(s)
      /\ Len(Append(s, x)) = Len(s) + 1 /\ DOMAIN Append(s, x) = 1 .. Len(s) + 1
      /\ \A i \in DOMAIN s : Append(s, x)[i] = s[i]
      /\ Append(s, x)[Len(s) + 1] = x
  BY <1>1, Appended
<1>3. QED
  BY <1>2

\* The only exchange of a role is the one that is found.
LEMMA FoundIs ==
    ASSUME NEW s, \E S : s \in Seq(S), NEW role, NEW i \in DOMAIN s, s[i].role = role,
           \A j \in DOMAIN s : s[j].role = role => j = i
    PROVE  EvidenceIn(s, role) = s[i]
<1>1. Len(s) \in Nat /\ DOMAIN s = 1 .. Len(s)
  BY LenProperties
<1> DEFINE First(k) == k \in DOMAIN s /\ s[k].role = role /\ \A j \in 1 .. k - 1 : s[j].role # role
<1>2. First(i)
  <2>1. ASSUME NEW j \in 1 .. i - 1 PROVE s[j].role # role
    <3>1. j \in DOMAIN s /\ j # i
      BY <1>1
    <3>2. QED
      BY <3>1
  <2>2. QED
    BY <2>1
<1>3. \A k : First(k) => k = i
  OBVIOUS
<1> DEFINE c == CHOOSE k \in DOMAIN s : s[k].role = role /\ \A j \in 1 .. k - 1 : s[j].role # role
<1>4. c \in DOMAIN s /\ s[c].role = role
  BY <1>2
<1>5. c = i
  BY <1>4
<1>6. QED
  BY <1>5 DEF EvidenceIn, HasIn

\* What an endpoint is judged by is not moved by an exchange with another role.
LEMMA OtherRole ==
    ASSUME NEW s, Exchanges(s), NEW x, NEW role, Len(role) = 1, x.role # role
    PROVE  /\ HasIn(Append(s, x), role) <=> HasIn(s, role)
           /\ EvidenceIn(Append(s, x), role) = EvidenceIn(s, role)
<1>1. \E S : s \in Seq(S)
  BY DEF Exchanges
<1>2. /\ \E S : Append(s, x) \in Seq(S)
      /\ Len(s) \in Nat /\ DOMAIN s = 1 .. Len(s)
      /\ Len(Append(s, x)) = Len(s) + 1 /\ DOMAIN Append(s, x) = 1 .. Len(s) + 1
      /\ \A i \in DOMAIN s : Append(s, x)[i] = s[i]
      /\ Append(s, x)[Len(s) + 1] = x
  BY <1>1, Appended
<1>3. \A i \in DOMAIN Append(s, x) : i \in DOMAIN s \/ i = Len(s) + 1
  BY <1>2
<1>4. HasIn(Append(s, x), role) <=> HasIn(s, role)
  BY <1>2, <1>3 DEF HasIn
<1>5. CASE HasIn(s, role)
  <2>1. PICK i \in DOMAIN s : s[i].role = role
    BY <1>5 DEF HasIn
  <2>2. \A j \in DOMAIN s : s[j].role = role => j = i
    BY <2>1 DEF Exchanges
  <2>3. EvidenceIn(s, role) = s[i]
    BY <1>1, <2>1, <2>2, FoundIs
  <2>4. i \in DOMAIN Append(s, x) /\ Append(s, x)[i] = s[i]
    BY <1>2, <2>1
  <2>5. \A j \in DOMAIN Append(s, x) : Append(s, x)[j].role = role => j = i
    BY <1>2, <1>3, <2>2
  <2>6. EvidenceIn(Append(s, x), role) = Append(s, x)[i]
    BY <1>2, <2>1, <2>4, <2>5, FoundIs
  <2>7. QED
    BY <1>4, <2>3, <2>4, <2>6
<1>6. CASE ~HasIn(s, role)
  BY <1>4, <1>6 DEF EvidenceIn
<1>7. QED
  BY <1>4, <1>5, <1>6

\* An exchange with a role of its own is the one that is found.
LEMMA NewRole ==
    ASSUME NEW s, Exchanges(s), NEW x, ~HasIn(s, x.role)
    PROVE  HasIn(Append(s, x), x.role) /\ EvidenceIn(Append(s, x), x.role) = x
<1>1. \E S : s \in Seq(S)
  BY DEF Exchanges
<1>2. /\ \E S : Append(s, x) \in Seq(S)
      /\ Len(s) \in Nat /\ DOMAIN s = 1 .. Len(s)
      /\ Len(Append(s, x)) = Len(s) + 1 /\ DOMAIN Append(s, x) = 1 .. Len(s) + 1
      /\ \A i \in DOMAIN s : Append(s, x)[i] = s[i]
      /\ Append(s, x)[Len(s) + 1] = x
  BY <1>1, Appended
<1> DEFINE i == Len(s) + 1
<1>3. i \in DOMAIN Append(s, x) /\ Append(s, x)[i].role = x.role
  BY <1>2
<1>4. \A j \in DOMAIN Append(s, x) : Append(s, x)[j].role = x.role => j = i
  BY <1>2 DEF HasIn
<1>5. EvidenceIn(Append(s, x), x.role) = Append(s, x)[i]
  BY <1>2, <1>3, <1>4, FoundIs
<1>6. QED
  BY <1>2, <1>3, <1>5 DEF HasIn

LEMMA ExchangesKept ==
    ASSUME NEW s, Exchanges(s), NEW x, x.value \in Maybe(Values),
           Len(x.role) = 1 => ~HasIn(s, x.role)
    PROVE  Exchanges(Append(s, x))
<1>1. \E S : s \in Seq(S)
  BY DEF Exchanges
<1>2. /\ \E S : Append(s, x) \in Seq(S)
      /\ Len(s) \in Nat /\ DOMAIN s = 1 .. Len(s)
      /\ Len(Append(s, x)) = Len(s) + 1 /\ DOMAIN Append(s, x) = 1 .. Len(s) + 1
      /\ \A i \in DOMAIN s : Append(s, x)[i] = s[i]
      /\ Append(s, x)[Len(s) + 1] = x
  BY <1>1, Appended
<1>3. \A i \in DOMAIN Append(s, x) : i \in DOMAIN s \/ i = Len(s) + 1
  BY <1>2
<1>4. \A i \in DOMAIN Append(s, x) : Append(s, x)[i].value \in Maybe(Values)
  BY <1>2, <1>3 DEF Exchanges
<1>5. ASSUME NEW i \in DOMAIN Append(s, x), NEW j \in DOMAIN Append(s, x),
             Len(Append(s, x)[i].role) = 1, Append(s, x)[i].role = Append(s, x)[j].role
      PROVE  i = j
  <2>1. CASE i \in DOMAIN s /\ j \in DOMAIN s
    BY <1>2, <1>5, <2>1 DEF Exchanges
  <2>2. CASE i = Len(s) + 1 /\ j \in DOMAIN s
    BY <1>2, <1>5, <2>2 DEF HasIn
  <2>3. CASE i \in DOMAIN s /\ j = Len(s) + 1
    BY <1>2, <1>5, <2>3 DEF HasIn
  <2>4. QED
    BY <1>3, <2>1, <2>2, <2>3
<1>6. QED
  BY <1>2, <1>4, <1>5 DEF Exchanges

\* A trail stays one when an exchange is recorded that is none of its endpoints.
LEMMA TrailKept ==
    ASSUME NEW reqs, NEW s, Exchanges(s), NEW x, NEW start, NEW b, NEW n \in Nat,
           Trail(reqs, s, start, b, n),
           \A k \in 1 .. n : Len(reqs[k].id) = 1 /\ x.role # reqs[k].id
    PROVE  Trail(reqs, Append(s, x), start, b, n)
<1>1. ASSUME NEW k \in 1 .. n
      PROVE  /\ b[k + 1] = After(reqs[k], Append(s, x), b[k])
             /\ AskedAs(reqs[k], Append(s, x), b[k])
  <2>1. b[k + 1] = After(reqs[k], s, b[k]) /\ AskedAs(reqs[k], s, b[k])
    BY DEF Trail
  <2>2. /\ HasIn(Append(s, x), reqs[k].id) <=> HasIn(s, reqs[k].id)
        /\ EvidenceIn(Append(s, x), reqs[k].id) = EvidenceIn(s, reqs[k].id)
    BY OtherRole
  <2>3. QED
    BY <2>1, <2>2 DEF After, AskedAs
<1>2. QED
  BY <1>1 DEF Trail

\* The bindings before a requirement, when those before the last one are known.
LEMMA TrailExtends ==
    ASSUME NEW reqs, NEW s, NEW start, NEW b, NEW n \in Nat, Trail(reqs, s, start, b, n),
           NEW c \in Bindings, c = After(reqs[n + 1], s, b[n + 1]), AskedAs(reqs[n + 1], s, b[n + 1])
    PROVE  \E d : Trail(reqs, s, start, d, n + 1) /\ d[n + 2] = c
<1> DEFINE d == [k \in 1 .. n + 2 |-> IF k = n + 2 THEN c ELSE b[k]]
<1>1. b \in [1 .. n + 1 -> Bindings] /\ b[1] = start
  BY DEF Trail
<1>2. /\ d \in [1 .. n + 2 -> Bindings] /\ d[n + 2] = c
      /\ \A k \in 1 .. n + 1 : d[k] = b[k]
  BY <1>1
<1> HIDE DEF d
<1>3. ASSUME NEW k \in 1 .. n + 1
      PROVE  d[k + 1] = After(reqs[k], s, d[k]) /\ AskedAs(reqs[k], s, d[k])
  <2>1. CASE k = n + 1
    <3>1. d[k] = b[n + 1] /\ d[k + 1] = c
      BY <1>2, <2>1
    <3>2. QED
      BY <2>1, <3>1
  <2>2. CASE k \in 1 .. n
    <3>1. d[k] = b[k] /\ d[k + 1] = b[k + 1]
      BY <1>2, <2>2
    <3>2. b[k + 1] = After(reqs[k], s, b[k]) /\ AskedAs(reqs[k], s, b[k])
      BY <2>2 DEF Trail
    <3>3. QED
      BY <3>1, <3>2
  <2>3. QED
    BY <2>1, <2>2
<1>4. d[1] = start /\ n + 1 + 1 = n + 2
  BY <1>1, <1>2
<1>5. Trail(reqs, s, start, d, n + 1)
  BY <1>2, <1>3, <1>4 DEF Trail
<1>6. QED
  BY <1>2, <1>5

LEMMA OwnKept ==
    ASSUME NEW reqs, NEW s, Exchanges(s), NEW x, NEW start, NEW b, Own(reqs, s, start, b)
    PROVE  Own(reqs, Append(s, x), start, b)
<1>1. \E S : s \in Seq(S)
  BY DEF Exchanges
<1>2. /\ \E S : Append(s, x) \in Seq(S)
      /\ Len(s) \in Nat /\ DOMAIN s = 1 .. Len(s)
      /\ Len(Append(s, x)) = Len(s) + 1 /\ DOMAIN Append(s, x) = 1 .. Len(s) + 1
      /\ \A i \in DOMAIN s : Append(s, x)[i] = s[i]
      /\ Append(s, x)[Len(s) + 1] = x
  BY <1>1, Appended
<1>3. \A i \in DOMAIN s : i \in DOMAIN Append(s, x)
  BY <1>2
<1>4. QED
  BY <1>2, <1>3 DEF Own

LEMMA OwnCapture ==
    ASSUME NEW reqs, NEW s, Exchanges(s), NEW start, NEW b \in Bindings, Own(reqs, s, start, b),
           NEW k \in DOMAIN reqs, reqs[k] \in Requirement,
           NEW i \in DOMAIN s, s[i].role = reqs[k].id
    PROVE  Own(reqs, s, start, Capture(reqs[k], s[i], b))
<1> DEFINE c == Capture(reqs[k], s[i], b)
<1>1. s[i].value \in Maybe(Values)
  BY DEF Exchanges
<1>2. \A u \in Vars : c[u] # b[u] =>
         reqs[k].capture = u /\ s[i].status = "200" /\ ~s[i].cut /\ c[u] = s[i].value
  BY <1>1, CaptureType
<1> HIDE DEF c
<1>3. ASSUME NEW u \in Vars, c[u] # start[u]
      PROVE  \E l \in DOMAIN reqs, j \in DOMAIN s :
                /\ reqs[l].capture = u /\ s[j].role = reqs[l].id
                /\ s[j].status = "200" /\ ~s[j].cut /\ s[j].value = c[u]
  <2>1. CASE c[u] = b[u]
    BY <1>3, <2>1 DEF Own
  <2>2. CASE c[u] # b[u]
    BY <1>2, <2>2
  <2>3. QED
    BY <2>1, <2>2
<1>4. QED
  BY <1>3 DEF Own, c

-----------------------------------------------------------------------------
LEMMA InvInit == Init => IInv
<1> SUFFICES ASSUME Init PROVE IInv
  OBVIOUS
<1>1. AdmittedRight /\ scope \in Bindings
  BY JobTypes DEF Init, AdmittedRight, Started
<1>2. Exchanges(items)
  <2>1. items = <<>> /\ items \in Seq({})
    BY EmptySeq DEF Init
  <2>2. DOMAIN items = {}
    BY <2>1
  <2>3. QED
    BY <2>1, <2>2 DEF Exchanges
<1>3. OnTrail /\ ~Running
  BY DEF Init, OnTrail, Running
<1>4. QED
  BY <1>1, <1>2, <1>3 DEF IInv

\* What a document that was let in is like.
LEMMA LetIn ==
    ASSUME IInv, Started
    PROVE  /\ Reqs \in Seq(Requirement) /\ Len(Reqs) \in Nat /\ DOMAIN Reqs = 1 .. Len(Reqs)
           /\ \A k \in DOMAIN Reqs : Reqs[k] \in Requirement /\ Len(Reqs[k].id) = 1
           /\ \A k, l \in DOMAIN Reqs : Reqs[k].id = Reqs[l].id => k = l
           /\ Layered(row) \in Bindings
<1>1. /\ job \in Jobs /\ Valid(Reqs) /\ (job.door = "rows" => row \in DOMAIN job.rows)
  BY DEF IInv, AdmittedRight, RowAdmitted
<1>2. QED
  BY <1>1, JobTypes, RequirementTypes, LayeredType DEF Valid, UniqueIds, NoColon

\* A step within an iteration.
LEMMA WithinInv ==
    ASSUME IInv, Started, UNCHANGED <<job, row>>, Started',
           at' \in Nat,
           pc' \in {"entry", "flip"} => at' \in Probes,
           scope' \in Bindings, Exchanges(items'), OnTrail',
           Running' => Own(Reqs, items', Layered(row), scope')
    PROVE  IInv'
<1>1. Reqs' = Reqs /\ Layered(row)' = Layered(row) /\ Probes' = Probes
      /\ Admitted' = Admitted /\ RowAdmitted(row)' = RowAdmitted(row)
  BY DEF Reqs, Layered, Probes, Admitted, RowAdmitted, TargetOf
<1>2. AdmittedRight'
  BY <1>1 DEF IInv, AdmittedRight, Started
<1>3. QED
  BY <1>1, <1>2 DEF IInv

-----------------------------------------------------------------------------
(* Admission and the ends of an iteration                                    *)

\* What a step keeps that ends an iteration or refuses one.
LEMMA OutsideInv ==
    ASSUME IInv, job' = job, at' \in Nat, row' \in Nat, pc' \in {"row", "over"},
           UNCHANGED <<items, scope>>,
           pc' = "row" => Admitted /\ (job.door = "rows" => row' \in DOMAIN job.rows)
    PROVE  IInv'
<1>1. Admitted' = Admitted /\ ~Started' /\ ~Running'
  BY DEF Admitted, Reqs, Started, Running
<1>2. AdmittedRight'
  BY <1>1 DEF IInv, AdmittedRight
<1>3. OnTrail'
  BY DEF OnTrail
<1>4. QED
  BY <1>1, <1>2, <1>3 DEF IInv

LEMMA AdmitStep == ASSUME IInv, Admit PROVE IInv'
<1>1. /\ pc = "asked" /\ UNCHANGED <<job, row, at, items, scope>>
      /\ pc' \in {"row", "over"} /\ (pc' = "row" => Admitted)
  BY DEF Admit, asking, observed
<1>2. row = 1 /\ at \in Nat /\ job \in Jobs
  BY <1>1 DEF IInv, AdmittedRight
<1>3. Admitted /\ job.door = "rows" => row \in DOMAIN job.rows
  <2>1. job.rows \in Seq(Row)
    BY <1>2, JobTypes
  <2>2. job.rows # <<>> => 1 \in DOMAIN job.rows
    BY <2>1, EmptySeq, LenProperties
  <2>3. QED
    BY <1>2, <2>2 DEF Admitted
<1>4. QED
  BY <1>1, <1>2, <1>3, OutsideInv

LEMMA AdvanceStep ==
    ASSUME IInv, NEW verdict, Advance(verdict), Started \/ pc = "row",
           UNCHANGED <<job, at, items, scope>>
    PROVE  IInv'
<1>1. /\ Admitted /\ at \in Nat /\ row \in Nat /\ job \in Jobs
  BY DEF IInv, AdmittedRight
<1>2. CASE job.door = "rows" /\ row < Len(job.rows)
  <2>1. pc' = "row" /\ row' = row + 1
    BY <1>2 DEF Advance
  <2>2. row + 1 \in DOMAIN job.rows
    <3>1. job.rows \in Seq(Row)
      BY <1>1, JobTypes
    <3>2. QED
      BY <1>1, <1>2, <3>1, LenProperties
  <2>3. QED
    BY <1>1, <2>1, <2>2, OutsideInv
<1>3. CASE ~(job.door = "rows" /\ row < Len(job.rows))
  <2>1. pc' = "over" /\ row' = row
    BY <1>3 DEF Advance
  <2>2. QED
    BY <1>1, <2>1, OutsideInv
<1>4. QED
  BY <1>2, <1>3

\* An iteration starts with nothing recorded and nothing captured.
LEMMA StartRowStep == ASSUME IInv, StartRow PROVE IInv'
<1>1. /\ pc = "row" /\ RowAdmitted(row) /\ pc' = "target" /\ scope' = Layered(row)
      /\ items' = <<>> /\ at' = 1 /\ UNCHANGED <<job, row>>
  BY DEF StartRow, asking
<1>2. /\ job \in Jobs /\ row \in Nat /\ Admitted
      /\ (job.door = "rows" => row \in DOMAIN job.rows)
  BY <1>1 DEF IInv, AdmittedRight
<1>3. Admitted' = Admitted /\ RowAdmitted(row)' = RowAdmitted(row) /\ Layered(row)' = Layered(row)
  BY <1>1 DEF Admitted, RowAdmitted, Reqs, TargetOf, Layered
<1>4. AdmittedRight'
  BY <1>1, <1>2, <1>3 DEF AdmittedRight, Started
<1>5. Exchanges(items')
  <2>1. items' \in Seq({}) /\ DOMAIN items' = {}
    BY <1>1, EmptySeq
  <2>2. QED
    BY <2>1 DEF Exchanges
<1>6. OnTrail' /\ ~Running'
  BY <1>1, <1>3 DEF OnTrail, Running
<1>7. scope' \in Bindings
  BY <1>1, <1>2, LayeredType
<1>8. QED
  BY <1>4, <1>5, <1>6, <1>7 DEF IInv

-----------------------------------------------------------------------------
(* Observation                                                               *)

LEMMA ObserveTargetStep == ASSUME IInv, ObserveTarget PROVE IInv'
<1>1. /\ pc = "target" /\ pc' = "endpoints" /\ UNCHANGED <<job, row, items, scope, at>>
  BY DEF ObserveTarget, asking
<1>2. items = <<>> /\ scope = Layered(row) /\ at = 1 /\ scope \in Bindings /\ Exchanges(items)
  BY <1>1 DEF IInv, OnTrail
<1>3. Reqs' = Reqs /\ Layered(row)' = Layered(row) /\ Len(Reqs) \in Nat
  BY <1>1, LetIn DEF Reqs, Layered, Started
<1>4. OnTrail'
  <2> DEFINE b == [k \in 1 .. 1 |-> scope]
  <2>1. Trail(Reqs, items, Layered(row), b, 0) /\ b[1] = scope
    BY <1>2 DEF Trail
  <2>2. \A role : ~HasIn(items, role)
    BY <1>2 DEF HasIn
  <2> HIDE DEF b
  <2>3. at - 1 = 0 /\ b[at] = scope
    BY <1>2, <2>1
  <2>4. \E c : Trail(Reqs, items, Layered(row), c, at - 1) /\ c[at] = scope
    BY <2>1, <2>3
  <2>5. QED
    BY <1>1, <1>2, <1>3, <2>2, <2>4 DEF OnTrail
<1>5. Own(Reqs, items', Layered(row), scope')
  BY <1>1, <1>2 DEF Own
<1>6. QED
  BY <1>1, <1>2, <1>4, <1>5, WithinInv DEF Started

\* What is passed over is not asked, and binds nothing.
LEMMA SkipOthersStep == ASSUME IInv, SkipOthers PROVE IInv'
<1>1. /\ pc = "endpoints" /\ pc' = pc /\ at <= Len(Reqs) /\ at' = at + 1
      /\ Reqs[at].kind # "endpoint" \/ ~Resolves(Reqs[at], scope)
      /\ UNCHANGED <<job, row, items, scope>>
  BY DEF SkipOthers, asking, observed
<1>2. /\ at \in 1 .. Len(Reqs) + 1 /\ \A k \in at .. Len(Reqs) : ~HasIn(items, Reqs[k].id)
      /\ scope \in Bindings /\ Exchanges(items) /\ Own(Reqs, items, Layered(row), scope)
  BY <1>1 DEF IInv, OnTrail, Running
<1>3. PICK b : Trail(Reqs, items, Layered(row), b, at - 1) /\ b[at] = scope
  BY <1>1 DEF IInv, OnTrail
<1>4. Reqs' = Reqs /\ Layered(row)' = Layered(row) /\ Len(Reqs) \in Nat
  BY <1>1, LetIn DEF Reqs, Layered, Started
<1>5. at - 1 \in Nat /\ at - 1 + 1 = at /\ at - 1 + 2 = at + 1 /\ at + 1 - 1 = at
  BY <1>2, <1>4
<1>6. scope = After(Reqs[at], items, b[at]) /\ AskedAs(Reqs[at], items, b[at])
  BY <1>1, <1>2, <1>3, <1>4 DEF After, AskedAs
<1>7. \E d : Trail(Reqs, items, Layered(row), d, at - 1 + 1) /\ d[at - 1 + 2] = scope
  BY <1>2, <1>3, <1>5, <1>6, TrailExtends
<1>8. \E d : Trail(Reqs, items, Layered(row), d, at' - 1) /\ d[at'] = scope
  BY <1>1, <1>5, <1>7
<1>9. OnTrail'
  BY <1>1, <1>2, <1>4, <1>8 DEF OnTrail
<1>10. QED
  BY <1>1, <1>2, <1>4, <1>9, WithinInv DEF Started

\* One exchange is recorded.
LEMMA ObserveRecords ==
    ASSUME NEW a \in Answers, NEW role, NEW url, Observe(role, url, a)
    PROVE  \E x : /\ items' = Append(items, x) /\ x.role = role /\ x.url = url
                  /\ x.value \in Maybe(Values)
<1> DEFINE x == Item(role, url, IF used < Budget THEN a ELSE NoAnswer)
<1>1. items' = Append(items, x)
  BY DEF Observe
<1>2. a \in Answer
  BY PinnedAssumption
<1>3. x.role = role /\ x.url = url /\ x.value \in Maybe(Values)
  BY <1>2 DEF Item, NoAnswer, Answer, Maybe
<1>4. QED
  BY <1>1, <1>3

\* An endpoint is asked under its own name, and its answer is what it will be judged by.
LEMMA ObserveEndpointStep ==
    ASSUME IInv, NEW a \in Answers, ObserveEndpoint(a) PROVE IInv'
<1> DEFINE req == Reqs[at]
<1>1. /\ pc = "endpoints" /\ pc' = pc /\ at <= Len(Reqs) /\ at' = at + 1
      /\ req.kind = "endpoint" /\ Resolves(req, scope)
      /\ Observe(req.id, Url(req, scope), a)
      /\ scope' = Capture(req, items'[Len(items')], scope)
      /\ UNCHANGED <<job, row>>
  BY DEF ObserveEndpoint, asking
<1>2. /\ at \in 1 .. Len(Reqs) + 1 /\ \A k \in at .. Len(Reqs) : ~HasIn(items, Reqs[k].id)
      /\ scope \in Bindings /\ Exchanges(items) /\ Own(Reqs, items, Layered(row), scope)
  BY <1>1 DEF IInv, OnTrail, Running
<1>3. PICK b : Trail(Reqs, items, Layered(row), b, at - 1) /\ b[at] = scope
  BY <1>1 DEF IInv, OnTrail
<1>4. /\ Reqs' = Reqs /\ Layered(row)' = Layered(row)
      /\ Len(Reqs) \in Nat /\ DOMAIN Reqs = 1 .. Len(Reqs)
      /\ \A k \in DOMAIN Reqs : Reqs[k] \in Requirement /\ Len(Reqs[k].id) = 1
      /\ \A k, l \in DOMAIN Reqs : Reqs[k].id = Reqs[l].id => k = l
  BY <1>1, LetIn DEF Reqs, Layered, Started
<1>5. /\ at \in DOMAIN Reqs /\ at - 1 \in Nat /\ at - 1 + 1 = at /\ at - 1 + 2 = at + 1
      /\ at + 1 - 1 = at
  BY <1>1, <1>2, <1>4
<1>6. PICK x : /\ items' = Append(items, x) /\ x.role = req.id /\ x.url = Url(req, scope)
               /\ x.value \in Maybe(Values)
  BY <1>1, ObserveRecords
<1>7. ~HasIn(items, x.role)
  BY <1>1, <1>2, <1>4, <1>5, <1>6
<1>8. Exchanges(items')
  BY <1>2, <1>6, <1>7, ExchangesKept
<1>9. HasIn(items', req.id) /\ EvidenceIn(items', req.id) = x
  BY <1>2, <1>6, <1>7, NewRole
<1>10. /\ Len(items) \in Nat /\ DOMAIN items = 1 .. Len(items)
       /\ Len(items') = Len(items) + 1 /\ DOMAIN items' = 1 .. Len(items) + 1
       /\ items'[Len(items) + 1] = x
  BY <1>2, <1>6, LastOf
<1>11. scope' = Capture(req, x, scope)
  BY <1>1, <1>10
<1>12. scope' \in Bindings
  BY <1>2, <1>4, <1>5, <1>6, <1>11, CaptureType
<1>13. Trail(Reqs, items', Layered(row), b, at - 1)
  <2>1. ASSUME NEW k \in 1 .. at - 1 PROVE Len(Reqs[k].id) = 1 /\ x.role # Reqs[k].id
    <3>1. k \in DOMAIN Reqs /\ k # at
      BY <1>2, <1>4, <1>5
    <3>2. QED
      BY <1>4, <1>5, <1>6, <3>1
  <2>2. Trail(Reqs, Append(items, x), Layered(row), b, at - 1)
    BY <1>2, <1>3, <1>5, <2>1, TrailKept
  <2>3. QED
    BY <1>6, <2>2
<1>14. scope' = After(req, items', b[at]) /\ AskedAs(req, items', b[at])
  BY <1>1, <1>3, <1>6, <1>9, <1>11 DEF After, AskedAs
<1>15. \E d : Trail(Reqs, items', Layered(row), d, at - 1 + 1) /\ d[at - 1 + 2] = scope'
  BY <1>5, <1>12, <1>13, <1>14, TrailExtends
<1>16. \E d : Trail(Reqs, items', Layered(row), d, at' - 1) /\ d[at'] = scope'
  BY <1>1, <1>5, <1>15
<1>17. \A k \in at' .. Len(Reqs) : ~HasIn(items', Reqs[k].id)
  <2>1. SUFFICES ASSUME NEW k \in at + 1 .. Len(Reqs) PROVE ~HasIn(items', Reqs[k].id)
    BY <1>1
  <2>2. k \in DOMAIN Reqs /\ k # at /\ k \in at .. Len(Reqs)
    BY <1>2, <1>4, <1>5
  <2>3. ~HasIn(items, Reqs[k].id) /\ x.role # Reqs[k].id /\ Len(Reqs[k].id) = 1
    BY <1>2, <1>4, <1>5, <1>6, <2>2
  <2>4. HasIn(Append(items, x), Reqs[k].id) <=> HasIn(items, Reqs[k].id)
    BY <1>2, <2>3, OtherRole
  <2>5. QED
    BY <1>6, <2>3, <2>4
<1>18. OnTrail'
  <2>1. at' \in 1 .. Len(Reqs) + 1
    BY <1>1, <1>2, <1>4
  <2>2. QED
    BY <1>1, <1>4, <1>16, <1>17, <2>1 DEF OnTrail
<1>19. Own(Reqs, items', Layered(row), scope')
  <2>1. Own(Reqs, Append(items, x), Layered(row), scope)
    BY <1>2, OwnKept
  <2>2. Len(items) + 1 \in DOMAIN items' /\ items'[Len(items) + 1].role = req.id
    BY <1>6, <1>10
  <2>3. Own(Reqs, items', Layered(row), Capture(req, items'[Len(items) + 1], scope))
    BY <1>2, <1>4, <1>5, <1>6, <1>8, <2>1, <2>2, OwnCapture
  <2>4. QED
    BY <1>10, <1>11, <2>3
<1>20. QED
  BY <1>1, <1>5, <1>8, <1>12, <1>18, <1>19, WithinInv DEF Started

\* The probes record what no endpoint is judged by.
LEMMA ProbeRecords ==
    ASSUME IInv, pc \in {"entry", "flip"}, NEW a \in Answers, NEW role, NEW url, Len(role) # 1,
           Observe(role, url, a), UNCHANGED <<job, row, scope, at>>,
           pc' \in {"probes", "entry", "flip"}
    PROVE  IInv'
<1>1. PICK x : items' = Append(items, x) /\ x.role = role /\ x.value \in Maybe(Values)
  BY ObserveRecords
<1>2. /\ Exchanges(items) /\ Own(Reqs, items, Layered(row), scope) /\ scope \in Bindings
      /\ at \in Nat /\ at \in Probes
  BY DEF IInv, Running, AdmittedRight
<1>3. PICK b : Trail(Reqs, items, Layered(row), b, Len(Reqs))
  BY DEF IInv, OnTrail
<1>4. /\ Reqs' = Reqs /\ Layered(row)' = Layered(row) /\ Probes' = Probes
      /\ Len(Reqs) \in Nat /\ DOMAIN Reqs = 1 .. Len(Reqs)
      /\ \A k \in DOMAIN Reqs : Len(Reqs[k].id) = 1
  BY LetIn DEF Reqs, Layered, Started, Probes
<1>5. \A k \in 1 .. Len(Reqs) : Len(Reqs[k].id) = 1 /\ x.role # Reqs[k].id
  BY <1>1, <1>4
<1>6. Trail(Reqs, Append(items, x), Layered(row), b, Len(Reqs))
  BY <1>2, <1>3, <1>4, <1>5, TrailKept
<1>7. Exchanges(Append(items, x))
  BY <1>1, <1>2, ExchangesKept
<1>8. Own(Reqs, Append(items, x), Layered(row), scope)
  BY <1>2, OwnKept
<1>9. OnTrail'
  BY <1>1, <1>4, <1>6 DEF OnTrail
<1>10. QED
  BY <1>1, <1>2, <1>4, <1>7, <1>8, <1>9, WithinInv DEF Started

\* The probes are planned on the recorded evidence, and recording none is no step on the trail.
LEMMA ProbeSteps ==
    ASSUME IInv, pc \in {"endpoints", "probes", "entry"}, pc = "endpoints" => at > Len(Reqs),
           UNCHANGED <<job, row, items, scope>>, pc' \in {"probes", "entry"},
           at' \in Nat, pc' = "entry" => at' \in Probes
    PROVE  IInv'
<1>1. /\ Exchanges(items) /\ Own(Reqs, items, Layered(row), scope) /\ scope \in Bindings
  BY DEF IInv, Running
<1>2. Reqs' = Reqs /\ Layered(row)' = Layered(row) /\ Probes' = Probes /\ Len(Reqs) \in Nat
  BY LetIn DEF Reqs, Layered, Started, Probes
<1>3. \E b : Trail(Reqs, items, Layered(row), b, Len(Reqs))
  <2>1. CASE pc = "endpoints"
    <3>1. at - 1 = Len(Reqs) /\ \E b : Trail(Reqs, items, Layered(row), b, at - 1)
      BY <1>2, <2>1 DEF IInv, OnTrail
    <3>2. QED
      BY <3>1
  <2>2. CASE pc \in {"probes", "entry"}
    BY <2>2 DEF IInv, OnTrail
  <2>3. QED
    BY <2>1, <2>2
<1>4. OnTrail'
  BY <1>2, <1>3 DEF OnTrail
<1>5. QED
  BY <1>1, <1>2, <1>4, WithinInv DEF Started

LEMMA EndpointsObservedStep == ASSUME IInv, EndpointsObserved PROVE IInv'
<1>1. /\ pc = "endpoints" /\ at > Len(Reqs) /\ pc' = "probes" /\ at' = 1
      /\ UNCHANGED <<job, row, items, scope>>
  BY DEF EndpointsObserved, asking, observed
<1>2. QED
  BY <1>1, ProbeSteps

LEMMA PlanProbeStep == ASSUME IInv, PlanProbe PROVE IInv'
<1>1. pc = "probes" /\ UNCHANGED <<job, row, items, scope>> /\ pc' \in {"probes", "entry"}
  BY DEF PlanProbe, asking, observed
<1>2. at' \in Probes
  BY DEF PlanProbe, Unplanned
<1>3. at' \in Nat
  BY <1>1, <1>2, LetIn DEF Probes, Started
<1>4. QED
  BY <1>1, <1>2, <1>3, ProbeSteps

LEMMA LongerRoles ==
    ASSUME IInv, Started, NEW k \in DOMAIN Reqs, NEW n
    PROVE  Len(Append(Reqs[k].id, n)) # 1 /\ Len(Reqs[k].id \o <<n, 0>>) # 1
<1>1. Reqs[k].id \in Seq(Nat) /\ Len(Reqs[k].id) = 1
  BY LetIn DEF Requirement, Id
<1> DEFINE T == Nat \cup {n}
<1>2. Reqs[k].id \in Seq(T) /\ n \in T /\ <<n, 0>> \in Seq(T) /\ Len(<<n, 0>>) = 2
  BY <1>1, SeqMonotonic
<1> HIDE DEF T
<1>3. Len(Append(Reqs[k].id, n)) = Len(Reqs[k].id) + 1
  BY <1>2, AppendProperties
<1>4. Len(Reqs[k].id \o <<n, 0>>) = Len(Reqs[k].id) + 2
  BY <1>2, ConcatProperties
<1>5. QED
  BY <1>1, <1>3, <1>4

LEMMA ObserveEntryStep == ASSUME IInv, NEW a \in Answers, ObserveEntry(a) PROVE IInv'
<1> DEFINE req == Reqs[at]
           e == Declared(req)[entry]
<1>1. pc = "entry" /\ UNCHANGED <<job, row, scope, at>>
  BY DEF ObserveEntry, asking
<1>2. at \in Probes /\ at \in Nat /\ at \in DOMAIN Reqs
  BY <1>1 DEF IInv, AdmittedRight, Probes
<1>3. \/ pc' \in {"probes", "entry"} /\ items' = items
      \/ pc' \in {"flip", "entry"} /\ Observe(Append(req.id, entry), e.url, a)
  BY <1>1 DEF ObserveEntry, NextProbe
<1>4. CASE pc' \in {"probes", "entry"} /\ items' = items
  BY <1>1, <1>2, <1>4, ProbeSteps
<1>5. CASE pc' \in {"flip", "entry"} /\ Observe(Append(req.id, entry), e.url, a)
  <2>1. Len(Append(req.id, entry)) # 1
    BY <1>1, <1>2, LongerRoles DEF Started
  <2>2. QED
    BY <1>1, <1>5, <2>1, ProbeRecords
<1>6. QED
  BY <1>3, <1>4, <1>5

LEMMA ObserveFlipStep == ASSUME IInv, NEW a \in Answers, ObserveFlip(a) PROVE IInv'
<1> DEFINE req == Reqs[at]
<1>1. /\ pc = "flip" /\ pc' = "entry" /\ UNCHANGED <<job, row, scope, at>>
      /\ Observe(req.id \o <<entry, 0>>, Declared(req)[entry].path, a)
  BY DEF ObserveFlip, asking
<1>2. at \in DOMAIN Reqs
  BY <1>1 DEF IInv, AdmittedRight, Probes
<1>3. Len(req.id \o <<entry, 0>>) # 1
  BY <1>1, <1>2, LongerRoles DEF Started
<1>4. QED
  BY <1>1, <1>3, ProbeRecords

-----------------------------------------------------------------------------
(* Judgement                                                                 *)

\* The judge starts where the observer started.
LEMMA ProbesObservedStep == ASSUME IInv, ProbesObserved PROVE IInv'
<1>1. /\ pc = "probes" /\ pc' = "judge" /\ at' = 1 /\ scope' = Layered(row)
      /\ UNCHANGED <<job, row, items>>
  BY DEF ProbesObserved, asking, observed
<1>2. /\ Reqs' = Reqs /\ Layered(row)' = Layered(row) /\ Len(Reqs) \in Nat
      /\ Layered(row) \in Bindings
  BY <1>1, LetIn DEF Reqs, Layered, Started
<1>3. Exchanges(items)
  BY DEF IInv
<1>4. PICK b : Trail(Reqs, items, Layered(row), b, Len(Reqs))
  BY <1>1 DEF IInv, OnTrail
<1>5. b[1] = Layered(row)
  BY <1>4 DEF Trail
<1>6. OnTrail'
  BY <1>1, <1>2, <1>4, <1>5 DEF OnTrail
<1>7. Own(Reqs, items', Layered(row), scope')
  BY <1>1 DEF Own
<1>8. QED
  BY <1>1, <1>2, <1>3, <1>6, <1>7, WithinInv DEF Started

\* Each turn of the judge is a step on the trail.
LEMMA JudgeStep == ASSUME IInv, Judge PROVE IInv'
<1> DEFINE req == Reqs[at]
           ev == EvidenceIn(items, req.id)
<1>1. /\ pc = "judge" /\ pc' = pc /\ at <= Len(Reqs) /\ at' = at + 1
      /\ scope' = IF req.kind = "endpoint" /\ EndpointPasses(req)
                  THEN Capture(req, Evidence(req.id), scope) ELSE scope
      /\ UNCHANGED <<job, row, items>>
  BY DEF Judge, asking, observed
<1>2. /\ at \in 1 .. Len(Reqs) + 1 /\ scope \in Bindings /\ Exchanges(items)
      /\ Own(Reqs, items, Layered(row), scope)
  BY <1>1 DEF IInv, OnTrail, Running
<1>3. PICK b : Trail(Reqs, items, Layered(row), b, Len(Reqs)) /\ b[at] = scope
  BY <1>1 DEF IInv, OnTrail
<1>4. /\ Reqs' = Reqs /\ Layered(row)' = Layered(row)
      /\ Len(Reqs) \in Nat /\ DOMAIN Reqs = 1 .. Len(Reqs)
      /\ \A k \in DOMAIN Reqs : Reqs[k] \in Requirement
  BY <1>1, LetIn DEF Reqs, Layered, Started
<1>5. at \in 1 .. Len(Reqs) /\ at \in DOMAIN Reqs /\ at + 1 \in 1 .. Len(Reqs) + 1
  BY <1>1, <1>2, <1>4
<1>6. Evidence(req.id) = ev
  BY EvidenceIsEvidenceIn
<1>7. scope' = After(req, items, scope)
  <2>1. CASE req.kind = "endpoint" /\ Resolves(req, scope)
                /\ ~Conforms(ev, Bound(req.wants, scope))
    <3>1. Capture(req, ev, scope) = scope
      BY <2>1 DEF Capture
    <3>2. QED
      BY <1>1, <1>6, <2>1, <3>1 DEF EndpointPasses, After
  <2>2. CASE ~(req.kind = "endpoint" /\ Resolves(req, scope)
                /\ ~Conforms(ev, Bound(req.wants, scope)))
    BY <1>1, <1>6, <2>2 DEF EndpointPasses, After
  <2>3. QED
    BY <2>1, <2>2
<1>8. b[at + 1] = scope' /\ b[at + 1] \in Bindings
  BY <1>3, <1>5, <1>7 DEF Trail
<1>9. OnTrail'
  BY <1>1, <1>3, <1>4, <1>5, <1>8 DEF OnTrail
<1>10. Own(Reqs, items, Layered(row), scope')
  <2>1. CASE scope' = scope
    BY <1>2, <2>1
  <2>2. CASE scope' # scope
    <3>1. scope' = Capture(req, ev, scope)
      BY <1>7, <2>2 DEF After
    <3>2. ev.status = "200"
      BY <2>2, <3>1 DEF Capture, Conforms
    <3>3. HasIn(items, req.id)
      BY <3>2 DEF EvidenceIn, NoBody, Item, NoAnswer
    <3>4. PICK i \in DOMAIN items : items[i].role = req.id
      BY <3>3 DEF HasIn
    <3>5. ev = items[i]
      <4>1. \A j \in DOMAIN items : items[j].role = req.id => j = i
        <5>1. Len(req.id) = 1
          BY <1>1, <1>5, LetIn DEF Started
        <5>2. QED
          BY <1>2, <3>4, <5>1 DEF Exchanges
      <4>2. \E S : items \in Seq(S)
        BY <1>2 DEF Exchanges
      <4>3. QED
        BY <3>4, <4>1, <4>2, FoundIs
    <3>6. QED
      BY <1>2, <1>4, <1>5, <3>1, <3>4, <3>5, OwnCapture
  <2>3. QED
    BY <2>1, <2>2
<1>11. QED
  BY <1>1, <1>2, <1>4, <1>5, <1>8, <1>9, <1>10, WithinInv DEF Started

-----------------------------------------------------------------------------
LEMMA InvNext == IInv /\ [Next]_vars => IInv'
<1> SUFFICES ASSUME IInv, [Next]_vars PROVE IInv'
  OBVIOUS
<1>1. CASE Admit
  BY <1>1, AdmitStep
<1>2. CASE StartRow
  BY <1>2, StartRowStep
<1>3. CASE RefuseRow
  BY <1>3, AdvanceStep DEF RefuseRow, asking, observed
<1>4. CASE ObserveTarget
  BY <1>4, ObserveTargetStep
<1>5. CASE SkipOthers
  BY <1>5, SkipOthersStep
<1>6. CASE EndpointsObserved
  BY <1>6, EndpointsObservedStep
<1>7. CASE PlanProbe
  BY <1>7, PlanProbeStep
<1>8. CASE ProbesObserved
  BY <1>8, ProbesObservedStep
<1>9. ASSUME NEW a \in Answers, ObserveEndpoint(a) PROVE IInv'
  BY <1>9, ObserveEndpointStep
<1>10. ASSUME NEW a \in Answers, ObserveEntry(a) PROVE IInv'
  BY <1>10, ObserveEntryStep
<1>11. ASSUME NEW a \in Answers, ObserveFlip(a) PROVE IInv'
  BY <1>11, ObserveFlipStep
<1>12. CASE Judge
  BY <1>12, JudgeStep
<1>13. CASE Report
  BY <1>13, AdvanceStep DEF Report, asking, observed, Started
<1>14. CASE UNCHANGED vars
  <2>1. UNCHANGED <<job, row, pc, at, items, scope>>
    BY <1>14 DEF vars, asking, observed
  <2>2. Reqs' = Reqs /\ Layered(row)' = Layered(row) /\ Probes' = Probes
        /\ Admitted' = Admitted /\ RowAdmitted(row)' = RowAdmitted(row)
    BY <2>1 DEF Reqs, Layered, Probes, Admitted, RowAdmitted, TargetOf
  <2>3. AdmittedRight' /\ OnTrail'
    BY <2>1, <2>2 DEF IInv, AdmittedRight, OnTrail, Started
  <2>4. QED
    BY <2>1, <2>2, <2>3 DEF IInv, Running
<1>15. QED
  BY <1>1, <1>2, <1>3, <1>4, <1>5, <1>6, <1>7, <1>8, <1>9, <1>10, <1>11, <1>12, <1>13, <1>14
     DEF Next

LEMMA Invariance == Spec => []IInv
<1>1. QED
  BY InvInit, InvNext, PTL DEF Spec

-----------------------------------------------------------------------------
\* The judge asks its bindings whether an endpoint was to be asked and where, and the record
\* says the same: whatever the target answered, captured or withheld, no requirement is judged
\* on an exchange that was not made for it.
THEOREM JudgeSpeaksOfWhatWasAsked == Spec => []JudgedAsAsked
<1>1. ASSUME IInv PROVE JudgedAsAsked
  <2>1. SUFFICES ASSUME pc = "judge", at <= Len(Reqs), Reqs[at].kind = "endpoint"
                 PROVE  /\ Has(Reqs[at].id) <=> Resolves(Reqs[at], scope)
                        /\ Has(Reqs[at].id) => Find(Reqs[at].id).url = Url(Reqs[at], scope)
    BY DEF JudgedAsAsked
  <2>2. PICK b : Trail(Reqs, items, Layered(row), b, Len(Reqs)) /\ b[at] = scope
    BY <1>1, <2>1 DEF IInv, OnTrail
  <2>3. at \in 1 .. Len(Reqs)
    BY <1>1, <2>1, LetIn DEF IInv, OnTrail, Started
  <2>4. AskedAs(Reqs[at], items, scope)
    BY <2>2, <2>3 DEF Trail
  <2>5. Has(Reqs[at].id) = HasIn(items, Reqs[at].id)
        /\ Evidence(Reqs[at].id) = EvidenceIn(items, Reqs[at].id)
    BY HasIsHasIn, EvidenceIsEvidenceIn
  <2>6. QED
    BY <2>1, <2>4, <2>5 DEF AskedAs, Evidence
<1>2. QED
  BY <1>1, Invariance, PTL

\* No binding is carried from one iteration into the next or taken from an answer that failed
\* its assertions or was cut off, by the observer or by the judge.
THEOREM NoBindingIsForeign == Spec => []CapturesAreOwn
<1>1. IInv => CapturesAreOwn
  BY DEF IInv, Own, CapturesAreOwn
<1>2. QED
  BY <1>1, Invariance, PTL

\* Nothing is asked of a target, and nothing is judged, but for a document that is the pinned
\* one, wherever a pin is due, and at a public target, in every iteration.
THEOREM NothingAskedUnpinned ==
    Spec => [](Running => /\ job.pin # "mismatch" /\ (job.attested => job.pin = "match")
                          /\ TargetOf(row) = "public")
<1>1. ASSUME IInv, Running
      PROVE  /\ job.pin # "mismatch" /\ (job.attested => job.pin = "match")
             /\ TargetOf(row) = "public"
  <2>1. RowAdmitted(row) /\ Admitted /\ job.pin \in {None, "match", "mismatch"}
    BY <1>1, JobTypes DEF IInv, AdmittedRight, Running, Started
  <2>2. QED
    BY <2>1 DEF RowAdmitted, Admitted, Pinned
<1>2. QED
  BY <1>1, Invariance, PTL

-----------------------------------------------------------------------------
(* Roles.                                                                    *)

Plan == [state : {"none", "exempt", "unresolved", "probed"}, refused : SUBSET Nat]
Planned == pc \in {"target", "endpoints", "probes", "entry", "flip"}

\* The exchanges of an entry of a probe: its own, and its flip.
EntryRole(k, n) == Append(Reqs[k].id, n)
FlipRole(k, n) == Reqs[k].id \o <<n, 0>>

\* RolesDistinct, of any record.
AllDiffer(s) == \A i, j \in DOMAIN s : s[i].role = s[j].role => i = j

\* The role is one of a probe that was planned, and of an entry that was reached.
Reached(role, k, n) ==
    pc \in {"entry", "flip"} /\ k = at =>
        n < entry \/ (pc = "flip" /\ n = entry /\ role = EntryRole(k, n))
OfProbe(role) ==
    \E k \in Probes, n \in Nat :
        /\ plan[k].state # "none" /\ role \in {EntryRole(k, n), FlipRole(k, n)}
        /\ Reached(role, k, n)

RInv ==
    /\ RolesDistinct
    /\ Planned => plan \in [DOMAIN Reqs -> Plan]
    /\ pc \in {"target", "endpoints"} => \A role : HasIn(items, role) => Len(role) = 1
    /\ pc \in {"probes", "entry", "flip"} =>
          \A role : HasIn(items, role) => Len(role) = 1 \/ OfProbe(role)
    /\ pc \in {"entry", "flip"} => entry \in Nat /\ plan[at].state # "none"

\* What the roles of probes look like.
LEMMA SuffixShape ==
    ASSUME NEW id \in Seq(Nat), Len(id) = 1, NEW n \in Nat
    PROVE  /\ Len(Append(id, n)) = 2 /\ Append(id, n)[1] = id[1] /\ Append(id, n)[2] = n
           /\ Len(id \o <<n, 0>>) = 3 /\ (id \o <<n, 0>>)[1] = id[1]
           /\ (id \o <<n, 0>>)[2] = n
<1>1. /\ Len(Append(id, n)) = 2 /\ Append(id, n)[1] = id[1] /\ Append(id, n)[2] = n
  <2>1. /\ \E S : Append(id, n) \in Seq(S)
        /\ Len(id) \in Nat /\ DOMAIN id = 1 .. Len(id)
        /\ Len(Append(id, n)) = Len(id) + 1 /\ DOMAIN Append(id, n) = 1 .. Len(id) + 1
        /\ \A i \in DOMAIN id : Append(id, n)[i] = id[i]
        /\ Append(id, n)[Len(id) + 1] = n
    BY Appended
  <2>2. 1 \in 1 .. Len(id) /\ Len(id) + 1 = 2
    OBVIOUS
  <2>3. Append(id, n)[1] = id[1]
    BY <2>1, <2>2
  <2>4. Append(id, n)[2] = n
    BY <2>1, <2>2
  <2>5. QED
    BY <2>1, <2>2, <2>3, <2>4
<1>2. /\ Len(id \o <<n, 0>>) = 3 /\ (id \o <<n, 0>>)[1] = id[1]
      /\ (id \o <<n, 0>>)[2] = n
  <2> DEFINE t == <<n, 0>>
  <2>1. t \in Seq(Nat) /\ Len(t) = 2 /\ t[1] = n
    OBVIOUS
  <2> HIDE DEF t
  <2>2. /\ Len(id \o t) = Len(id) + Len(t)
        /\ \A i \in 1 .. Len(id) + Len(t) : (id \o t)[i] =
                     IF i <= Len(id) THEN id[i] ELSE t[i - Len(id)]
    BY <2>1, ConcatProperties
  <2>3. Len(id) + Len(t) = 3 /\ 1 \in 1 .. 3 /\ 2 \in 1 .. 3 /\ 1 <= Len(id) /\ ~(2 <= Len(id))
        /\ 2 - Len(id) = 1
    BY <2>1
  <2>4. (id \o t)[1] = id[1]
    BY <2>2, <2>3
  <2>5. (id \o t)[2] = n
    BY <2>1, <2>2, <2>3
  <2>6. QED
    BY <2>2, <2>3, <2>4, <2>5 DEF t
<1>3. QED
  BY <1>1, <1>2

LEMMA RoleShape ==
    ASSUME IInv, Started, NEW k \in DOMAIN Reqs, NEW n \in Nat
    PROVE  /\ Len(EntryRole(k, n)) = 2 /\ EntryRole(k, n)[1] = Reqs[k].id[1]
           /\ EntryRole(k, n)[2] = n
           /\ Len(FlipRole(k, n)) = 3 /\ FlipRole(k, n)[1] = Reqs[k].id[1]
           /\ FlipRole(k, n)[2] = n
<1>1. Reqs[k].id \in Seq(Nat) /\ Len(Reqs[k].id) = 1
  BY LetIn DEF Requirement, Id
<1>2. QED
  BY <1>1, SuffixShape DEF EntryRole, FlipRole

LEMMA IdsTellApart ==
    ASSUME IInv, Started, NEW k \in DOMAIN Reqs, NEW l \in DOMAIN Reqs,
           Reqs[k].id[1] = Reqs[l].id[1]
    PROVE  k = l
<1>1. /\ Reqs[k].id \in Seq(Nat) /\ Len(Reqs[k].id) = 1
      /\ Reqs[l].id \in Seq(Nat) /\ Len(Reqs[l].id) = 1
  BY LetIn DEF Requirement, Id
<1>2. Reqs[k].id = Reqs[l].id
  BY <1>1, SeqEqual
<1>3. QED
  BY <1>2, LetIn

\* Two probes, two entries, or an entry and its flip have different roles.
LEMMA RolesTellApart ==
    ASSUME IInv, Started, NEW k \in DOMAIN Reqs, NEW l \in DOMAIN Reqs,
           NEW n \in Nat, NEW m \in Nat
    PROVE  /\ EntryRole(k, n) = EntryRole(l, m) => k = l /\ n = m
           /\ FlipRole(k, n) = FlipRole(l, m) => k = l /\ n = m
           /\ EntryRole(k, n) # FlipRole(l, m)
<1>1. /\ Len(EntryRole(k, n)) = 2 /\ EntryRole(k, n)[1] = Reqs[k].id[1]
      /\ EntryRole(k, n)[2] = n
      /\ Len(FlipRole(k, n)) = 3 /\ FlipRole(k, n)[1] = Reqs[k].id[1]
      /\ FlipRole(k, n)[2] = n
  BY RoleShape
<1>2. /\ Len(EntryRole(l, m)) = 2 /\ EntryRole(l, m)[1] = Reqs[l].id[1]
      /\ EntryRole(l, m)[2] = m
      /\ Len(FlipRole(l, m)) = 3 /\ FlipRole(l, m)[1] = Reqs[l].id[1]
      /\ FlipRole(l, m)[2] = m
  BY RoleShape
<1>3. QED
  BY <1>1, <1>2, IdsTellApart

\* A record of which all roles differ stays one when an exchange with a new role is added.
LEMMA DistinctKept ==
    ASSUME NEW s, Exchanges(s), AllDiffer(s), NEW x, ~HasIn(s, x.role),
           NEW t, t = Append(s, x)
    PROVE  /\ AllDiffer(t)
           /\ \A role : HasIn(t, role) => HasIn(s, role) \/ role = x.role
<1>1. \E S : s \in Seq(S)
  BY DEF Exchanges
<1>2. /\ \E S : Append(s, x) \in Seq(S)
      /\ Len(s) \in Nat /\ DOMAIN s = 1 .. Len(s)
      /\ Len(Append(s, x)) = Len(s) + 1 /\ DOMAIN Append(s, x) = 1 .. Len(s) + 1
      /\ \A i \in DOMAIN s : Append(s, x)[i] = s[i]
      /\ Append(s, x)[Len(s) + 1] = x
  BY <1>1, Appended
<1>3. \A i \in DOMAIN t : i \in DOMAIN s \/ i = Len(s) + 1
  BY <1>2
<1>4. ASSUME NEW i \in DOMAIN t, NEW j \in DOMAIN t, t[i].role = t[j].role
      PROVE  i = j
  <2>1. CASE i \in DOMAIN s /\ j \in DOMAIN s
    BY <1>2, <1>4, <2>1 DEF AllDiffer
  <2>2. CASE i = Len(s) + 1 /\ j \in DOMAIN s
    BY <1>2, <1>4, <2>2 DEF HasIn
  <2>3. CASE i \in DOMAIN s /\ j = Len(s) + 1
    BY <1>2, <1>4, <2>3 DEF HasIn
  <2>4. QED
    BY <1>3, <2>1, <2>2, <2>3
<1>5. ASSUME NEW role, HasIn(t, role) PROVE HasIn(s, role) \/ role = x.role
  <2>1. PICK i \in DOMAIN t : t[i].role = role
    BY <1>5 DEF HasIn
  <2>2. QED
    BY <1>2, <1>3, <2>1 DEF HasIn
<1>6. QED
  BY <1>4, <1>5 DEF AllDiffer

LEMMA RolesInit == Init => RInv
<1> SUFFICES ASSUME Init PROVE RInv
  OBVIOUS
<1>1. items = <<>> /\ pc = "asked"
  BY DEF Init
<1>2. DOMAIN items = {}
  BY <1>1
<1>3. QED
  BY <1>1, <1>2 DEF RInv, RolesDistinct, Planned

\* What is recorded of a probe is of that probe for good.
LEMMA StaysOfProbe ==
    ASSUME job' = job, entry' \in Nat, pc \in {"entry", "flip"} => entry \in Nat,
           \A k \in Probes : plan[k].state # "none" =>
               /\ plan'[k].state # "none"
               /\ pc' \in {"entry", "flip"} /\ k = at' =>
                     /\ k = at /\ pc \in {"entry", "flip"} /\ entry <= entry'
                     /\ pc = "flip" => entry < entry',
           NEW role, OfProbe(role)
    PROVE  OfProbe(role)'
<1>1. PICK k \in Probes, n \in Nat :
        /\ plan[k].state # "none" /\ role \in {EntryRole(k, n), FlipRole(k, n)}
        /\ Reached(role, k, n)
  BY DEF OfProbe
<1>2. /\ Probes' = Probes /\ EntryRole(k, n)' = EntryRole(k, n)
      /\ FlipRole(k, n)' = FlipRole(k, n)
  BY DEF Probes, EntryRole, FlipRole, Reqs
<1>3. Reached(role, k, n)'
  BY <1>1, <1>2 DEF Reached
<1>4. plan'[k].state # "none"
  BY <1>1
<1>5. QED
  BY <1>1, <1>2, <1>3, <1>4 DEF OfProbe

\* A step of the observation that records nothing.
LEMMA RolesWithin ==
    ASSUME IInv, RInv, UNCHANGED <<job, items>>, pc \in {"probes", "entry", "flip"},
           pc' \in {"probes", "entry", "flip"}, plan' \in [DOMAIN Reqs -> Plan],
           entry' \in Nat, pc' \in {"entry", "flip"} => plan'[at'].state # "none",
           \A k \in Probes : plan[k].state # "none" =>
               /\ plan'[k].state # "none"
               /\ pc' \in {"entry", "flip"} /\ k = at' =>
                     /\ k = at /\ pc \in {"entry", "flip"} /\ entry <= entry'
                     /\ pc = "flip" => entry < entry'
    PROVE  RInv'
<1>1. Reqs' = Reqs /\ RolesDistinct'
  BY DEF Reqs, RInv, RolesDistinct
<1>2. ASSUME NEW role, HasIn(items', role) PROVE Len(role) = 1 \/ OfProbe(role)'
  <2>1. Len(role) = 1 \/ OfProbe(role)
    BY <1>2 DEF RInv
  <2>2. pc \in {"entry", "flip"} => entry \in Nat
    BY DEF RInv
  <2>3. QED
    BY <2>1, <2>2, StaysOfProbe
<1>3. QED
  BY <1>1, <1>2 DEF RInv

\* A step that records an exchange with a role that is new.
LEMMA RolesRecord ==
    ASSUME IInv, RInv, job' = job, pc \in {"entry", "flip"}, pc' \in {"entry", "flip"},
           UNCHANGED <<plan, at>>, entry' \in Nat, entry <= entry', pc = "flip" => entry < entry',
           NEW x, items' = Append(items, x), ~HasIn(items, x.role), OfProbe(x.role)'
    PROVE  RInv'
<1>1. Exchanges(items) /\ AllDiffer(items)
  BY DEF IInv, RInv, RolesDistinct, AllDiffer
<1>2. /\ AllDiffer(items')
      /\ \A role : HasIn(items', role) => HasIn(items, role) \/ role = x.role
  BY <1>1, DistinctKept
<1>3. ASSUME NEW role, HasIn(items', role) PROVE Len(role) = 1 \/ OfProbe(role)'
  <2>1. CASE role = x.role
    BY <2>1
  <2>2. CASE HasIn(items, role)
    <3>1. Len(role) = 1 \/ OfProbe(role)
      BY <2>2 DEF RInv
    <3>2. entry \in Nat
      BY DEF RInv
    <3>3. QED
      BY <3>1, <3>2, StaysOfProbe
  <2>3. QED
    BY <1>2, <1>3, <2>1, <2>2
<1>4. Reqs' = Reqs /\ plan \in [DOMAIN Reqs -> Plan] /\ plan[at].state # "none"
  BY DEF Reqs, RInv, Planned
<1>5. RolesDistinct'
  BY <1>2 DEF RolesDistinct, AllDiffer
<1>6. QED
  BY <1>3, <1>4, <1>5 DEF RInv

LEMMA RolesStartRow == ASSUME IInv, StartRow PROVE RInv'
<1>1. /\ items' = <<>> /\ pc' = "target" /\ Reqs' = Reqs
      /\ plan' = [i \in DOMAIN Reqs |-> NoPlan]
  BY DEF StartRow, asking, Reqs
<1>2. DOMAIN items' = {}
  BY <1>1
<1>3. NoPlan \in Plan
  BY DEF NoPlan, Plan
<1>4. plan' \in [DOMAIN Reqs -> Plan]
  BY <1>1, <1>3
<1>5. QED
  BY <1>1, <1>2, <1>4 DEF RInv, RolesDistinct, HasIn

\* The steps up to the probes that record nothing, and those that leave the observation.
LEMMA RolesOutside ==
    ASSUME IInv, RInv, UNCHANGED <<job, items, plan>>,
           \/ pc' \in {"row", "over", "judge"}
           \/ pc \in {"target", "endpoints"} /\ pc' \in {"endpoints", "probes"}
    PROVE  RInv'
<1>1. Reqs' = Reqs /\ RolesDistinct'
  BY DEF Reqs, RInv, RolesDistinct
<1>2. CASE pc' \in {"row", "over", "judge"}
  BY <1>1, <1>2 DEF RInv, Planned
<1>3. CASE pc \in {"target", "endpoints"} /\ pc' \in {"endpoints", "probes"}
  <2>1. plan \in [DOMAIN Reqs -> Plan] /\ \A role : HasIn(items, role) => Len(role) = 1
    BY <1>3 DEF RInv, Planned
  <2>2. QED
    BY <1>1, <1>3, <2>1 DEF RInv
<1>4. QED
  BY <1>2, <1>3

LEMMA RolesEndpoint ==
    ASSUME IInv, RInv, NEW a \in Answers, ObserveEndpoint(a) PROVE RInv'
<1> DEFINE req == Reqs[at]
<1>1. /\ pc = "endpoints" /\ pc' = pc /\ at <= Len(Reqs)
      /\ Observe(req.id, Url(req, scope), a) /\ UNCHANGED <<job, plan>>
  BY DEF ObserveEndpoint, asking
<1>2. /\ at \in 1 .. Len(Reqs) + 1 /\ \A k \in at .. Len(Reqs) : ~HasIn(items, Reqs[k].id)
      /\ Exchanges(items)
  BY <1>1 DEF IInv, OnTrail
<1>3. /\ Len(Reqs) \in Nat /\ DOMAIN Reqs = 1 .. Len(Reqs)
      /\ \A k \in DOMAIN Reqs : Len(Reqs[k].id) = 1
  BY <1>1, LetIn DEF Started
<1>4. PICK x : items' = Append(items, x) /\ x.role = req.id
  BY <1>1, ObserveRecords
<1>5. ~HasIn(items, x.role) /\ Len(x.role) = 1
  BY <1>1, <1>2, <1>3, <1>4
<1>6. AllDiffer(items)
  BY DEF RInv, RolesDistinct, AllDiffer
<1>7. AllDiffer(items') /\ \A role : HasIn(items', role) => HasIn(items, role) \/ role = x.role
  BY <1>2, <1>4, <1>5, <1>6, DistinctKept
<1>8. \A role : HasIn(items, role) => Len(role) = 1
  BY <1>1 DEF RInv
<1>9. Reqs' = Reqs /\ plan \in [DOMAIN Reqs -> Plan]
  BY <1>1 DEF RInv, Planned, Reqs
<1>10. RolesDistinct'
  BY <1>7 DEF RolesDistinct, AllDiffer
<1>11. QED
  BY <1>1, <1>5, <1>7, <1>8, <1>9, <1>10 DEF RInv

LEMMA PlanMoves ==
    ASSUME NEW D, NEW p \in [D -> Plan], NEW k \in D,
           NEW st \in {"exempt", "unresolved", "probed"}, NEW q, q = [p EXCEPT ![k].state = st]
    PROVE  /\ q \in [D -> Plan] /\ q[k].state # "none"
           /\ \A i \in D : i # k => q[i] = p[i]
<1>1. p[k] \in Plan
  OBVIOUS
<1>2. [p[k] EXCEPT !.state = st] \in Plan /\ [p[k] EXCEPT !.state = st].state = st
  BY <1>1 DEF Plan
<1>3. QED
  BY <1>2

LEMMA PlanRefuses ==
    ASSUME NEW D, NEW p \in [D -> Plan], NEW k \in D, NEW n \in Nat
    PROVE  /\ [p EXCEPT ![k].refused = @ \cup {n}] \in [D -> Plan]
           /\ \A i \in D : [p EXCEPT ![k].refused = @ \cup {n}][i].state = p[i].state
<1>1. p[k] \in Plan
  OBVIOUS
<1>2. /\ [p[k] EXCEPT !.refused = @ \cup {n}] \in Plan
      /\ [p[k] EXCEPT !.refused = @ \cup {n}].state = p[k].state
  BY <1>1 DEF Plan
<1>3. QED
  BY <1>2

\* The ways in which the observer deals with an entry.
LEMMA EntryCases ==
    ASSUME NEW a, ObserveEntry(a)
    PROVE  LET req == Reqs[at]
               e   == Declared(req)[entry]
           IN  \/ pc' = "probes" /\ UNCHANGED <<items, used, plan, entry>>
               \/ /\ pc' = "entry" /\ entry' = entry + 1 /\ UNCHANGED <<items, used>>
                  /\ plan' = [plan EXCEPT ![at].refused = @ \cup {entry}]
               \/ /\ pc' = "probes" /\ UNCHANGED <<items, used, entry>>
                  /\ plan' = [plan EXCEPT ![at].state = "unresolved"]
               \/ /\ ~(entry > Len(Declared(req))) /\ e.local /\ plan' = plan
                  /\ Observe(Append(req.id, entry), e.url, a)
                  /\ (pc' = "flip" /\ entry' = entry) \/ (pc' = "entry" /\ entry' = entry + 1)
<1> DEFINE req == Reqs[at]
           e == Declared(req)[entry]
<1>1. pc = "entry"
  BY DEF ObserveEntry
<1>2. CASE entry > Len(Declared(req))
  BY <1>2 DEF ObserveEntry, NextProbe
<1>3. CASE ~(entry > Len(Declared(req)))
  <2>1. \/ /\ plan' = [plan EXCEPT ![at].refused = @ \cup {entry}]
           /\ entry' = entry + 1 /\ UNCHANGED <<pc, items, used>>
        \/ /\ plan' = [plan EXCEPT ![at].state = "unresolved"]
           /\ NextProbe /\ UNCHANGED <<items, used>>
        \/ /\ e.local /\ Observe(Append(req.id, entry), e.url, a)
           /\ IF req.mustServeOk THEN pc' = "flip" /\ UNCHANGED entry
                                 ELSE entry' = entry + 1 /\ UNCHANGED pc
           /\ UNCHANGED plan
    BY <1>3 DEF ObserveEntry
  <2>2. CASE /\ plan' = [plan EXCEPT ![at].refused = @ \cup {entry}]
             /\ entry' = entry + 1 /\ UNCHANGED <<pc, items, used>>
    BY <1>1, <2>2
  <2>3. CASE /\ plan' = [plan EXCEPT ![at].state = "unresolved"]
             /\ NextProbe /\ UNCHANGED <<items, used>>
    BY <1>1, <2>3 DEF NextProbe
  <2>4. CASE /\ e.local /\ Observe(Append(req.id, entry), e.url, a)
             /\ IF req.mustServeOk THEN pc' = "flip" /\ UNCHANGED entry
                                   ELSE entry' = entry + 1 /\ UNCHANGED pc
             /\ UNCHANGED plan
    BY <1>1, <1>3, <2>4
  <2>5. QED
    BY <2>1, <2>2, <2>3, <2>4
<1>4. QED
  BY <1>2, <1>3

\* And what a probe is planned as.
LEMMA PlanCases ==
    ASSUME PlanProbe
    PROVE  \E i \in Unplanned, st \in {"exempt", "unresolved", "probed"} :
              /\ at' = i /\ plan' = [plan EXCEPT ![i].state = st]
              /\ pc' = IF st = "probed" THEN "entry" ELSE pc
              /\ st = "exempt" => ~Applies(Reqs[i])
              /\ st = "probed" => ~(Len(Declared(Reqs[i])) < Reqs[i].min)
<1> DEFINE St(i) == CASE ~Applies(Reqs[i]) -> "exempt"
                      [] Applies(Reqs[i]) /\ Len(Declared(Reqs[i])) < Reqs[i].min -> "unresolved"
                      [] OTHER -> "probed"
<1>1. PICK i \in Unplanned :
        /\ at' = i
        /\ plan' = [plan EXCEPT ![i].state = St(i)]
        /\ pc' = IF St(i) = "probed" THEN "entry" ELSE pc
  BY DEF PlanProbe
<1>2. /\ St(i) \in {"exempt", "unresolved", "probed"}
      /\ St(i) = "exempt" => ~Applies(Reqs[i])
      /\ St(i) = "probed" => ~(Len(Declared(Reqs[i])) < Reqs[i].min)
  OBVIOUS
<1> HIDE DEF St
<1>3. QED
  BY <1>1, <1>2

\* A probe that is planned was not: nothing is recorded of it.
LEMMA RolesPlan == ASSUME IInv, RInv, PlanProbe PROVE RInv'
<1>1. /\ pc = "probes" /\ entry' = 1 /\ UNCHANGED <<job, items>>
  BY DEF PlanProbe, asking, observed
<1>2. PICK i \in Unplanned, st \in {"exempt", "unresolved", "probed"} :
        /\ at' = i /\ plan' = [plan EXCEPT ![i].state = st]
        /\ pc' = IF st = "probed" THEN "entry" ELSE pc
  BY PlanCases
<1>3. plan \in [DOMAIN Reqs -> Plan]
  BY <1>1 DEF RInv, Planned
<1>4. i \in DOMAIN Reqs /\ plan[i].state = "none" /\ Probes \subseteq DOMAIN Reqs
  BY DEF Unplanned, Probes
<1>5. /\ plan' \in [DOMAIN Reqs -> Plan] /\ plan'[i].state # "none"
      /\ \A k \in DOMAIN Reqs : k # i => plan'[k] = plan[k]
  <2> DEFINE D == DOMAIN Reqs
  <2>1. plan \in [D -> Plan] /\ i \in D /\ plan' = [plan EXCEPT ![i].state = st]
    BY <1>2, <1>3, <1>4
  <2> HIDE DEF D
  <2>2. plan' \in [D -> Plan] /\ plan'[i].state # "none" /\ \A k \in D : k # i => plan'[k] = plan[k]
    BY <2>1, PlanMoves
  <2>3. QED
    BY <2>2 DEF D
<1>6. \A k \in Probes : plan[k].state # "none" => plan'[k].state # "none" /\ k # at'
  BY <1>2, <1>4, <1>5
<1>7. pc' \in {"probes", "entry"} /\ entry' \in Nat
  BY <1>1, <1>2
<1>8. plan'[at'].state # "none"
  BY <1>2, <1>5
<1>9. QED
  BY <1>1, <1>5, <1>6, <1>7, <1>8, RolesWithin

LEMMA RolesEntry == ASSUME IInv, RInv, NEW a \in Answers, ObserveEntry(a) PROVE RInv'
<1> DEFINE req == Reqs[at]
           e == Declared(req)[entry]
<1>1. pc = "entry" /\ UNCHANGED <<job, at>>
  BY DEF ObserveEntry, asking
<1>2. /\ at \in Probes /\ at \in DOMAIN Reqs /\ entry \in Nat /\ plan[at].state # "none"
      /\ plan \in [DOMAIN Reqs -> Plan] /\ Probes \subseteq DOMAIN Reqs
  BY <1>1 DEF IInv, RInv, AdmittedRight, Probes, Planned
<1>3. \/ pc' = "probes" /\ UNCHANGED <<items, plan, entry>>
      \/ /\ pc' = "entry" /\ entry' = entry + 1 /\ items' = items
         /\ plan' = [plan EXCEPT ![at].refused = @ \cup {entry}]
      \/ /\ pc' = "probes" /\ UNCHANGED <<items, entry>>
         /\ plan' = [plan EXCEPT ![at].state = "unresolved"]
      \/ /\ Observe(Append(req.id, entry), e.url, a) /\ plan' = plan
         /\ (pc' = "flip" /\ entry' = entry) \/ (pc' = "entry" /\ entry' = entry + 1)
  BY EntryCases
<1>4. CASE pc' = "probes" /\ UNCHANGED <<items, plan, entry>>
  BY <1>1, <1>2, <1>4, RolesWithin
<1>5. CASE /\ pc' = "entry" /\ entry' = entry + 1 /\ items' = items
           /\ plan' = [plan EXCEPT ![at].refused = @ \cup {entry}]
  <2>1. /\ plan' \in [DOMAIN Reqs -> Plan]
        /\ \A i \in DOMAIN Reqs : plan'[i].state = plan[i].state
    BY <1>2, <1>5, PlanRefuses
  <2>2. plan'[at'].state # "none" /\ \A k \in Probes : plan'[k].state = plan[k].state
    BY <1>1, <1>2, <2>1
  <2>3. entry' \in Nat /\ entry <= entry'
    BY <1>2, <1>5
  <2>4. QED
    BY <1>1, <1>5, <2>1, <2>2, <2>3, RolesWithin
<1>6. CASE /\ pc' = "probes" /\ UNCHANGED <<items, entry>>
           /\ plan' = [plan EXCEPT ![at].state = "unresolved"]
  <2>1. /\ plan' \in [DOMAIN Reqs -> Plan] /\ plan'[at].state # "none"
        /\ \A k \in DOMAIN Reqs : k # at => plan'[k] = plan[k]
    BY <1>2, <1>6, PlanMoves
  <2>2. \A k \in Probes : plan[k].state # "none" => plan'[k].state # "none"
    BY <1>2, <2>1
  <2>3. QED
    BY <1>1, <1>2, <1>6, <2>1, <2>2, RolesWithin
<1>7. CASE /\ Observe(Append(req.id, entry), e.url, a) /\ plan' = plan
           /\ (pc' = "flip" /\ entry' = entry) \/ (pc' = "entry" /\ entry' = entry + 1)
  <2>1. PICK x : items' = Append(items, x) /\ x.role = EntryRole(at, entry)
    BY <1>7, ObserveRecords DEF EntryRole
  <2>2. ~HasIn(items, x.role)
    <3>1. SUFFICES ASSUME HasIn(items, EntryRole(at, entry)) PROVE FALSE
      BY <2>1
    <3>2. Len(EntryRole(at, entry)) = 2
      BY <1>1, <1>2, RoleShape DEF Started
    <3>3. OfProbe(EntryRole(at, entry))
      BY <1>1, <3>1, <3>2 DEF RInv
    <3>4. PICK k \in Probes, n \in Nat :
            /\ EntryRole(at, entry) \in {EntryRole(k, n), FlipRole(k, n)}
            /\ Reached(EntryRole(at, entry), k, n)
      BY <3>3 DEF OfProbe
    <3>5. k = at /\ n = entry
      BY <1>1, <1>2, <3>4, RolesTellApart DEF Started
    <3>6. QED
      BY <1>1, <1>2, <3>4, <3>5 DEF Reached
  <2>3. OfProbe(x.role)'
    <3>1. /\ Probes' = Probes /\ EntryRole(at, entry) = Append(Reqs[at].id, entry)
          /\ Reqs' = Reqs
      BY <1>1 DEF Probes, EntryRole, Reqs
    <3>2. PICK k \in Probes, n \in Nat :
            k = at /\ n = entry /\ x.role = Append(Reqs[k].id, n)
      BY <1>2, <2>1, <3>1
    <3>3. EntryRole(k, n)' = x.role
      BY <3>1, <3>2 DEF EntryRole
    <3>4. Reached(x.role, k, n)'
      BY <1>1, <1>2, <1>7, <3>2, <3>3 DEF Reached
    <3>5. plan'[k].state # "none"
      BY <1>2, <1>7, <3>2
    <3>6. QED
      BY <3>1, <3>3, <3>4, <3>5 DEF OfProbe
  <2>4. entry' \in Nat /\ entry <= entry' /\ pc' \in {"entry", "flip"}
    BY <1>2, <1>7
  <2>5. QED
    BY <1>1, <1>7, <2>1, <2>2, <2>3, <2>4, RolesRecord
<1>8. QED
  BY <1>3, <1>4, <1>5, <1>6, <1>7

LEMMA RolesFlip == ASSUME IInv, RInv, NEW a \in Answers, ObserveFlip(a) PROVE RInv'
<1> DEFINE req == Reqs[at]
<1>1. /\ pc = "flip" /\ pc' = "entry" /\ entry' = entry + 1 /\ UNCHANGED <<job, at, plan>>
      /\ Observe(req.id \o <<entry, 0>>, Declared(req)[entry].path, a)
  BY DEF ObserveFlip, asking
<1>2. /\ at \in Probes /\ at \in DOMAIN Reqs /\ entry \in Nat /\ plan[at].state # "none"
      /\ Probes \subseteq DOMAIN Reqs
  BY <1>1 DEF IInv, RInv, AdmittedRight, Probes
<1>3. PICK x : items' = Append(items, x) /\ x.role = FlipRole(at, entry)
  <2> DEFINE role == req.id \o <<entry, 0>>
             url == Declared(req)[entry].path
  <2>1. Observe(role, url, a) /\ role = FlipRole(at, entry)
    BY <1>1 DEF FlipRole
  <2> HIDE DEF role, url
  <2>2. QED
    BY <2>1, ObserveRecords
<1>4. ~HasIn(items, x.role)
  <2>1. SUFFICES ASSUME HasIn(items, FlipRole(at, entry)) PROVE FALSE
    BY <1>3
  <2>2. Len(FlipRole(at, entry)) = 3
    BY <1>1, <1>2, RoleShape DEF Started
  <2>3. OfProbe(FlipRole(at, entry))
    BY <1>1, <2>1, <2>2 DEF RInv
  <2>4. PICK k \in Probes, n \in Nat :
          /\ FlipRole(at, entry) \in {EntryRole(k, n), FlipRole(k, n)}
          /\ Reached(FlipRole(at, entry), k, n)
    BY <2>3 DEF OfProbe
  <2>5. k = at /\ n = entry /\ FlipRole(at, entry) # EntryRole(k, n)
    BY <1>1, <1>2, <2>4, RolesTellApart DEF Started
  <2>6. QED
    BY <1>1, <1>2, <2>4, <2>5 DEF Reached
<1>5. OfProbe(x.role)'
  <2>1. Probes' = Probes /\ Reqs' = Reqs /\ x.role = Reqs[at].id \o <<entry, 0>>
    BY <1>1, <1>3 DEF Probes, FlipRole, Reqs
  <2>2. PICK k \in Probes, n \in Nat :
          k = at /\ n = entry /\ x.role = Reqs[k].id \o <<n, 0>>
    BY <1>2, <2>1
  <2>3. FlipRole(k, n)' = x.role
    BY <2>1, <2>2 DEF FlipRole
  <2>4. Reached(x.role, k, n)'
    BY <1>1, <1>2, <2>2 DEF Reached
  <2>5. plan'[k].state # "none"
    BY <1>1, <1>2, <2>2
  <2>6. QED
    BY <2>1, <2>3, <2>4, <2>5 DEF OfProbe
<1>6. entry' \in Nat /\ entry < entry' /\ entry <= entry'
  BY <1>1, <1>2
<1>7. QED
  BY <1>1, <1>3, <1>4, <1>5, <1>6, RolesRecord

LEMMA RolesNext == IInv /\ RInv /\ [Next]_vars => RInv'
<1> SUFFICES ASSUME IInv, RInv, [Next]_vars PROVE RInv'
  OBVIOUS
<1>1. CASE Admit
  <2>1. UNCHANGED <<job, items, plan>> /\ pc' \in {"row", "over"}
    BY <1>1 DEF Admit, asking, observed
  <2>2. QED
    BY <2>1, RolesOutside
<1>2. CASE StartRow
  BY <1>2, RolesStartRow
<1>3. CASE RefuseRow \/ Report
  <2>1. UNCHANGED <<job, items, plan>> /\ \E verdict : Advance(verdict)
    BY <1>3 DEF RefuseRow, Report, asking, observed
  <2>2. pc' \in {"row", "over"}
    BY <2>1 DEF Advance
  <2>3. QED
    BY <2>1, <2>2, RolesOutside
<1>4. CASE ObserveTarget
  <2>1. UNCHANGED <<job, items, plan>> /\ pc = "target" /\ pc' = "endpoints"
    BY <1>4 DEF ObserveTarget, asking
  <2>2. QED
    BY <2>1, RolesOutside
<1>5. CASE SkipOthers
  <2>1. UNCHANGED <<job, items, plan>> /\ pc = "endpoints" /\ pc' = "endpoints"
    BY <1>5 DEF SkipOthers, asking, observed
  <2>2. QED
    BY <2>1, RolesOutside
<1>6. CASE EndpointsObserved
  <2>1. UNCHANGED <<job, items, plan>> /\ pc = "endpoints" /\ pc' = "probes"
    BY <1>6 DEF EndpointsObserved, asking, observed
  <2>2. QED
    BY <2>1, RolesOutside
<1>7. CASE PlanProbe
  BY <1>7, RolesPlan
<1>8. CASE ProbesObserved \/ Judge
  <2>1. UNCHANGED <<job, items, plan>> /\ pc' = "judge"
    BY <1>8 DEF ProbesObserved, Judge, asking, observed
  <2>2. QED
    BY <2>1, RolesOutside
<1>9. ASSUME NEW a \in Answers, ObserveEndpoint(a) PROVE RInv'
  BY <1>9, RolesEndpoint
<1>10. ASSUME NEW a \in Answers, ObserveEntry(a) PROVE RInv'
  BY <1>10, RolesEntry
<1>11. ASSUME NEW a \in Answers, ObserveFlip(a) PROVE RInv'
  BY <1>11, RolesFlip
<1>12. CASE UNCHANGED vars
  <2>1. UNCHANGED <<job, pc, items, at, entry, plan>>
    BY <1>12 DEF vars, asking, observed
  <2>2. CASE pc \in {"probes", "entry", "flip"}
    <3>1. ASSUME NEW role, OfProbe(role) PROVE OfProbe(role)'
      <4>1. PICK k \in Probes, n \in Nat :
              /\ plan[k].state # "none" /\ role \in {EntryRole(k, n), FlipRole(k, n)}
              /\ Reached(role, k, n)
        BY <3>1 DEF OfProbe
      <4>2. /\ Probes' = Probes /\ EntryRole(k, n)' = EntryRole(k, n)
            /\ FlipRole(k, n)' = FlipRole(k, n)
        BY <2>1 DEF Probes, EntryRole, FlipRole, Reqs
      <4>3. Reached(role, k, n)'
        BY <2>1, <4>1, <4>2 DEF Reached
      <4>4. plan'[k].state # "none"
        BY <2>1, <4>1
      <4>5. QED
        BY <4>1, <4>2, <4>3, <4>4 DEF OfProbe
    <3>2. /\ RolesDistinct /\ plan \in [DOMAIN Reqs -> Plan]
          /\ \A role : HasIn(items, role) => Len(role) = 1 \/ OfProbe(role)
          /\ pc \in {"entry", "flip"} => entry \in Nat /\ plan[at].state # "none"
      BY <2>2 DEF RInv, Planned
    <3>3. Reqs' = Reqs /\ RolesDistinct'
      BY <2>1, <3>2 DEF Reqs, RolesDistinct
    <3>4. QED
      BY <2>1, <2>2, <3>1, <3>2, <3>3 DEF RInv
  <2>3. CASE pc \notin {"probes", "entry", "flip"}
    <3>1. Reqs' = Reqs /\ RolesDistinct'
      BY <2>1 DEF Reqs, RInv, RolesDistinct
    <3>2. QED
      BY <2>1, <2>3, <3>1 DEF RInv, Planned
  <2>4. QED
    BY <2>2, <2>3
<1>13. QED
  BY <1>1, <1>2, <1>3, <1>4, <1>5, <1>6, <1>7, <1>8, <1>9, <1>10, <1>11, <1>12 DEF Next

\* Whatever a document asks, whatever a card declares and however often, no two exchanges of a
\* run have the same role: the answer of one requirement is never taken for another's.
THEOREM NoTwoShareARole == Spec => []RolesDistinct
<1>1. RInv => RolesDistinct
  BY DEF RInv
<1>2. QED
  BY <1>1, InvInit, InvNext, RolesInit, RolesNext, PTL DEF Spec
-----------------------------------------------------------------------------
(* What is recorded and why, and what the judge made of it.                  *)

Probing == pc \in {"probes", "entry", "flip", "judge"}
Verdict == [verdict : {"pass", "fail"}, exempt : BOOLEAN]

\* The exchanges that were sent.
Sent(s) == {i \in DOMAIN s : s[i].status # "none"}
Recorded(x) ==
    x.role \in Id /\ x.status \in Status /\ x.value \in Maybe(Values) /\ x.cut \in BOOLEAN

\* The entry is declared, on the origin of the target.
Local(k, n) == n \in DOMAIN Declared(Reqs[k]) /\ Declared(Reqs[k])[n].local

\* What an exchange was made for: an endpoint whose path stays on the origin, or an entry.
Warranted(reqs, m, x) ==
    \E k \in DOMAIN reqs :
        \/ reqs[k].kind = "endpoint" /\ x.role = reqs[k].id /\ x.url[2] \notin Foreign
        \/ /\ reqs[k].kind = "probe"
           /\ \E e \in ToSet(m[reqs[k].channel]) : e.local /\ x.url \in {e.url, e.path}

TInv ==
    /\ row \in 1 .. Len(job.rows) + 1 /\ entry \in Nat /\ manifest \in Manifests
    /\ card \in {"unreadable", "declared", "absent"} /\ surface \in {"pass", "fail", "skip"}
    /\ used \in 0 .. Budget /\ Cardinality(Sent(items)) <= used
    /\ \A i \in DOMAIN items : Recorded(items[i]) /\ Warranted(Reqs, manifest, items[i])
    /\ plan = <<>> \/ plan \in [DOMAIN Reqs -> Plan]
    /\ results \in Seq(Verdict)
    /\ outcomes \in Seq({"passed", "failed", "error"})
    /\ outcome \in {"none", "threw", "passed", "failed"}
    /\ pc \in {"entry", "flip"} => entry >= 1
    /\ pc = "flip" => Local(at, entry)

\* Source and Applies, of any document, record and card.
Candidates(reqs, ch) == {i \in DOMAIN reqs : reqs[i].kind = "probe" /\ reqs[i].channel = ch}
SourceIn(reqs, s, ch) ==
    IF Candidates(reqs, ch) # {}
    THEN EvidenceIn(s, Append(reqs[Min(Candidates(reqs, ch))].id, 1)) ELSE NoBody
AppliesIn(reqs, s, c, req) ==
    CASE req.applies.arm = "probe" ->
            SourceIn(reqs, s, req.applies.from).value \in {None, req.applies.equals}
      [] req.applies.arm = "card" -> c # "absent"
      [] OTHER -> TRUE

\* A probe that is exempt was not asked, one that is asked has its entries declared, and
\* what is recorded of an entry was asked where the manifest has it.
ExemptUnasked ==
    \A k \in Probes : plan[k].state = "exempt" =>
        ~AppliesIn(Reqs, items, card, Reqs[k]) /\ \A n \in Nat : ~HasIn(items, EntryRole(k, n))
EnoughDeclared ==
    \A k \in Probes : plan[k].state = "probed" => Len(Declared(Reqs[k])) >= Reqs[k].min
AskedWhereDeclared ==
    \A k \in Probes, n \in Nat, i \in DOMAIN items : items[i].role = EntryRole(k, n) =>
        Local(k, n) /\ items[i].url = Declared(Reqs[k])[n].url

\* What a verdict says of the record.
ExemptBy(k) ==
    \/ Reqs[k].kind = "probe" /\ plan[k].state = "exempt"
    \/ Reqs[k].kind = "check" /\ ~AppliesIn(Reqs, items, card, Reqs[k])
MetBy(k) ==
    /\ Reqs[k].kind = "endpoint" => EvidenceIn(items, Reqs[k].id).status = "200"
    /\ Reqs[k].kind = "probe" =>
          /\ plan[k].state = "probed"
          /\ \A n \in DOMAIN Declared(Reqs[k]) : EvidenceIn(items, EntryRole(k, n)).status = "200"
JudgedBy(k) ==
    /\ results[k].exempt <=> ExemptBy(k)
    /\ results[k].verdict = "pass" /\ ~results[k].exempt => MetBy(k)

PInv ==
    /\ Started => plan \in [DOMAIN Reqs -> Plan]
    /\ pc \in {"target", "endpoints"} => \A k \in DOMAIN Reqs : plan[k].state = "none"
    /\ Probing => ExemptUnasked /\ EnoughDeclared /\ AskedWhereDeclared
    /\ pc \in {"entry", "flip"} => plan[at].state = "probed"
    /\ Started /\ pc # "judge" => results = <<>>
    /\ pc = "judge" => Len(results) = at - 1 /\ \A k \in 1 .. at - 1 : JudgedBy(k)

-----------------------------------------------------------------------------
(* What a probe declares                                                     *)

\* Deduplication keeps entries of the card, and no two of one URL.
LEMMA DedupedIs ==
    ASSUME NEW S, NEW entries \in Seq(S)
    PROVE  /\ Len(Deduped(entries)) \in Nat
           /\ DOMAIN Deduped(entries) = 1 .. Len(Deduped(entries))
           /\ \A n \in DOMAIN Deduped(entries) :
                 \E j \in DOMAIN entries : Deduped(entries)[n] = entries[j]
           /\ \A n, m \in DOMAIN Deduped(entries) :
                 Deduped(entries)[n].url = Deduped(entries)[m].url => n = m
<1> DEFINE firsts == {i \in DOMAIN entries :
                         \A j \in 1 .. i - 1 : entries[j].url # entries[i].url}
           Nth(n) == CHOOSE i \in firsts : Cardinality({j \in firsts : j < i}) = n - 1
           Likes(i) == {j \in DOMAIN entries : entries[j].url = entries[i].url}
           LastLike(i) == CHOOSE j \in DOMAIN entries :
                             /\ entries[j].url = entries[i].url
                             /\ \A l \in j + 1 .. Len(entries) : entries[l].url # entries[i].url
           c == Cardinality(firsts)
           d == [n \in 1 .. c |-> entries[LastLike(Nth(n))]]
           L == LessPairs(firsts)
<1>1. Len(entries) \in Nat /\ DOMAIN entries = 1 .. Len(entries)
  BY LenProperties
<1>2. IsFiniteSet(firsts) /\ firsts \subseteq Nat /\ firsts \subseteq DOMAIN entries
  <2>1. IsFiniteSet(1 .. Len(entries))
    BY <1>1, FS_Interval
  <2>2. firsts \in SUBSET (1 .. Len(entries))
    BY <1>1
  <2> HIDE DEF firsts
  <2>3. IsFiniteSet(firsts)
    BY <2>1, <2>2, FS_Subset
  <2>4. QED
    BY <1>1, <2>2, <2>3
<1>3. /\ StrictlyOrders(L, firsts) /\ \A n : Placed(L, firsts, n) = Nth(n)
  <2> DEFINE F == firsts
  <2>1. IsFiniteSet(F) /\ F \subseteq Nat
    BY <1>2
  <2> HIDE DEF F
  <2>2. StrictlyOrders(LessPairs(F), F)
        /\ \A i : Placed(LessPairs(F), F, i)
                    = CHOOSE s \in F : Cardinality({o \in F : o < s}) = i - 1
    BY <2>1, NumbersCountedOff
  <2>3. QED
    BY <2>2 DEF F
<1>4. /\ c \in Nat /\ \A n \in 1 .. c : Nth(n) \in firsts
      /\ \A n, m \in 1 .. c : n < m => Nth(n) < Nth(m)
  <2> HIDE DEF firsts, Nth
  <2> DEFINE Q == LessPairs(firsts)
  <2>1. StrictlyOrders(Q, firsts) /\ IsFiniteSet(firsts)
    BY <1>2, <1>3
  <2>2. /\ Cardinality(firsts) \in Nat
        /\ \A n \in 1 .. Cardinality(firsts) : Placed(Q, firsts, n) \in firsts
        /\ \A n, m \in 1 .. Cardinality(firsts) :
              n < m => <<Placed(Q, firsts, n), Placed(Q, firsts, m)>> \in Q
    <3> HIDE DEF Q
    <3>1. QED
      BY <2>1, CountedOff
  <2>3. \A n, m : <<n, m>> \in Q => n < m
    BY DEF LessPairs
  <2>4. QED
    BY <1>3, <2>2, <2>3
<1>5. ASSUME NEW i \in DOMAIN entries
      PROVE  LastLike(i) \in DOMAIN entries /\ entries[LastLike(i)].url = entries[i].url
  <2>1. Likes(i) \subseteq Nat /\ Likes(i) # {} /\ \A j \in Likes(i) : j <= Len(entries)
    BY <1>1
  <2>2. PICK j \in Likes(i) : \A l \in Likes(i) : l <= j
    <3> DEFINE T == Likes(i)
    <3>1. T \subseteq Nat /\ T # {} /\ \A j \in T : j <= Len(entries)
      BY <2>1
    <3> HIDE DEF T
    <3>2. \E x \in T : \A y \in T : y <= x
      BY <1>1, <3>1, GreatestExists
    <3>3. QED
      BY <3>2 DEF T
  <2>3. ASSUME NEW l \in j + 1 .. Len(entries) PROVE entries[l].url # entries[i].url
    <3>1. l \in DOMAIN entries /\ ~(l <= j)
      BY <1>1
    <3>2. l \notin Likes(i)
      BY <2>2, <3>1
    <3>3. QED
      BY <3>1, <3>2
  <2>4. j \in DOMAIN entries /\ entries[j].url = entries[i].url
    OBVIOUS
  <2>5. \E k \in DOMAIN entries :
           /\ entries[k].url = entries[i].url
           /\ \A l \in k + 1 .. Len(entries) : entries[l].url # entries[i].url
    BY <2>3, <2>4
  <2>6. QED
    BY <2>5
<1>6. Deduped(entries) = d
  BY DEF Deduped
<1>7. ASSUME NEW n \in 1 .. c, NEW m \in 1 .. c, d[n].url = d[m].url PROVE n = m
  <2>1. /\ Nth(n) \in firsts /\ Nth(m) \in firsts
        /\ Nth(n) \in DOMAIN entries /\ Nth(m) \in DOMAIN entries
    BY <1>2, <1>4
  <2>2. entries[Nth(n)].url = entries[Nth(m)].url
    <3>1. d[n] = entries[LastLike(Nth(n))] /\ d[m] = entries[LastLike(Nth(m))]
      OBVIOUS
    <3> HIDE DEF d, LastLike
    <3>2. QED
      BY <1>5, <1>7, <2>1, <3>1
  <2>3. Nth(n) = Nth(m)
    <3> DEFINE p == Nth(n)
               q == Nth(m)
    <3>1. /\ p \in DOMAIN entries /\ q \in DOMAIN entries /\ entries[p].url = entries[q].url
          /\ \A j \in 1 .. p - 1 : entries[j].url # entries[p].url
          /\ \A j \in 1 .. q - 1 : entries[j].url # entries[q].url
      BY <2>1, <2>2
    <3> HIDE DEF p, q
    <3>2. p = q
      <4>1. p \in Nat /\ q \in Nat /\ 1 <= p /\ 1 <= q
        BY <1>1, <3>1
      <4>2. ~(p < q)
        BY <3>1, <4>1
      <4>3. ~(q < p)
        BY <3>1, <4>1
      <4>4. QED
        BY <4>1, <4>2, <4>3
    <3>3. QED
      BY <3>2 DEF p, q
  <2>4. Nth(n) \in Nat /\ ~(n < m) /\ ~(m < n)
    <3> HIDE DEF firsts, Nth, c
    <3>1. QED
      BY <1>2, <1>4, <2>1, <2>3
  <2>5. QED
    BY <1>4, <2>4
<1>8. \A n \in 1 .. c : \E j \in DOMAIN entries : d[n] = entries[j]
  <2>1. SUFFICES ASSUME NEW n \in 1 .. c PROVE \E j \in DOMAIN entries : d[n] = entries[j]
    OBVIOUS
  <2>2. Nth(n) \in DOMAIN entries
    BY <1>2, <1>4
  <2>3. d[n] = entries[LastLike(Nth(n))]
    OBVIOUS
  <2> HIDE DEF d, LastLike, Nth
  <2>4. QED
    BY <1>5, <2>2, <2>3
<1>9. Len(d) = c /\ DOMAIN d = 1 .. c
  <2>1. \A n \in 1 .. c : d[n] \in S
    <3> HIDE DEF d, c
    <3>1. QED
      BY <1>1, <1>8, ElementOfSeq
  <2>2. DOMAIN d = 1 .. c
    OBVIOUS
  <2>3. d = [n \in 1 .. c |-> d[n]]
    OBVIOUS
  <2> HIDE DEF d, c
  <2>4. d \in [1 .. c -> S] /\ c \in Nat
    BY <1>4, <2>1, <2>2, <2>3
  <2>5. d \in Seq(S)
    BY <2>4, SeqDef
  <2>6. Len(d) \in Nat /\ DOMAIN d = 1 .. Len(d)
    BY <2>5, LenProperties
  <2>7. QED
    BY <2>2, <2>4, <2>6
<1> HIDE DEF d, c
<1>10. QED
  BY <1>4, <1>6, <1>7, <1>8, <1>9

\* A probe names a channel, for which the card declares entries or none.
LEMMA DeclaredIs ==
    ASSUME IInv, Started, manifest \in Manifests, NEW k \in Probes
    PROVE  /\ Len(Declared(Reqs[k])) \in Nat
           /\ DOMAIN Declared(Reqs[k]) = 1 .. Len(Declared(Reqs[k]))
           /\ \A n \in DOMAIN Declared(Reqs[k]) :
                 \E j \in DOMAIN DeclaredAll(Reqs[k]) :
                     Declared(Reqs[k])[n] = DeclaredAll(Reqs[k])[j]
           /\ \A n, m \in DOMAIN Declared(Reqs[k]) :
                 Declared(Reqs[k])[n].url = Declared(Reqs[k])[m].url => n = m
<1>1. k \in DOMAIN Reqs /\ Reqs[k].kind = "probe" /\ job \in Jobs
  BY DEF Probes, IInv, AdmittedRight
<1>2. Reqs[k].channel \in Channels
  <2>1. Reqs[k] \in Requirement
    BY <1>1, RequirementTypes
  <2>2. Reqs[k].channel # None
    BY <1>1, PinnedAssumption DEF Reqs
  <2>3. QED
    BY <2>1, <2>2 DEF Requirement, Maybe
<1>3. manifest \in [Channels -> Seq(Entry)]
  BY PinnedAssumption
<1>4. manifest[Reqs[k].channel] \in Seq(Entry)
  BY <1>2, <1>3
<1>5. QED
  BY <1>4, DedupedIs DEF Declared, DeclaredAll

-----------------------------------------------------------------------------
(* What one exchange adds                                                    *)

\* An exchange that is sent is counted, and only while the budget lasts.
LEMMA ObserveCounts ==
    ASSUME NEW a \in Answers, NEW role \in Id, NEW url, Observe(role, url, a), used \in 0 .. Budget
    PROVE  \E x : /\ items' = Append(items, x) /\ x.role = role /\ x.url = url /\ Recorded(x)
                  /\ used' \in 0 .. Budget
                  /\ used' = used + 1 \/ (used' = used /\ x.status = "none")
<1> DEFINE x == Item(role, url, IF used < Budget THEN a ELSE NoAnswer)
<1>1. items' = Append(items, x) /\ used' = IF used < Budget THEN used + 1 ELSE used
  BY DEF Observe
<1>2. a \in Answer /\ Budget \in Nat
  BY PinnedAssumption
<1>3. x.role = role /\ x.url = url
  BY DEF Item
<1>4. Recorded(x)
  BY <1>2 DEF Item, NoAnswer, Answer, Recorded, Maybe, Status
<1>5. ~(used < Budget) => x.status = "none"
  BY DEF Item, NoAnswer
<1> HIDE DEF x
<1>6. used' \in 0 .. Budget /\ (used' = used + 1 \/ (used' = used /\ x.status = "none"))
  BY <1>1, <1>2, <1>5
<1>7. QED
  BY <1>1, <1>3, <1>4, <1>6

\* The exchanges that were sent are no more than what was counted.
LEMMA SentGrows ==
    ASSUME NEW s, Exchanges(s), NEW x, NEW u \in Nat, NEW v \in Nat, Cardinality(Sent(s)) <= u,
           v = u + 1 \/ (v = u /\ x.status = "none"), NEW t, t = Append(s, x)
    PROVE  Cardinality(Sent(t)) <= v
<1>1. \E S : s \in Seq(S)
  BY DEF Exchanges
<1>2. /\ \E S : Append(s, x) \in Seq(S)
      /\ Len(s) \in Nat /\ DOMAIN s = 1 .. Len(s)
      /\ Len(Append(s, x)) = Len(s) + 1 /\ DOMAIN Append(s, x) = 1 .. Len(s) + 1
      /\ \A i \in DOMAIN s : Append(s, x)[i] = s[i]
      /\ Append(s, x)[Len(s) + 1] = x
  BY <1>1, Appended
<1>3. \A i \in DOMAIN t : i \in DOMAIN s \/ i = Len(s) + 1
  BY <1>2
<1>4. IsFiniteSet(Sent(s)) /\ Cardinality(Sent(s)) \in Nat
  <2>1. IsFiniteSet(1 .. Len(s)) /\ Sent(s) \in SUBSET (1 .. Len(s))
    BY <1>2, FS_Interval DEF Sent
  <2>2. IsFiniteSet(Sent(s))
    BY <2>1, FS_Subset
  <2>3. QED
    BY <2>2, FS_CardinalityType
<1>5. CASE v = u + 1
  <2>1. Sent(t) \in SUBSET (Sent(s) \cup {Len(s) + 1})
    BY <1>2, <1>3 DEF Sent
  <2>2. Len(s) + 1 \notin Sent(s)
    BY <1>2 DEF Sent
  <2>3. /\ IsFiniteSet(Sent(s) \cup {Len(s) + 1})
        /\ Cardinality(Sent(s) \cup {Len(s) + 1}) = Cardinality(Sent(s)) + 1
    BY <1>4, <2>2, FS_AddElement
  <2>4. IsFiniteSet(Sent(t)) /\ Cardinality(Sent(t)) <= Cardinality(Sent(s)) + 1
    BY <2>1, <2>3, FS_Subset
  <2>5. Cardinality(Sent(t)) \in Nat
    BY <2>4, FS_CardinalityType
  <2>6. QED
    BY <1>4, <1>5, <2>4, <2>5
<1>6. CASE v = u /\ x.status = "none"
  <2>1. Sent(t) = Sent(s)
    BY <1>2, <1>3, <1>6 DEF Sent
  <2>2. QED
    BY <1>6, <2>1
<1>7. QED
  BY <1>5, <1>6

\* What holds of each exchange holds of each when one is added of which it holds.
LEMMA EachRecorded ==
    ASSUME NEW s, Exchanges(s), NEW x, NEW reqs, NEW m,
           \A i \in DOMAIN s : Recorded(s[i]) /\ Warranted(reqs, m, s[i]),
           Recorded(x) /\ Warranted(reqs, m, x), NEW t, t = Append(s, x)
    PROVE  \A i \in DOMAIN t : Recorded(t[i]) /\ Warranted(reqs, m, t[i])
<1>1. \E S : s \in Seq(S)
  BY DEF Exchanges
<1>2. /\ \E S : Append(s, x) \in Seq(S)
      /\ Len(s) \in Nat /\ DOMAIN s = 1 .. Len(s)
      /\ Len(Append(s, x)) = Len(s) + 1 /\ DOMAIN Append(s, x) = 1 .. Len(s) + 1
      /\ \A i \in DOMAIN s : Append(s, x)[i] = s[i]
      /\ Append(s, x)[Len(s) + 1] = x
  BY <1>1, Appended
<1>3. \A i \in DOMAIN t : i \in DOMAIN s \/ i = Len(s) + 1
  BY <1>2
<1>4. QED
  BY <1>2, <1>3

LEMMA TypesInit == Init => TInv
<1> SUFFICES ASSUME Init PROVE TInv
  OBVIOUS
<1>1. /\ job \in Jobs /\ manifest \in Manifests /\ row = 1 /\ entry = 1 /\ used = 0
      /\ items = <<>> /\ plan = <<>> /\ results = <<>> /\ outcomes = <<>>
      /\ card = "unreadable" /\ surface = "fail" /\ outcome = "none" /\ pc = "asked"
  BY DEF Init
<1>2. job.rows \in Seq(Row)
  BY <1>1, JobTypes
<1>3. row \in 1 .. Len(job.rows) + 1
  BY <1>1, <1>2, LenProperties
<1>4. results \in Seq(Verdict) /\ outcomes \in Seq({"passed", "failed", "error"})
  BY <1>1, EmptySeq
<1>5. Sent(items) = {} /\ DOMAIN items = {}
  BY <1>1 DEF Sent
<1>6. Cardinality(Sent(items)) = 0
  BY <1>5, FS_EmptySet
<1>7. used \in 0 .. Budget
  BY <1>1, PinnedAssumption
<1>8. QED
  BY <1>1, <1>3, <1>4, <1>5, <1>6, <1>7 DEF TInv

-----------------------------------------------------------------------------
(* Each step keeps the types                                                 *)

\* What a step keeps that records nothing.
LEMMA TypesKept ==
    ASSUME TInv, UNCHANGED <<asking, items>>, row' \in 1 .. Len(job.rows) + 1, entry' \in Nat,
           card' \in {"unreadable", "declared", "absent"}, surface' \in {"pass", "fail", "skip"},
           used' \in 0 .. Budget, used' = used \/ items = <<>>,
           plan' = plan \/ plan' \in [DOMAIN Reqs -> Plan], results' \in Seq(Verdict),
           outcomes' \in Seq({"passed", "failed", "error"}),
           outcome' \in {"none", "threw", "passed", "failed"},
           pc' # "flip", pc' = "entry" => entry' >= 1
    PROVE  TInv'
<1>1. /\ job' = job /\ Reqs' = Reqs /\ manifest' = manifest /\ items' = items
  BY DEF asking, Reqs
<1>2. Cardinality(Sent(items')) <= used'
  <2>1. CASE used' = used
    BY <1>1, <2>1 DEF TInv
  <2>2. CASE items = <<>>
    <3>1. Sent(items') = {}
      BY <1>1, <2>2 DEF Sent
    <3>2. Cardinality(Sent(items')) = 0
      BY <3>1, FS_EmptySet
    <3>3. QED
      BY <3>2
  <2>3. QED
    BY <2>1, <2>2
<1>3. \A i \in DOMAIN items' : Recorded(items'[i]) /\ Warranted(Reqs', manifest', items'[i])
  BY <1>1 DEF TInv
<1>5. plan' = <<>> \/ plan' \in [DOMAIN Reqs -> Plan]
  BY DEF TInv
<1>6. QED
  BY <1>1, <1>2, <1>3, <1>5 DEF TInv

\* What a step keeps that records one exchange.
LEMMA TypesRecord ==
    ASSUME IInv, TInv, UNCHANGED <<asking, row, card, surface, plan, results, outcomes, outcome>>,
           NEW x, items' = Append(items, x), Recorded(x), Warranted(Reqs, manifest, x),
           used' \in 0 .. Budget, used' = used + 1 \/ (used' = used /\ x.status = "none"),
           entry' \in Nat, pc' \in {"entry", "flip"} => entry' >= 1,
           pc' = "flip" => Local(at, entry) /\ at' = at /\ entry' = entry
    PROVE  TInv'
<1>1. /\ job' = job /\ Reqs' = Reqs /\ manifest' = manifest /\ Exchanges(items)
  BY DEF asking, Reqs, IInv
<1>2. /\ \A i \in DOMAIN items : Recorded(items[i]) /\ Warranted(Reqs, manifest, items[i])
      /\ Cardinality(Sent(items)) <= used /\ used \in 0 .. Budget
  BY DEF TInv
<1>3. Cardinality(Sent(items')) <= used'
  <2>1. used \in Nat /\ used' \in Nat
    BY <1>2, PinnedAssumption
  <2>2. QED
    BY <1>1, <1>2, <2>1, SentGrows
<1>4. \A i \in DOMAIN items' : Recorded(items'[i]) /\ Warranted(Reqs, manifest, items'[i])
  BY <1>1, <1>2, EachRecorded
<1>5. pc' = "flip" => Local(at, entry)'
  BY <1>1 DEF Local, Declared
<1>6. QED
  BY <1>1, <1>3, <1>4, <1>5 DEF TInv

LEMMA TypesAdvance ==
    ASSUME TInv, NEW verdict \in {"passed", "failed", "error"}, Advance(verdict), job \in Jobs,
           UNCHANGED <<asking, observed, entry, plan, results>>
    PROVE  TInv'
<1>1. outcomes' \in Seq({"passed", "failed", "error"})
  <2>1. outcomes \in Seq({"passed", "failed", "error"}) /\ outcomes' = Append(outcomes, verdict)
    BY DEF TInv, Advance
  <2>2. QED
    BY <2>1, AppendProperties
<1>2. /\ pc' \in {"row", "over"} /\ row' \in 1 .. Len(job.rows) + 1
      /\ outcome' \in {"none", "threw", "passed", "failed"}
  <2>1. row \in 1 .. Len(job.rows) + 1 /\ outcome \in {"none", "threw", "passed", "failed"}
    BY DEF TInv
  <2>2. Len(job.rows) \in Nat
    BY JobTypes, LenProperties
  <2>3. CASE job.door = "rows" /\ row < Len(job.rows)
    <3>1. pc' = "row" /\ row' = row + 1 /\ outcome' = outcome
      BY <2>3 DEF Advance
    <3>2. QED
      BY <2>1, <2>2, <2>3, <3>1
  <2>4. CASE ~(job.door = "rows" /\ row < Len(job.rows))
    <3>1. /\ pc' = "over" /\ row' = row
          /\ outcome' = CASE job.door # "rows" /\ verdict = "error" -> "threw"
                          [] \E i \in DOMAIN outcomes' : outcomes'[i] # "passed" -> "failed"
                          [] OTHER -> "passed"
      BY <2>4 DEF Advance
    <3>2. outcome' \in {"threw", "passed", "failed"}
      BY <3>1
    <3>3. QED
      BY <2>1, <3>1, <3>2
  <2>5. QED
    BY <2>3, <2>4
<1>3. UNCHANGED <<items, used, card, surface, plan, entry, results>>
  BY DEF observed
<1>4. QED
  BY <1>1, <1>2, <1>3, TypesKept DEF TInv

LEMMA TypesPlan == ASSUME IInv, RInv, TInv, PlanProbe PROVE TInv'
<1>1. /\ pc = "probes" /\ entry' = 1
      /\ UNCHANGED <<asking, row, observed, results, outcomes, outcome>>
  BY DEF PlanProbe
<1>2. PICK i \in Unplanned, st \in {"exempt", "unresolved", "probed"} :
              /\ at' = i /\ plan' = [plan EXCEPT ![i].state = st]
              /\ pc' = IF st = "probed" THEN "entry" ELSE pc
  BY PlanCases
<1>3. plan \in [DOMAIN Reqs -> Plan] /\ i \in DOMAIN Reqs
  BY <1>1 DEF RInv, Planned, Unplanned, Probes
<1>4. plan' \in [DOMAIN Reqs -> Plan]
  <2> DEFINE D == DOMAIN Reqs
  <2>1. plan \in [D -> Plan] /\ i \in D /\ plan' = [plan EXCEPT ![i].state = st]
    BY <1>2, <1>3
  <2> HIDE DEF D
  <2>2. plan' \in [D -> Plan] /\ plan'[i].state # "none" /\ \A k \in D : k # i => plan'[k] = plan[k]
    BY <2>1, PlanMoves
  <2>3. QED
    BY <2>2 DEF D
<1>5. pc' \in {"probes", "entry"} /\ UNCHANGED <<items, used, card, surface>>
  BY <1>1, <1>2 DEF observed
<1>6. QED
  BY <1>1, <1>4, <1>5, TypesKept DEF TInv

LEMMA TypesEndpoint == ASSUME IInv, TInv, NEW a \in Answers, ObserveEndpoint(a) PROVE TInv'
<1> DEFINE req == Reqs[at]
<1>1. /\ pc = "endpoints" /\ pc' = pc /\ at <= Len(Reqs)
      /\ req.kind = "endpoint" /\ Resolves(req, scope)
      /\ Observe(req.id, Url(req, scope), a)
      /\ UNCHANGED <<asking, row, card, surface, entry, plan, results, outcomes, outcome>>
  BY DEF ObserveEndpoint
<1>2. at \in DOMAIN Reqs /\ req.id \in Id
  <2>1. at \in 1 .. Len(Reqs) + 1
    BY <1>1 DEF IInv, OnTrail
  <2>2. Len(Reqs) \in Nat /\ DOMAIN Reqs = 1 .. Len(Reqs)
    BY <1>1, LetIn DEF Started
  <2>3. at \in DOMAIN Reqs
    BY <1>1, <2>1, <2>2
  <2>4. QED
    BY <2>3, RequirementTypes DEF IInv, AdmittedRight
<1>3. used \in 0 .. Budget /\ entry \in Nat
  BY DEF TInv
<1>4. PICK x : /\ items' = Append(items, x) /\ x.role = req.id /\ x.url = Url(req, scope)
               /\ Recorded(x) /\ used' \in 0 .. Budget
               /\ used' = used + 1 \/ (used' = used /\ x.status = "none")
  BY <1>1, <1>2, <1>3, ObserveCounts
<1>5. Warranted(Reqs, manifest, x)
  <2>1. x.url[2] \notin Foreign
    BY <1>1, <1>4 DEF Url, Resolves
  <2>2. QED
    BY <1>1, <1>2, <1>4, <2>1 DEF Warranted
<1>6. QED
  BY <1>1, <1>3, <1>4, <1>5, TypesRecord

\* An entry that is declared is declared by the card as it stands.
LEMMA LocalWarrants ==
    ASSUME IInv, Started, manifest \in Manifests, NEW k \in Probes, NEW n, Local(k, n), NEW x,
           x.url \in {Declared(Reqs[k])[n].url, Declared(Reqs[k])[n].path}
    PROVE  Warranted(Reqs, manifest, x)
<1>1. PICK j \in DOMAIN DeclaredAll(Reqs[k]) : Declared(Reqs[k])[n] = DeclaredAll(Reqs[k])[j]
  BY DeclaredIs DEF Local
<1> DEFINE e == DeclaredAll(Reqs[k])[j]
<1>2. e \in ToSet(DeclaredAll(Reqs[k])) /\ e.local /\ x.url \in {e.url, e.path}
  BY <1>1 DEF Local, ToSet
<1> HIDE DEF e
<1>3. k \in DOMAIN Reqs /\ Reqs[k].kind = "probe"
  BY DEF Probes
<1>4. QED
  BY <1>2, <1>3 DEF Warranted, DeclaredAll

LEMMA TypesEntry == ASSUME IInv, RInv, TInv, NEW a \in Answers, ObserveEntry(a) PROVE TInv'
<1> DEFINE req == Reqs[at]
           e == Declared(req)[entry]
<1>1. /\ pc = "entry"
      /\ UNCHANGED <<asking, row, card, surface, at, results, outcomes, outcome>>
  BY DEF ObserveEntry
<1>2. /\ at \in Probes /\ at \in DOMAIN Reqs /\ entry \in Nat /\ entry >= 1
      /\ plan \in [DOMAIN Reqs -> Plan] /\ used \in 0 .. Budget /\ manifest \in Manifests
      /\ job \in Jobs
  BY <1>1 DEF IInv, RInv, AdmittedRight, Probes, Planned, TInv
<1>3. \/ pc' = "probes" /\ UNCHANGED <<items, used, plan, entry>>
      \/ /\ pc' = "entry" /\ entry' = entry + 1 /\ UNCHANGED <<items, used>>
         /\ plan' = [plan EXCEPT ![at].refused = @ \cup {entry}]
      \/ /\ pc' = "probes" /\ UNCHANGED <<items, used, entry>>
         /\ plan' = [plan EXCEPT ![at].state = "unresolved"]
      \/ /\ ~(entry > Len(Declared(req))) /\ e.local /\ plan' = plan
         /\ Observe(Append(req.id, entry), e.url, a)
         /\ (pc' = "flip" /\ entry' = entry) \/ (pc' = "entry" /\ entry' = entry + 1)
  BY EntryCases
<1>4. CASE pc' = "probes" /\ UNCHANGED <<items, used, plan, entry>>
  BY <1>1, <1>2, <1>4, TypesKept DEF TInv
<1>5. CASE /\ pc' = "entry" /\ entry' = entry + 1 /\ UNCHANGED <<items, used>>
           /\ plan' = [plan EXCEPT ![at].refused = @ \cup {entry}]
  <2>1. plan' \in [DOMAIN Reqs -> Plan]
    BY <1>2, <1>5, PlanRefuses
  <2>2. entry' \in Nat /\ entry' >= 1
    BY <1>2, <1>5
  <2>3. QED
    BY <1>1, <1>5, <2>1, <2>2, TypesKept DEF TInv
<1>6. CASE /\ pc' = "probes" /\ UNCHANGED <<items, used, entry>>
           /\ plan' = [plan EXCEPT ![at].state = "unresolved"]
  <2>1. plan' \in [DOMAIN Reqs -> Plan]
    BY <1>2, <1>6, PlanMoves
  <2>2. QED
    BY <1>1, <1>2, <1>6, <2>1, TypesKept DEF TInv
<1>7. CASE /\ ~(entry > Len(Declared(req))) /\ e.local /\ plan' = plan
           /\ Observe(Append(req.id, entry), e.url, a)
           /\ (pc' = "flip" /\ entry' = entry) \/ (pc' = "entry" /\ entry' = entry + 1)
  <2>1. Local(at, entry)
    <3>1. Len(Declared(Reqs[at])) \in Nat
          /\ DOMAIN Declared(Reqs[at]) = 1 .. Len(Declared(Reqs[at]))
      BY <1>1, <1>2, DeclaredIs DEF Started
    <3>2. entry \in DOMAIN Declared(Reqs[at])
      BY <1>2, <1>7, <3>1
    <3>3. QED
      BY <1>7, <3>2 DEF Local
  <2>2. Append(req.id, entry) \in Id
    <3>1. req.id \in Seq(Nat)
      BY <1>2, RequirementTypes DEF Id
    <3>2. QED
      BY <1>2, <3>1, AppendProperties DEF Id
  <2>3. PICK x : /\ items' = Append(items, x) /\ x.url = e.url /\ Recorded(x)
                 /\ used' \in 0 .. Budget
                 /\ used' = used + 1 \/ (used' = used /\ x.status = "none")
    <3> DEFINE role == Append(req.id, entry)
    <3>1. Observe(role, e.url, a) /\ role \in Id
      BY <1>7, <2>2
    <3> HIDE DEF role
    <3>2. QED
      BY <1>2, <3>1, ObserveCounts
  <2>4. Warranted(Reqs, manifest, x)
    BY <1>1, <1>2, <2>1, <2>3, LocalWarrants DEF Started
  <2>5. entry' \in Nat /\ entry' >= 1
    BY <1>2, <1>7
  <2>6. QED
    BY <1>1, <1>7, <2>1, <2>3, <2>4, <2>5, TypesRecord
<1>8. QED
  BY <1>3, <1>4, <1>5, <1>6, <1>7

LEMMA TypesFlip == ASSUME IInv, TInv, NEW a \in Answers, ObserveFlip(a) PROVE TInv'
<1> DEFINE req == Reqs[at]
           e == Declared(req)[entry]
<1>1. /\ pc = "flip" /\ pc' = "entry" /\ entry' = entry + 1
      /\ Observe(req.id \o <<entry, 0>>, e.path, a)
      /\ UNCHANGED <<asking, row, card, surface, at, plan, results, outcomes, outcome>>
  BY DEF ObserveFlip
<1>2. /\ at \in Probes /\ at \in DOMAIN Reqs /\ entry \in Nat /\ Local(at, entry)
      /\ used \in 0 .. Budget /\ manifest \in Manifests /\ job \in Jobs
  BY <1>1 DEF IInv, AdmittedRight, Probes, TInv
<1>3. req.id \o <<entry, 0>> \in Id
  <2>1. req.id \in Seq(Nat) /\ <<entry, 0>> \in Seq(Nat)
    BY <1>2, RequirementTypes DEF Id
  <2>2. QED
    BY <2>1, ConcatProperties DEF Id
<1>4. PICK x : /\ items' = Append(items, x) /\ x.url = e.path /\ Recorded(x)
               /\ used' \in 0 .. Budget
               /\ used' = used + 1 \/ (used' = used /\ x.status = "none")
  <2> DEFINE role == req.id \o <<entry, 0>>
  <2>1. Observe(role, e.path, a) /\ role \in Id
    BY <1>1, <1>3
  <2> HIDE DEF role
  <2>2. QED
    BY <1>2, <2>1, ObserveCounts
<1>5. Warranted(Reqs, manifest, x)
  BY <1>1, <1>2, <1>4, LocalWarrants DEF Started
<1>6. entry' \in Nat /\ entry' >= 1
  BY <1>1, <1>2
<1>7. QED
  BY <1>1, <1>4, <1>5, <1>6, TypesRecord

LEMMA TypesJudge == ASSUME IInv, TInv, Judge PROVE TInv'
<1>1. /\ pc' = "judge" /\ results' = Append(results, Result)
      /\ UNCHANGED <<asking, row, observed, entry, plan, outcomes, outcome>>
  BY DEF Judge
<1>2. Result \in Verdict
  BY DEF Result, Verdict
<1>3. results' \in Seq(Verdict)
  BY <1>1, <1>2, AppendProperties DEF TInv
<1>4. QED
  BY <1>1, <1>3, TypesKept DEF TInv, observed

LEMMA TypesNext == IInv /\ RInv /\ TInv /\ [Next]_vars => TInv'
<1> SUFFICES ASSUME IInv, RInv, TInv, [Next]_vars PROVE TInv'
  OBVIOUS
<1> USE DEF asking, observed
<1>1. CASE Admit
  <2>1. outcome' \in {"none", "threw", "passed", "failed"} /\ pc' \in {"row", "over"}
    BY <1>1 DEF Admit, TInv
  <2>2. UNCHANGED <<asking, row, observed, entry, plan, results, outcomes>>
    BY <1>1 DEF Admit
  <2>3. QED
    BY <2>1, <2>2, TypesKept DEF TInv
<1>2. CASE StartRow
  <2>1. /\ items' = <<>> /\ used' = 0 /\ results' = <<>> /\ pc' = "target"
        /\ plan' = [i \in DOMAIN Reqs |-> NoPlan]
        /\ UNCHANGED <<asking, row, card, surface, entry, outcomes, outcome>>
    BY <1>2 DEF StartRow
  <2>2. Reqs' = Reqs
    BY <2>1 DEF Reqs
  <2>3. NoPlan \in Plan
    BY DEF NoPlan, Plan
  <2>4. plan' \in [DOMAIN Reqs -> Plan] /\ results' \in Seq(Verdict) /\ DOMAIN items' = {}
    BY <2>1, <2>3, EmptySeq
  <2>5. Sent(items') = {}
    BY <2>4 DEF Sent
  <2>6. Cardinality(Sent(items')) = 0 /\ used' \in 0 .. Budget
    <3>1. Cardinality(Sent(items')) = 0
      BY <2>5, FS_EmptySet
    <3>2. Budget \in Nat
      BY PinnedAssumption
    <3>3. QED
      BY <2>1, <3>1, <3>2
  <2>7. QED
    BY <2>1, <2>2, <2>4, <2>6 DEF TInv
<1>3. CASE RefuseRow
  <2>1. job \in Jobs
    BY DEF IInv, AdmittedRight
  <2>2. Advance("error") /\ UNCHANGED <<asking, observed, entry, plan, results>>
    BY <1>3 DEF RefuseRow
  <2>3. QED
    BY <2>1, <2>2, TypesAdvance
<1>4. CASE ObserveTarget
  <2>1. /\ pc = "target" /\ pc' = "endpoints" /\ used' \in 0 .. Budget
        /\ card' \in {"unreadable", "declared", "absent"} /\ surface' \in {"pass", "fail", "skip"}
        /\ UNCHANGED <<asking, row, items, entry, plan, results, outcomes, outcome>>
    BY <1>4 DEF ObserveTarget
  <2>2. items = <<>>
    BY <2>1 DEF IInv, OnTrail
  <2>3. QED
    BY <2>1, <2>2, TypesKept DEF TInv
<1>5. CASE SkipOthers \/ EndpointsObserved \/ ProbesObserved
  <2>1. /\ pc' \in {"endpoints", "probes", "judge"}
        /\ UNCHANGED <<asking, row, observed, entry, plan, results, outcomes, outcome>>
    BY <1>5 DEF SkipOthers, EndpointsObserved, ProbesObserved
  <2>2. QED
    BY <2>1, TypesKept DEF TInv
<1>6. CASE PlanProbe
  BY <1>6, TypesPlan
<1>7. ASSUME NEW a \in Answers, ObserveEndpoint(a) PROVE TInv'
  BY <1>7, TypesEndpoint
<1>8. ASSUME NEW a \in Answers, ObserveEntry(a) PROVE TInv'
  BY <1>8, TypesEntry
<1>9. ASSUME NEW a \in Answers, ObserveFlip(a) PROVE TInv'
  BY <1>9, TypesFlip
<1>10. CASE Judge
  BY <1>10, TypesJudge
<1>11. CASE Report
  <2>1. job \in Jobs
    BY DEF IInv, AdmittedRight
  <2>2. \E verdict \in {"passed", "failed"} : Advance(verdict)
    BY <1>11 DEF Report
  <2>3. UNCHANGED <<asking, observed, entry, plan, results>>
    BY <1>11 DEF Report
  <2>4. QED
    BY <2>1, <2>2, <2>3, TypesAdvance
<1>12. CASE UNCHANGED vars
  <2>1. /\ UNCHANGED <<job, manifest, row, entry, card, surface, items, used, plan, results>>
        /\ UNCHANGED <<outcomes, outcome, pc, at>>
    BY <1>12 DEF vars
  <2>2. Reqs' = Reqs
    BY <2>1 DEF Reqs
  <2>3. pc' = "flip" => Local(at, entry)'
    BY <2>1, <2>2 DEF TInv, Local, Declared
  <2>4. QED
    BY <2>1, <2>2, <2>3 DEF TInv
<1>13. QED
  BY <1>1, <1>2, <1>3, <1>4, <1>5, <1>6, <1>7, <1>8, <1>9, <1>10, <1>11, <1>12 DEF Next

LEMMA TypesInvariance == Spec => [](IInv /\ RInv /\ TInv)
<1>1. QED
  BY InvInit, InvNext, RolesInit, RolesNext, TypesInit, TypesNext, PTL DEF Spec

\* Whatever a job asks and a target answers, every variable of a run has its type, and no more
\* exchanges are recorded as sent than the budget allows.
THEOREM TypeCorrect == Spec => []TypeOK
<1>1. ASSUME IInv, TInv PROVE TypeOK
  <2>1. \A i \in DOMAIN items : items[i].role \in Id /\ items[i].status \in Status
                                /\ items[i].value \in Maybe(Values) /\ items[i].cut \in BOOLEAN
    BY <1>1 DEF TInv, Recorded
  <2>2. used <= Budget
    BY <1>1, PinnedAssumption DEF TInv
  <2>3. \A i \in DOMAIN plan : plan[i].state \in {"none", "exempt", "unresolved", "probed"}
    BY <1>1 DEF TInv, Plan
  <2>4. \A i \in DOMAIN results : results[i] \in [verdict : {"pass", "fail"}, exempt : BOOLEAN]
    <3>1. results \in Seq(Verdict)
      BY <1>1 DEF TInv
    <3>2. DOMAIN results = 1 .. Len(results)
      BY <3>1, LenProperties
    <3>3. QED
      BY <3>1, <3>2, ElementOfSeq DEF Verdict
  <2>5. QED
    BY <1>1, <2>1, <2>2, <2>3, <2>4 DEF TypeOK, TInv, IInv, AdmittedRight, Sent
<1>2. QED
  BY <1>1, TypesInvariance, PTL

\* Whatever a card declares, a row binds and a target answers, nothing is asked of the target
\* but under the pin, at a public address, for an endpoint whose path stays on its origin or
\* for an entry of its own manifest.
THEOREM NothingAskedUnwarranted == Spec => []FetchesAreWarranted
<1>1. ASSUME IInv, TInv PROVE FetchesAreWarranted
  <2>1. SUFFICES ASSUME Running, NEW i \in DOMAIN items
        PROVE  /\ job.pin # "mismatch" /\ (job.attested => job.pin = "match")
               /\ TargetOf(row) = "public"
               /\ \E r \in ToSet(Reqs) :
                     \/ /\ r.kind = "endpoint" /\ items[i].role = r.id
                        /\ items[i].url[2] \notin Foreign
                     \/ /\ r.kind = "probe"
                        /\ \E e \in ToSet(DeclaredAll(r)) : e.local /\ items[i].url \in {e.url, e.path}
    BY DEF FetchesAreWarranted
  <2>2. RowAdmitted(row) /\ Admitted /\ job.pin \in {None, "match", "mismatch"}
    BY <1>1, <2>1, JobTypes DEF IInv, AdmittedRight, Running, Started
  <2>3. /\ job.pin # "mismatch" /\ (job.attested => job.pin = "match")
        /\ TargetOf(row) = "public"
    BY <2>2 DEF RowAdmitted, Admitted, Pinned
  <2>4. Warranted(Reqs, manifest, items[i])
    BY <1>1, <2>1 DEF TInv
  <2>5. PICK k \in DOMAIN Reqs :
          \/ Reqs[k].kind = "endpoint" /\ items[i].role = Reqs[k].id /\ items[i].url[2] \notin Foreign
          \/ /\ Reqs[k].kind = "probe"
             /\ \E e \in ToSet(manifest[Reqs[k].channel]) : e.local /\ items[i].url \in {e.url, e.path}
    BY <2>4 DEF Warranted
  <2>6. Reqs[k] \in ToSet(Reqs)
    BY DEF ToSet
  <2>7. QED
    BY <2>3, <2>5, <2>6 DEF DeclaredAll
<1>2. QED
  BY <1>1, TypesInvariance, PTL

-----------------------------------------------------------------------------
(* Exemptions                                                                *)

LEMMA AppliesIsIn == ASSUME NEW req PROVE Applies(req) <=> AppliesIn(Reqs, items, card, req)
<1>1. ASSUME NEW ch PROVE Source(ch, Probes) = SourceIn(Reqs, items, ch)
  <2>1. {i \in Probes : Reqs[i].channel = ch} = Candidates(Reqs, ch)
    BY DEF Probes, Candidates
  <2> DEFINE C == Candidates(Reqs, ch)
             role == Append(Reqs[Min(C)].id, 1)
  <2>2. Source(ch, Probes) = IF C # {} /\ Has(role) THEN Find(role) ELSE NoBody
    BY <2>1 DEF Source
  <2>3. SourceIn(Reqs, items, ch) = IF C # {} THEN EvidenceIn(items, role) ELSE NoBody
    BY DEF SourceIn
  <2> HIDE DEF C, role
  <2>4. EvidenceIn(items, role) = IF Has(role) THEN Find(role) ELSE NoBody
    BY EvidenceIsEvidenceIn DEF Evidence
  <2>5. QED
    BY <2>2, <2>3, <2>4
<1>2. QED
  BY <1>1 DEF Applies, AppliesIn

\* The first probe of a channel is one of its probes.
LEMMA FirstCandidate ==
    ASSUME NEW reqs \in Seq(Requirement), NEW ch, Candidates(reqs, ch) # {}
    PROVE  /\ Min(Candidates(reqs, ch)) \in DOMAIN reqs
           /\ reqs[Min(Candidates(reqs, ch))].kind = "probe"
           /\ reqs[Min(Candidates(reqs, ch))].channel = ch
<1> DEFINE C == Candidates(reqs, ch)
<1>1. C \subseteq Nat
  <2>1. DOMAIN reqs = 1 .. Len(reqs) /\ Len(reqs) \in Nat
    BY LenProperties
  <2>2. QED
    BY <2>1 DEF Candidates
<1>2. C # {}
  OBVIOUS
<1> HIDE DEF C
<1>3. \E x \in C : \A y \in C : x <= y
  BY <1>1, <1>2, LeastExists
<1>4. Min(C) \in C
  BY <1>3 DEF Min
<1>5. QED
  BY <1>4 DEF C, Candidates

\* What an exemption rests on: the card, or what a probe of the channel observed.
LEMMA ExemptionRests ==
    ASSUME NEW reqs \in Seq(Requirement), NEW s, NEW c, NEW req, ~AppliesIn(reqs, s, c, req)
    PROVE  \/ req.applies.arm = "card" /\ c = "absent"
           \/ /\ req.applies.arm = "probe"
              /\ \E k \in DOMAIN reqs :
                    /\ reqs[k].kind = "probe" /\ reqs[k].channel = req.applies.from
                    /\ HasIn(s, Append(reqs[k].id, 1))
                    /\ EvidenceIn(s, Append(reqs[k].id, 1)).value \notin {None, req.applies.equals}
<1>1. CASE req.applies.arm = "probe"
  <2> DEFINE ch == req.applies.from
             k == Min(Candidates(reqs, ch))
             role == Append(reqs[k].id, 1)
  <2>1. SourceIn(reqs, s, ch).value \notin {None, req.applies.equals}
    BY <1>1 DEF AppliesIn
  <2>2. NoBody.value = None
    BY DEF NoBody, Item, NoAnswer
  <2>3. Candidates(reqs, ch) # {} /\ EvidenceIn(s, role).value \notin {None, req.applies.equals}
    BY <2>1, <2>2 DEF SourceIn
  <2>4. HasIn(s, role)
    BY <2>2, <2>3 DEF EvidenceIn
  <2>5. k \in DOMAIN reqs /\ reqs[k].kind = "probe" /\ reqs[k].channel = ch
    BY <2>3, FirstCandidate
  <2> HIDE DEF k
  <2>6. QED
    BY <1>1, <2>3, <2>4, <2>5
<1>2. CASE req.applies.arm # "probe"
  BY <1>2 DEF AppliesIn
<1>3. QED
  BY <1>1, <1>2

LEMMA AddedTo ==
    ASSUME NEW s, Exchanges(s), NEW x, NEW t, t = Append(s, x)
    PROVE  /\ Len(s) \in Nat /\ DOMAIN s = 1 .. Len(s)
           /\ DOMAIN t = 1 .. Len(s) + 1 /\ t[Len(s) + 1] = x
           /\ \A i \in DOMAIN s : t[i] = s[i]
<1>1. \E S : s \in Seq(S)
  BY DEF Exchanges
<1>2. /\ \E S : Append(s, x) \in Seq(S)
      /\ Len(s) \in Nat /\ DOMAIN s = 1 .. Len(s)
      /\ Len(Append(s, x)) = Len(s) + 1 /\ DOMAIN Append(s, x) = 1 .. Len(s) + 1
      /\ \A i \in DOMAIN s : Append(s, x)[i] = s[i]
      /\ Append(s, x)[Len(s) + 1] = x
  BY <1>1, Appended
<1>3. QED
  BY <1>2

\* What is found under a role stays.
KeepsFound(s, t) ==
    \A role : HasIn(s, role) => HasIn(t, role) /\ EvidenceIn(t, role) = EvidenceIn(s, role)

LEMMA FoundStays ==
    ASSUME NEW s, Exchanges(s), NEW x, NEW t, t = Append(s, x), AllDiffer(t)
    PROVE  KeepsFound(s, t)
<1>1. \E S : s \in Seq(S)
  BY DEF Exchanges
<1>2. /\ \E S : Append(s, x) \in Seq(S)
      /\ Len(s) \in Nat /\ DOMAIN s = 1 .. Len(s)
      /\ Len(Append(s, x)) = Len(s) + 1 /\ DOMAIN Append(s, x) = 1 .. Len(s) + 1
      /\ \A i \in DOMAIN s : Append(s, x)[i] = s[i]
      /\ Append(s, x)[Len(s) + 1] = x
  BY <1>1, Appended
<1>3. \A i \in DOMAIN s : i \in DOMAIN t /\ t[i] = s[i]
  BY <1>2
<1>4. SUFFICES ASSUME NEW role, HasIn(s, role)
               PROVE  HasIn(t, role) /\ EvidenceIn(t, role) = EvidenceIn(s, role)
  BY DEF KeepsFound
<1>5. PICK i \in DOMAIN s : s[i].role = role
  BY <1>4 DEF HasIn
<1>6. /\ \A j \in DOMAIN s : s[j].role = role => j = i
      /\ \A j \in DOMAIN t : t[j].role = role => j = i
  BY <1>3, <1>5 DEF AllDiffer
<1>7. EvidenceIn(s, role) = s[i]
  BY <1>1, <1>5, <1>6, FoundIs
<1>8. EvidenceIn(t, role) = t[i]
  <2>1. /\ \E S : t \in Seq(S)
        /\ i \in DOMAIN t /\ t[i].role = role
        /\ \A j \in DOMAIN t : t[j].role = role => j = i
    BY <1>2, <1>3, <1>5, <1>6
  <2>2. QED
    BY <2>1, FoundIs
<1>9. QED
  BY <1>3, <1>5, <1>7, <1>8 DEF HasIn

\* So an exemption, once it rests on something, stays one.
LEMMA ExemptionStays ==
    ASSUME NEW reqs, NEW s, NEW t, KeepsFound(s, t), NEW c, NEW req, ~AppliesIn(reqs, s, c, req)
    PROVE  ~AppliesIn(reqs, t, c, req)
<1>1. CASE req.applies.arm = "probe"
  <2> DEFINE ch == req.applies.from
             role == Append(reqs[Min(Candidates(reqs, ch))].id, 1)
  <2>1. SourceIn(reqs, s, ch).value \notin {None, req.applies.equals}
    BY <1>1 DEF AppliesIn
  <2>2. NoBody.value = None
    BY DEF NoBody, Item, NoAnswer
  <2>3. Candidates(reqs, ch) # {} /\ EvidenceIn(s, role).value \notin {None, req.applies.equals}
    BY <2>1, <2>2 DEF SourceIn
  <2>4. HasIn(s, role)
    BY <2>2, <2>3 DEF EvidenceIn
  <2>5. EvidenceIn(t, role) = EvidenceIn(s, role)
    BY <2>4 DEF KeepsFound
  <2>6. SourceIn(reqs, t, ch) = EvidenceIn(t, role)
    BY <2>3 DEF SourceIn
  <2> HIDE DEF role
  <2>7. QED
    BY <1>1, <2>3, <2>5, <2>6 DEF AppliesIn
<1>2. CASE req.applies.arm # "probe"
  BY <1>2 DEF AppliesIn
<1>3. QED
  BY <1>1, <1>2

-----------------------------------------------------------------------------
(* Each step keeps what is known of the plans and the verdicts               *)

LEMMA PlansInit == Init => PInv
BY DEF Init, PInv, Started, Probing

LEMMA PlansOutside == ASSUME pc' \in {"row", "over"} PROVE PInv'
BY DEF PInv, Started, Probing

LEMMA PlansStartRow == ASSUME StartRow PROVE PInv'
<1>1. /\ pc' = "target" /\ results' = <<>> /\ job' = job
      /\ plan' = [i \in DOMAIN Reqs |-> NoPlan]
  BY DEF StartRow, asking
<1>2. Reqs' = Reqs
  BY <1>1 DEF Reqs
<1>3. NoPlan \in Plan /\ NoPlan.state = "none"
  BY DEF NoPlan, Plan
<1>4. plan' \in [DOMAIN Reqs -> Plan] /\ \A k \in DOMAIN Reqs : plan'[k].state = "none"
  BY <1>1, <1>3
<1>5. QED
  BY <1>1, <1>2, <1>4 DEF PInv, Probing

\* Up to the last endpoint nothing is planned.
LEMMA PlansEndpoints ==
    ASSUME PInv, pc \in {"target", "endpoints"}, pc' = "endpoints", UNCHANGED <<job, plan, results>>
    PROVE  PInv'
<1>1. Reqs' = Reqs
  BY DEF Reqs
<1>2. QED
  BY <1>1 DEF PInv, Started, Probing

\* A step that records nothing.
LEMMA PlansWithin ==
    ASSUME PInv, pc \in {"probes", "entry"}, pc' \in {"probes", "entry"},
           UNCHANGED <<job, manifest, items, card, results>>, plan' \in [DOMAIN Reqs -> Plan],
           \A k \in Probes : plan'[k].state = "exempt" =>
              \/ plan[k].state = "exempt"
              \/ /\ ~AppliesIn(Reqs, items, card, Reqs[k])
                 /\ \A n \in Nat : ~HasIn(items, EntryRole(k, n)),
           \A k \in Probes : plan'[k].state = "probed" =>
              plan[k].state = "probed" \/ Len(Declared(Reqs[k])) >= Reqs[k].min,
           pc' = "entry" => plan'[at'].state = "probed"
    PROVE  PInv'
<1>1. Reqs' = Reqs /\ Probes' = Probes
  BY DEF Reqs, Probes
<1>2. ExemptUnasked /\ EnoughDeclared /\ AskedWhereDeclared /\ results = <<>>
  BY DEF PInv, Probing, Started
<1>3. ExemptUnasked'
  <2>1. \A k \in Probes : plan'[k].state = "exempt" =>
            /\ ~AppliesIn(Reqs, items, card, Reqs[k])
            /\ \A n \in Nat : ~HasIn(items, EntryRole(k, n))
    BY <1>2 DEF ExemptUnasked
  <2>2. QED
    BY <1>1, <2>1 DEF ExemptUnasked, EntryRole
<1>4. EnoughDeclared'
  BY <1>1, <1>2 DEF EnoughDeclared, Declared
<1>5. AskedWhereDeclared'
  BY <1>1, <1>2 DEF AskedWhereDeclared, Local, Declared, EntryRole
<1>6. QED
  BY <1>1, <1>2, <1>3, <1>4, <1>5 DEF PInv, Started, Probing

\* A step that records an exchange, of an entry that was reached or of none.
LEMMA PlansRecord ==
    ASSUME IInv, RInv', PInv, pc \in {"entry", "flip"}, pc' \in {"entry", "flip"},
           UNCHANGED <<job, manifest, card, plan, results, at>>,
           NEW x, items' = Append(items, x),
           \A k \in Probes, n \in Nat : x.role = EntryRole(k, n) =>
              /\ plan[k].state # "exempt"
              /\ Local(k, n) /\ x.url = Declared(Reqs[k])[n].url
    PROVE  PInv'
<1>1. /\ Reqs' = Reqs /\ Probes' = Probes
      /\ \A k, n : EntryRole(k, n)' = EntryRole(k, n)
  BY DEF Reqs, Probes, EntryRole
<1>2. /\ ExemptUnasked /\ EnoughDeclared /\ AskedWhereDeclared /\ results = <<>>
      /\ plan \in [DOMAIN Reqs -> Plan] /\ plan[at].state = "probed"
  BY DEF PInv, Probing, Started
<1>3. Exchanges(items) /\ AllDiffer(items')
  BY DEF IInv, RInv, RolesDistinct, AllDiffer
<1>4. KeepsFound(items, items')
  BY <1>3, FoundStays
<1>5. /\ Len(items) \in Nat /\ DOMAIN items = 1 .. Len(items)
      /\ DOMAIN items' = 1 .. Len(items) + 1 /\ items'[Len(items) + 1] = x
      /\ \A i \in DOMAIN items : items'[i] = items[i]
  BY <1>3, AddedTo
<1>6. \A i \in DOMAIN items' : i \in DOMAIN items \/ i = Len(items) + 1
  BY <1>5
<1>7. ExemptUnasked'
  <2>1. ASSUME NEW k \in Probes, plan[k].state = "exempt"
        PROVE  /\ ~AppliesIn(Reqs, items', card, Reqs[k])
               /\ \A n \in Nat : ~HasIn(items', EntryRole(k, n))
    <3>1. /\ ~AppliesIn(Reqs, items, card, Reqs[k])
          /\ \A n \in Nat : ~HasIn(items, EntryRole(k, n))
      BY <1>2, <2>1 DEF ExemptUnasked
    <3>2. ~AppliesIn(Reqs, items', card, Reqs[k])
      BY <1>4, <3>1, ExemptionStays
    <3>3. ASSUME NEW n \in Nat PROVE ~HasIn(items', EntryRole(k, n))
      <4>1. x.role # EntryRole(k, n) /\ ~HasIn(items, EntryRole(k, n))
        BY <2>1, <3>1
      <4>2. QED
        BY <1>5, <1>6, <4>1 DEF HasIn
    <3>4. QED
      BY <3>2, <3>3
  <2>2. QED
    BY <1>1, <2>1 DEF ExemptUnasked
<1>8. EnoughDeclared'
  BY <1>1, <1>2 DEF EnoughDeclared, Declared
<1>9. AskedWhereDeclared'
  <2>1. ASSUME NEW k \in Probes, NEW n \in Nat, NEW i \in DOMAIN items',
               items'[i].role = EntryRole(k, n)
        PROVE  Local(k, n) /\ items'[i].url = Declared(Reqs[k])[n].url
    <3>1. CASE i \in DOMAIN items
      BY <1>2, <1>5, <2>1, <3>1 DEF AskedWhereDeclared
    <3>2. CASE i = Len(items) + 1
      BY <1>5, <2>1, <3>2
    <3>3. QED
      BY <1>6, <3>1, <3>2
  <2>2. \A k, n : Local(k, n)' = Local(k, n)
    BY <1>1 DEF Local, Declared
  <2>3. QED
    BY <1>1, <2>1, <2>2 DEF AskedWhereDeclared, Declared
<1>10. QED
  BY <1>1, <1>2, <1>7, <1>8, <1>9 DEF PInv, Started, Probing

\* At the first probe nothing is recorded of any.
LEMMA PlansEndpointsObserved == ASSUME IInv, RInv, PInv, EndpointsObserved PROVE PInv'
<1>1. /\ pc = "endpoints" /\ pc' = "probes"
      /\ UNCHANGED <<job, manifest, items, card, results, plan>>
  BY DEF EndpointsObserved, asking, observed
<1>2. /\ Reqs' = Reqs /\ Probes' = Probes /\ Probes \subseteq DOMAIN Reqs
      /\ \A k, n : EntryRole(k, n)' = EntryRole(k, n)
  BY <1>1 DEF Reqs, Probes, EntryRole
<1>3. /\ plan \in [DOMAIN Reqs -> Plan] /\ results = <<>>
      /\ \A k \in Probes : plan[k].state = "none"
  BY <1>1, <1>2 DEF PInv, Started
<1>4. ExemptUnasked' /\ EnoughDeclared'
  BY <1>1, <1>2, <1>3 DEF ExemptUnasked, EnoughDeclared
<1>5. ASSUME NEW k \in Probes, NEW n \in Nat, NEW i \in DOMAIN items,
             items[i].role = EntryRole(k, n)
      PROVE  FALSE
  <2>1. Len(EntryRole(k, n)) = 2
    BY <1>1, <1>2, RoleShape DEF Started
  <2>2. HasIn(items, EntryRole(k, n))
    BY <1>5 DEF HasIn
  <2>3. Len(EntryRole(k, n)) = 1
    BY <1>1, <2>2 DEF RInv
  <2>4. QED
    BY <2>1, <2>3
<1>6. AskedWhereDeclared'
  BY <1>1, <1>2, <1>5 DEF AskedWhereDeclared
<1>7. QED
  BY <1>1, <1>2, <1>3, <1>4, <1>6 DEF PInv, Started, Probing

\* Of a probe that is planned nothing is recorded yet, so what is exempt was not asked.
LEMMA PlansPlan == ASSUME IInv, RInv, TInv, PInv, PlanProbe PROVE PInv'
<1>1. pc = "probes" /\ UNCHANGED <<job, manifest, items, card, results>>
  BY DEF PlanProbe, asking, observed
<1>2. PICK i \in Unplanned, st \in {"exempt", "unresolved", "probed"} :
              /\ at' = i /\ plan' = [plan EXCEPT ![i].state = st]
              /\ pc' = IF st = "probed" THEN "entry" ELSE pc
              /\ st = "exempt" => ~Applies(Reqs[i])
              /\ st = "probed" => ~(Len(Declared(Reqs[i])) < Reqs[i].min)
  BY PlanCases
<1>3. /\ plan \in [DOMAIN Reqs -> Plan] /\ i \in Probes /\ i \in DOMAIN Reqs
      /\ plan[i].state = "none" /\ Probes \subseteq DOMAIN Reqs
  BY <1>1 DEF PInv, Started, Unplanned, Probes
<1>4. /\ plan' \in [DOMAIN Reqs -> Plan] /\ plan'[i].state = st
      /\ \A k \in DOMAIN Reqs : k # i => plan'[k] = plan[k]
  <2> DEFINE D == DOMAIN Reqs
  <2>1. plan \in [D -> Plan] /\ i \in D /\ plan' = [plan EXCEPT ![i].state = st]
    BY <1>2, <1>3
  <2> HIDE DEF D
  <2>2. plan' \in [D -> Plan] /\ plan'[i].state # "none" /\ \A k \in D : k # i => plan'[k] = plan[k]
    BY <2>1, PlanMoves
  <2>3. plan[i] \in Plan
    BY <2>1
  <2>4. plan'[i].state = st
    BY <2>1, <2>3 DEF Plan
  <2>5. QED
    BY <2>2, <2>4 DEF D
<1>5. st = "exempt" => ~AppliesIn(Reqs, items, card, Reqs[i])
  BY <1>2, AppliesIsIn
<1>6. \A n \in Nat : ~HasIn(items, EntryRole(i, n))
  <2>1. SUFFICES ASSUME NEW n \in Nat, HasIn(items, EntryRole(i, n)) PROVE FALSE
    OBVIOUS
  <2>2. Len(EntryRole(i, n)) = 2
    BY <1>1, <1>3, RoleShape DEF Started
  <2>3. OfProbe(EntryRole(i, n))
    BY <1>1, <2>1, <2>2 DEF RInv
  <2>4. PICK k \in Probes, m \in Nat :
          /\ plan[k].state # "none" /\ EntryRole(i, n) \in {EntryRole(k, m), FlipRole(k, m)}
    BY <2>3 DEF OfProbe
  <2>5. k = i
    BY <1>1, <1>3, <2>4, RolesTellApart DEF Started
  <2>6. QED
    BY <1>3, <2>4, <2>5
<1>7. st = "probed" => Len(Declared(Reqs[i])) >= Reqs[i].min
  <2>1. Len(Declared(Reqs[i])) \in Nat
    BY <1>1, <1>3, DeclaredIs DEF TInv, Started
  <2>2. Reqs[i].min \in Nat
    BY <1>3, RequirementTypes DEF IInv, AdmittedRight, Requirement
  <2>3. QED
    BY <1>2, <2>1, <2>2
<1>8. /\ \A k \in Probes : plan'[k].state = "exempt" =>
            \/ plan[k].state = "exempt"
            \/ /\ ~AppliesIn(Reqs, items, card, Reqs[k])
               /\ \A n \in Nat : ~HasIn(items, EntryRole(k, n))
      /\ \A k \in Probes : plan'[k].state = "probed" =>
            plan[k].state = "probed" \/ Len(Declared(Reqs[k])) >= Reqs[k].min
  BY <1>3, <1>4, <1>5, <1>6, <1>7
<1>9. pc' \in {"probes", "entry"} /\ (pc' = "entry" => plan'[at'].state = "probed")
  BY <1>1, <1>2, <1>4
<1>10. QED
  BY <1>1, <1>4, <1>8, <1>9, PlansWithin

LEMMA PlansEntry ==
    ASSUME IInv, RInv, RInv', TInv, PInv, NEW a \in Answers, ObserveEntry(a) PROVE PInv'
<1> DEFINE req == Reqs[at]
           e == Declared(req)[entry]
<1>1. pc = "entry" /\ UNCHANGED <<job, manifest, card, at, results>>
  BY DEF ObserveEntry, asking
<1>2. /\ at \in Probes /\ at \in DOMAIN Reqs /\ entry \in Nat /\ entry >= 1
      /\ plan \in [DOMAIN Reqs -> Plan] /\ plan[at].state = "probed" /\ manifest \in Manifests
      /\ Probes \subseteq DOMAIN Reqs
  BY <1>1 DEF IInv, AdmittedRight, Probes, TInv, PInv, Started
<1>3. \/ pc' = "probes" /\ UNCHANGED <<items, used, plan, entry>>
      \/ /\ pc' = "entry" /\ entry' = entry + 1 /\ UNCHANGED <<items, used>>
         /\ plan' = [plan EXCEPT ![at].refused = @ \cup {entry}]
      \/ /\ pc' = "probes" /\ UNCHANGED <<items, used, entry>>
         /\ plan' = [plan EXCEPT ![at].state = "unresolved"]
      \/ /\ ~(entry > Len(Declared(req))) /\ e.local /\ plan' = plan
         /\ Observe(Append(req.id, entry), e.url, a)
         /\ (pc' = "flip" /\ entry' = entry) \/ (pc' = "entry" /\ entry' = entry + 1)
  BY EntryCases
<1>4. CASE pc' = "probes" /\ UNCHANGED <<items, used, plan, entry>>
  BY <1>1, <1>2, <1>4, PlansWithin
<1>5. CASE /\ pc' = "entry" /\ entry' = entry + 1 /\ UNCHANGED <<items, used>>
           /\ plan' = [plan EXCEPT ![at].refused = @ \cup {entry}]
  <2>1. /\ plan' \in [DOMAIN Reqs -> Plan]
        /\ \A k \in DOMAIN Reqs : plan'[k].state = plan[k].state
    BY <1>2, <1>5, PlanRefuses
  <2>2. plan'[at'].state = "probed" /\ \A k \in Probes : plan'[k].state = plan[k].state
    BY <1>1, <1>2, <2>1
  <2>3. QED
    BY <1>1, <1>5, <2>1, <2>2, PlansWithin
<1>6. CASE /\ pc' = "probes" /\ UNCHANGED <<items, used, entry>>
           /\ plan' = [plan EXCEPT ![at].state = "unresolved"]
  <2>1. /\ plan' \in [DOMAIN Reqs -> Plan]
        /\ \A k \in DOMAIN Reqs : k # at => plan'[k] = plan[k]
    BY <1>2, <1>6, PlanMoves
  <2>2. plan'[at].state = "unresolved"
    <3>1. plan[at] \in Plan
      BY <1>2
    <3>2. QED
      BY <1>2, <1>6, <3>1 DEF Plan
  <2>3. \A k \in Probes : plan'[k].state \in {"exempt", "probed"} => plan'[k] = plan[k]
    BY <1>2, <2>1, <2>2
  <2>4. QED
    BY <1>1, <1>6, <2>1, <2>3, PlansWithin
<1>7. CASE /\ ~(entry > Len(Declared(req))) /\ e.local /\ plan' = plan
           /\ Observe(Append(req.id, entry), e.url, a)
           /\ (pc' = "flip" /\ entry' = entry) \/ (pc' = "entry" /\ entry' = entry + 1)
  <2>1. Local(at, entry)
    <3>1. Len(Declared(Reqs[at])) \in Nat
          /\ DOMAIN Declared(Reqs[at]) = 1 .. Len(Declared(Reqs[at]))
      BY <1>1, <1>2, DeclaredIs DEF Started
    <3>2. entry \in DOMAIN Declared(Reqs[at])
      BY <1>2, <1>7, <3>1
    <3>3. QED
      BY <1>7, <3>2 DEF Local
  <2>2. PICK x : items' = Append(items, x) /\ x.role = EntryRole(at, entry) /\ x.url = e.url
    <3> DEFINE role == Append(req.id, entry)
    <3>1. Observe(role, e.url, a) /\ role = EntryRole(at, entry)
      BY <1>7 DEF EntryRole
    <3> HIDE DEF role, e
    <3>2. QED
      BY <3>1, ObserveRecords
  <2>3. ASSUME NEW k \in Probes, NEW n \in Nat, x.role = EntryRole(k, n)
        PROVE  /\ plan[k].state # "exempt"
               /\ Local(k, n) /\ x.url = Declared(Reqs[k])[n].url
    <3>1. EntryRole(at, entry) = EntryRole(k, n) /\ k \in DOMAIN Reqs /\ Started
      BY <1>1, <1>2, <2>2, <2>3 DEF Started
    <3>2. k = at /\ n = entry
      BY <1>2, <3>1, RolesTellApart
    <3>3. QED
      BY <1>2, <2>1, <2>2, <3>2
  <2>4. QED
    BY <1>1, <1>7, <2>2, <2>3, PlansRecord
<1>8. QED
  BY <1>3, <1>4, <1>5, <1>6, <1>7

LEMMA PlansFlip ==
    ASSUME IInv, RInv, RInv', PInv, NEW a \in Answers, ObserveFlip(a) PROVE PInv'
<1> DEFINE req == Reqs[at]
           e == Declared(req)[entry]
<1>1. /\ pc = "flip" /\ pc' = "entry" /\ UNCHANGED <<job, manifest, card, at, results, plan>>
      /\ Observe(req.id \o <<entry, 0>>, e.path, a)
  BY DEF ObserveFlip, asking
<1>2. at \in DOMAIN Reqs /\ entry \in Nat /\ Probes \subseteq DOMAIN Reqs
  BY <1>1 DEF IInv, AdmittedRight, Probes, RInv
<1>3. PICK x : items' = Append(items, x) /\ x.role = FlipRole(at, entry)
  <2> DEFINE role == req.id \o <<entry, 0>>
  <2>1. Observe(role, e.path, a) /\ role = FlipRole(at, entry)
    BY <1>1 DEF FlipRole
  <2> HIDE DEF role
  <2>2. QED
    BY <2>1, ObserveRecords
<1>4. \A k \in Probes, n \in Nat : x.role # EntryRole(k, n)
  BY <1>1, <1>2, <1>3, RolesTellApart DEF Started
<1>5. QED
  BY <1>1, <1>3, <1>4, PlansRecord

\* A verdict says of the record what the judge looked up there.
LEMMA PlansJudge == ASSUME IInv, TInv, PInv, Judge PROVE PInv'
<1> DEFINE req == Reqs[at]
<1>1. /\ pc = "judge" /\ pc' = pc /\ at <= Len(Reqs) /\ at' = at + 1
      /\ results' = Append(results, Result)
      /\ UNCHANGED <<job, manifest, items, card, plan>>
  BY DEF Judge, asking, observed
<1>2. /\ Reqs' = Reqs /\ Probes' = Probes
      /\ \A k, n : EntryRole(k, n)' = EntryRole(k, n)
  BY <1>1 DEF Reqs, Probes, EntryRole
<1>3. /\ at \in 1 .. Len(Reqs) /\ Len(results) = at - 1 /\ \A k \in 1 .. at - 1 : JudgedBy(k)
      /\ plan \in [DOMAIN Reqs -> Plan] /\ Len(Reqs) \in Nat
  <2>1. at \in 1 .. Len(Reqs) + 1
    BY <1>1 DEF IInv, OnTrail
  <2>2. Len(Reqs) \in Nat
    BY <1>1, LetIn DEF Started
  <2>3. QED
    BY <1>1, <2>1, <2>2 DEF PInv, Started
<1>4. /\ Len(results') = at /\ results'[at] = Result
      /\ \A k \in 1 .. at - 1 : results'[k] = results[k]
  <2>1. results \in Seq(Verdict) /\ Result \in Verdict
    BY DEF TInv, Result, Verdict
  <2>2. /\ Len(Append(results, Result)) = Len(results) + 1
        /\ Append(results, Result)[Len(results) + 1] = Result
        /\ \A i \in 1 .. Len(results) : Append(results, Result)[i] = results[i]
    BY <2>1, AppendProperties
  <2>3. QED
    BY <1>1, <1>3, <2>2
<1>5. ASSUME NEW k \in 1 .. at - 1 PROVE JudgedBy(k)'
  <2>1. JudgedBy(k) /\ results'[k] = results[k]
    BY <1>3, <1>4
  <2>2. (ExemptBy(k)' <=> ExemptBy(k)) /\ (MetBy(k)' <=> MetBy(k))
    BY <1>1, <1>2 DEF ExemptBy, MetBy, Declared
  <2>3. QED
    BY <2>1, <2>2 DEF JudgedBy
<1>6. /\ Result.exempt <=> ExemptBy(at)
      /\ Result.verdict = "pass" /\ ~Result.exempt => MetBy(at)
  <2>1. Applies(req) <=> AppliesIn(Reqs, items, card, req)
    BY AppliesIsIn
  <2>2. Result.exempt <=> ExemptBy(at)
    BY <2>1 DEF Result, ExemptBy
  <2>3. CASE req.kind = "endpoint"
    <3>1. Result.verdict = "pass" => Evidence(req.id).status = "200"
      BY <2>3 DEF Result, EndpointPasses, Conforms
    <3>2. QED
      BY <2>2, <2>3, <3>1, EvidenceIsEvidenceIn DEF MetBy
  <2>4. CASE req.kind = "probe"
    <3>1. Result.verdict = "pass" /\ ~Result.exempt => ProbePasses(req, plan[at])
      BY <2>4 DEF Result
    <3>2. ASSUME ProbePasses(req, plan[at])
          PROVE  /\ plan[at].state = "probed"
                 /\ \A n \in DOMAIN Declared(req) : Evidence(Append(req.id, n)).status = "200"
      BY <3>2 DEF ProbePasses, Conforms
    <3>3. QED
      BY <2>2, <2>4, <3>1, <3>2, EvidenceIsEvidenceIn DEF MetBy, EntryRole
  <2>5. CASE req.kind \notin {"endpoint", "probe"}
    BY <2>2, <2>5 DEF MetBy
  <2>6. QED
    BY <2>2, <2>3, <2>4, <2>5
<1>7. \A k \in {at} : JudgedBy(k)'
  <2>1. SUFFICES ASSUME NEW k, k = at PROVE JudgedBy(k)'
    OBVIOUS
  <2>2. (ExemptBy(k)' <=> ExemptBy(k)) /\ (MetBy(k)' <=> MetBy(k))
    BY <1>1, <1>2 DEF ExemptBy, MetBy, Declared
  <2>3. (ExemptBy(k) <=> ExemptBy(at)) /\ (MetBy(k) <=> MetBy(at))
    BY <2>1
  <2>4. results'[k] = Result
    BY <1>4, <2>1
  <2>5. QED
    BY <1>6, <2>2, <2>3, <2>4 DEF JudgedBy
<1>8. \A k \in 1 .. at' - 1 : k \in 1 .. at - 1 \/ k \in {at}
  BY <1>1, <1>3
<1>9. \A k \in 1 .. at' - 1 : JudgedBy(k)'
  BY <1>5, <1>7, <1>8
<1>10. Len(results') = at' - 1
  BY <1>1, <1>3, <1>4
<1>11. ExemptUnasked' /\ EnoughDeclared' /\ AskedWhereDeclared'
  <2>1. ExemptUnasked /\ EnoughDeclared /\ AskedWhereDeclared
    BY <1>1 DEF PInv, Probing
  <2>2. QED
    BY <1>1, <1>2, <2>1
       DEF ExemptUnasked, EnoughDeclared, AskedWhereDeclared, Local, Declared, EntryRole
<1>12. QED
  BY <1>1, <1>2, <1>3, <1>9, <1>10, <1>11 DEF PInv, Started, Probing

LEMMA PlansNext == IInv /\ RInv /\ RInv' /\ TInv /\ PInv /\ [Next]_vars => PInv'
<1> SUFFICES ASSUME IInv, RInv, RInv', TInv, PInv, [Next]_vars PROVE PInv'
  OBVIOUS
<1> USE DEF asking, observed
<1>1. CASE Admit \/ RefuseRow \/ Report
  <2>1. pc' \in {"row", "over"}
    BY <1>1 DEF Admit, RefuseRow, Report, Advance
  <2>2. QED
    BY <2>1, PlansOutside
<1>2. CASE StartRow
  BY <1>2, PlansStartRow
<1>3. CASE ObserveTarget
  <2>1. pc = "target" /\ pc' = "endpoints" /\ UNCHANGED <<job, plan, results>>
    BY <1>3 DEF ObserveTarget
  <2>2. QED
    BY <2>1, PlansEndpoints
<1>4. CASE SkipOthers
  <2>1. pc = "endpoints" /\ pc' = "endpoints" /\ UNCHANGED <<job, plan, results>>
    BY <1>4 DEF SkipOthers
  <2>2. QED
    BY <2>1, PlansEndpoints
<1>5. ASSUME NEW a \in Answers, ObserveEndpoint(a) PROVE PInv'
  <2>1. pc = "endpoints" /\ pc' = "endpoints" /\ UNCHANGED <<job, plan, results>>
    BY <1>5 DEF ObserveEndpoint
  <2>2. QED
    BY <2>1, PlansEndpoints
<1>6. CASE EndpointsObserved
  BY <1>6, PlansEndpointsObserved
<1>7. CASE PlanProbe
  BY <1>7, PlansPlan
<1>8. ASSUME NEW a \in Answers, ObserveEntry(a) PROVE PInv'
  BY <1>8, PlansEntry
<1>9. ASSUME NEW a \in Answers, ObserveFlip(a) PROVE PInv'
  BY <1>9, PlansFlip
<1>10. CASE ProbesObserved
  <2>1. /\ pc = "probes" /\ pc' = "judge" /\ at' = 1
        /\ UNCHANGED <<job, manifest, items, card, plan, results>>
    BY <1>10 DEF ProbesObserved
  <2>2. Reqs' = Reqs /\ Probes' = Probes
    BY <2>1 DEF Reqs, Probes
  <2>3. /\ ExemptUnasked /\ EnoughDeclared /\ AskedWhereDeclared
        /\ results = <<>> /\ plan \in [DOMAIN Reqs -> Plan]
    BY <2>1 DEF PInv, Probing, Started
  <2>4. ExemptUnasked' /\ EnoughDeclared' /\ AskedWhereDeclared'
    BY <2>1, <2>2, <2>3
       DEF ExemptUnasked, EnoughDeclared, AskedWhereDeclared, Local, Declared, EntryRole
  <2>5. Len(results') = at' - 1 /\ \A k \in 1 .. at' - 1 : FALSE
    BY <2>1, <2>3
  <2>6. QED
    BY <2>1, <2>2, <2>3, <2>4, <2>5 DEF PInv, Started, Probing
<1>11. CASE Judge
  BY <1>11, PlansJudge
<1>12. CASE UNCHANGED vars
  <2>1. UNCHANGED <<job, manifest, pc, at, items, card, plan, results>>
    BY <1>12 DEF vars
  <2>2. Reqs' = Reqs /\ Probes' = Probes
    BY <2>1 DEF Reqs, Probes
  <2>3. (ExemptUnasked /\ EnoughDeclared /\ AskedWhereDeclared) =>
            (ExemptUnasked' /\ EnoughDeclared' /\ AskedWhereDeclared')
    BY <2>1, <2>2
       DEF ExemptUnasked, EnoughDeclared, AskedWhereDeclared, Local, Declared, EntryRole
  <2>4. ASSUME NEW k, JudgedBy(k) PROVE JudgedBy(k)'
    <3>1. (ExemptBy(k)' <=> ExemptBy(k)) /\ (MetBy(k)' <=> MetBy(k))
      BY <2>1, <2>2 DEF ExemptBy, MetBy, Declared, EntryRole
    <3>2. QED
      BY <2>1, <2>4, <3>1 DEF JudgedBy
  <2>5. QED
    BY <2>1, <2>2, <2>3, <2>4 DEF PInv, Started, Probing
<1>13. QED
  BY <1>1, <1>2, <1>3, <1>4, <1>5, <1>6, <1>7, <1>8, <1>9, <1>10, <1>11, <1>12 DEF Next

LEMMA VerdictsInvariance == Spec => [](IInv /\ TInv /\ PInv)
<1>1. QED
  BY InvInit, InvNext, RolesInit, RolesNext, TypesInit, TypesNext, PlansInit, PlansNext, PTL
     DEF Spec

\* What was answered was recorded.
LEMMA AnsweredIs ==
    ASSUME NEW role, EvidenceIn(items, role).status = "200"
    PROVE  Has(role) /\ Find(role) = EvidenceIn(items, role)
<1>1. NoBody.status = "none"
  BY DEF NoBody, Item, NoAnswer
<1>2. HasIn(items, role)
  BY <1>1 DEF EvidenceIn
<1>3. Has(role)
  BY <1>2, HasIsHasIn
<1>4. Evidence(role) = Find(role)
  BY <1>3 DEF Evidence
<1>5. QED
  BY <1>3, <1>4, EvidenceIsEvidenceIn

\* When all is judged and passed, the verdicts speak of every requirement.
LEMMA AllJudged ==
    ASSUME IInv, TInv, PInv, Judged, Passed
    PROVE  /\ DOMAIN results = DOMAIN Reqs /\ Started
           /\ ExemptUnasked /\ EnoughDeclared /\ AskedWhereDeclared
           /\ \A k \in DOMAIN Reqs :
                 (results[k].exempt <=> ExemptBy(k)) /\ (~results[k].exempt => MetBy(k))
<1>1. pc = "judge" /\ at > Len(Reqs)
  BY DEF Judged
<1>2. at \in 1 .. Len(Reqs) + 1
  BY <1>1 DEF IInv, OnTrail
<1>3. Len(Reqs) \in Nat /\ DOMAIN Reqs = 1 .. Len(Reqs)
  BY <1>1, LetIn DEF Started
<1>4. at - 1 = Len(Reqs)
  BY <1>1, <1>2, <1>3
<1>5. /\ Len(results) = Len(Reqs) /\ \A k \in 1 .. Len(Reqs) : JudgedBy(k)
      /\ ExemptUnasked /\ EnoughDeclared /\ AskedWhereDeclared
  BY <1>1, <1>4 DEF PInv, Probing
<1>6. DOMAIN results = 1 .. Len(results)
  BY LenProperties DEF TInv
<1>7. QED
  BY <1>1, <1>3, <1>5, <1>6 DEF Passed, JudgedBy, Started

\* The number of a requirement's entries is the number of different URLs that were asked for
\* them, when all of them have answers.
LEMMA EntriesCounted ==
    ASSUME IInv, TInv, Started, AskedWhereDeclared, NEW k \in Probes,
           \A n \in DOMAIN Declared(Reqs[k]) : HasIn(items, EntryRole(k, n))
    PROVE  LET U == {items[i].url : i \in {j \in DOMAIN items :
                        items[j].role # Reqs[k].id /\ Front(items[j].role) = Reqs[k].id}}
           IN  Cardinality(U) \in Nat /\ Cardinality(U) >= Len(Declared(Reqs[k]))
<1> DEFINE D == Declared(Reqs[k])
           J == {j \in DOMAIN items :
                    items[j].role # Reqs[k].id /\ Front(items[j].role) = Reqs[k].id}
           U == {items[i].url : i \in J}
           N == Len(D)
           f == [n \in 1 .. N |-> D[n].url]
           W == {f[n] : n \in DOMAIN f}
<1>1. /\ N \in Nat /\ DOMAIN D = 1 .. N
      /\ \A n, m \in 1 .. N : D[n].url = D[m].url => n = m
  BY DeclaredIs DEF TInv
<1>2. k \in DOMAIN Reqs /\ Reqs[k].id \in Seq(Nat) /\ Len(Reqs[k].id) = 1
  BY LetIn DEF Probes, Requirement, Id
<1>3. IsFiniteSet(U)
  <2>1. IsFiniteSet(J)
    <3>1. Len(items) \in Nat /\ DOMAIN items = 1 .. Len(items)
      <4>1. \E S : items \in Seq(S)
        BY DEF IInv, Exchanges
      <4>2. QED
        BY <4>1, LenProperties
    <3>2. J \in SUBSET (1 .. Len(items))
      BY <3>1
    <3>3. IsFiniteSet(1 .. Len(items))
      BY <3>1, FS_Interval
    <3> HIDE DEF J
    <3>4. QED
      BY <3>2, <3>3, FS_Subset
  <2> HIDE DEF J
  <2> DEFINE g == [i \in J |-> items[i].url]
  <2>2. DOMAIN g = J /\ U = {g[i] : i \in DOMAIN g}
    OBVIOUS
  <2> HIDE DEF g, U
  <2>3. IsFiniteSet({g[i] : i \in DOMAIN g})
    BY <2>1, <2>2, ValuesAreFinite
  <2>4. QED
    BY <2>2, <2>3
<1>4. Cardinality(W) = N
  <2>1. DOMAIN f = 1 .. N /\ \A n, m \in DOMAIN f : f[n] = f[m] => n = m
    BY <1>1
  <2>2. IsFiniteSet(1 .. N) /\ Cardinality(1 .. N) = N
    <3>1. 1 \in Int /\ N \in Int
      BY <1>1
    <3>2. /\ IsFiniteSet(1 .. N)
          /\ Cardinality(1 .. N) = IF 1 > N THEN 0 ELSE N - 1 + 1
      <4> HIDE DEF N
      <4>1. QED
        BY <3>1, FS_Interval
    <3> HIDE DEF N
    <3>3. QED
      BY <1>1, <3>2
  <2> HIDE DEF f, N
  <2>3. QED
    BY <2>1, <2>2, DifferentValues
<1>5. W \in SUBSET U
  <2>1. SUFFICES ASSUME NEW n \in 1 .. N PROVE D[n].url \in U
    OBVIOUS
  <2>2. n \in Nat /\ HasIn(items, EntryRole(k, n))
    BY <1>1
  <2>3. PICK i \in DOMAIN items : items[i].role = EntryRole(k, n)
    BY <2>2 DEF HasIn
  <2>4. items[i].url = D[n].url
    BY <2>2, <2>3 DEF AskedWhereDeclared
  <2>5. EntryRole(k, n) # Reqs[k].id /\ Front(EntryRole(k, n)) = Reqs[k].id
    <3> DEFINE id == Reqs[k].id
               t == Append(id, n)
    <3>1. id \in Seq(Nat) /\ Len(id) = 1
      BY <1>2
    <3> HIDE DEF id
    <3>2. t \in Seq(Nat) /\ Len(t) = 2 /\ t[1] = id[1]
      <4>1. n \in Nat
        BY <2>2
      <4>2. Append(id, n) \in Seq(Nat)
        BY <3>1, <4>1, AppendProperties
      <4>3. /\ Len(Append(id, n)) = 2 /\ Append(id, n)[1] = id[1] /\ Append(id, n)[2] = n
            /\ Len(id \o <<n, 0>>) = 3 /\ (id \o <<n, 0>>)[1] = id[1]
            /\ (id \o <<n, 0>>)[2] = n
        BY <3>1, <4>1, SuffixShape
      <4>4. QED
        BY <4>2, <4>3
    <3>3. Len(t) # Len(id)
      BY <3>1, <3>2
    <3> HIDE DEF t
    <3>4. \A j \in 1 .. 1 : t[j] \in Nat
      <4>1. 1 \in 1 .. Len(t)
        BY <3>2
      <4>2. t[1] \in Nat
        BY <3>2, <4>1, ElementOfSeq
      <4>3. QED
        BY <4>2
    <3>5. /\ SubSeq(t, 1, 1) \in Seq(Nat) /\ Len(SubSeq(t, 1, 1)) = IF 1 <= 1 THEN 1 - 1 + 1 ELSE 0
          /\ \A j \in 1 .. 1 - 1 + 1 : SubSeq(t, 1, 1)[j] = t[1 + j - 1]
      BY <3>4, SubSeqProperties
    <3>6. Len(SubSeq(t, 1, 1)) = 1 /\ SubSeq(t, 1, 1)[1] = id[1]
      BY <3>2, <3>5
    <3>7. SubSeq(t, 1, 1) = id
      BY <3>1, <3>5, <3>6, SeqEqual
    <3>8. Front(t) = id
      BY <3>2, <3>7 DEF Front
    <3>9. QED
      BY <3>3, <3>8 DEF EntryRole, t, id
  <2>6. i \in J
    BY <2>3, <2>5
  <2> HIDE DEF J
  <2>7. QED
    BY <2>4, <2>6
<1> HIDE DEF U, W, N
<1>6. Cardinality(W) <= Cardinality(U)
  BY <1>3, <1>5, FS_Subset
<1>7. Cardinality(U) \in Nat
  BY <1>3, FS_CardinalityType
<1>8. QED
  BY <1>1, <1>4, <1>6, <1>7 DEF U, N

\* A contract is never met unobserved, whatever the card declares and however often it
\* declares it: in a run that passes, each requirement that applies has answers of its own, a
\* probe as many different ones as its contract asks.
THEOREM NoPassUnobserved == Spec => []PassIsObserved
<1>1. ASSUME IInv, TInv, PInv PROVE PassIsObserved
  <2>1. SUFFICES ASSUME Judged, Passed, NEW k \in DOMAIN Reqs, ~results[k].exempt
        PROVE  /\ Reqs[k].kind = "endpoint" => Has(Reqs[k].id) /\ Find(Reqs[k].id).status = "200"
               /\ Reqs[k].kind = "probe" =>
                     /\ \A n \in DOMAIN Declared(Reqs[k]) :
                           /\ Has(Append(Reqs[k].id, n))
                           /\ Find(Append(Reqs[k].id, n)).status = "200"
                     /\ Cardinality({items[i].url : i \in {j \in DOMAIN items :
                            items[j].role # Reqs[k].id /\ Front(items[j].role) = Reqs[k].id}})
                            >= Reqs[k].min
    BY DEF PassIsObserved
  <2>2. Started /\ EnoughDeclared /\ AskedWhereDeclared /\ MetBy(k)
    BY <1>1, <2>1, AllJudged
  <2>3. ASSUME Reqs[k].kind = "endpoint"
        PROVE  Has(Reqs[k].id) /\ Find(Reqs[k].id).status = "200"
    BY <2>2, <2>3, AnsweredIs DEF MetBy
  <2>4. CASE Reqs[k].kind = "probe"
    <3>1. /\ plan[k].state = "probed" /\ k \in Probes
          /\ \A n \in DOMAIN Declared(Reqs[k]) : EvidenceIn(items, EntryRole(k, n)).status = "200"
      BY <2>2, <2>4 DEF MetBy, Probes
    <3>2. ASSUME NEW n \in DOMAIN Declared(Reqs[k])
          PROVE  /\ Has(Append(Reqs[k].id, n)) /\ Find(Append(Reqs[k].id, n)).status = "200"
                 /\ HasIn(items, EntryRole(k, n))
      BY <3>1, AnsweredIs, HasIsHasIn DEF EntryRole
    <3> DEFINE c == Cardinality({items[i].url : i \in {j \in DOMAIN items :
                       items[j].role # Reqs[k].id /\ Front(items[j].role) = Reqs[k].id}})
    <3>3. c \in Nat /\ c >= Len(Declared(Reqs[k]))
      BY <1>1, <2>2, <3>1, <3>2, EntriesCounted
    <3>4. Len(Declared(Reqs[k])) >= Reqs[k].min
      BY <2>2, <3>1 DEF EnoughDeclared
    <3>5. Len(Declared(Reqs[k])) \in Nat /\ Reqs[k].min \in Nat
      <4>1. Reqs[k].min \in Nat
        BY <1>1, RequirementTypes DEF IInv, AdmittedRight, Requirement
      <4>2. QED
        BY <1>1, <2>2, <3>1, <4>1, DeclaredIs DEF TInv
    <3>6. c >= Reqs[k].min
      <4> HIDE DEF c
      <4>1. QED
        BY <3>3, <3>4, <3>5
    <3>7. QED
      BY <2>4, <3>2, <3>6
  <2>5. QED
    BY <2>3, <2>4
<1>2. QED
  BY <1>1, VerdictsInvariance, PTL

\* No requirement is exempt for want of evidence: in a run that passes, what exempts it is the
\* card, read, of an optional check, or a value that another requirement observed, was judged
\* by and passed.
THEOREM NothingExemptUnproven == Spec => []ExemptionIsProven
<1>1. ASSUME IInv, TInv, PInv PROVE ExemptionIsProven
  <2>1. SUFFICES ASSUME Judged, Passed, NEW k \in DOMAIN Reqs, results[k].exempt
        PROVE  \/ /\ Reqs[k].applies.arm = "card" /\ Reqs[k].applies.own
                  /\ Reqs[k].kind = "check" /\ card = "absent"
               \/ /\ Reqs[k].applies.arm = "probe"
                  /\ \E s \in DOMAIN Reqs :
                        /\ Reqs[s].kind = "probe" /\ Reqs[s].channel = Reqs[k].applies.from
                        /\ ~results[s].exempt /\ Has(Append(Reqs[s].id, 1))
                        /\ Find(Append(Reqs[s].id, 1)).status = "200"
                        /\ Find(Append(Reqs[s].id, 1)).value \notin {None, Reqs[k].applies.equals}
    BY DEF ExemptionIsProven
  <2>2. /\ Started /\ ExemptUnasked /\ AskedWhereDeclared
        /\ \A l \in DOMAIN Reqs :
              (results[l].exempt <=> ExemptBy(l)) /\ (~results[l].exempt => MetBy(l))
    BY <1>1, <2>1, AllJudged
  <2>3. ~AppliesIn(Reqs, items, card, Reqs[k])
    BY <2>1, <2>2 DEF ExemptBy, ExemptUnasked, Probes
  <2>4. Reqs \in Seq(Requirement) /\ Valid(Reqs)
    BY <1>1, <2>2, LetIn DEF IInv, AdmittedRight, RowAdmitted
  <2>5. \/ Reqs[k].applies.arm = "card" /\ card = "absent"
        \/ /\ Reqs[k].applies.arm = "probe"
           /\ \E s \in DOMAIN Reqs :
                 /\ Reqs[s].kind = "probe" /\ Reqs[s].channel = Reqs[k].applies.from
                 /\ HasIn(items, Append(Reqs[s].id, 1))
                 /\ EvidenceIn(items, Append(Reqs[s].id, 1)).value
                       \notin {None, Reqs[k].applies.equals}
    BY <2>3, <2>4, ExemptionRests
  <2>6. CASE Reqs[k].applies.arm = "card" /\ card = "absent"
    BY <2>4, <2>6 DEF Valid, AppliesWhenIsLegal
  <2>7. CASE /\ Reqs[k].applies.arm = "probe"
             /\ \E s \in DOMAIN Reqs :
                   /\ Reqs[s].kind = "probe" /\ Reqs[s].channel = Reqs[k].applies.from
                   /\ HasIn(items, Append(Reqs[s].id, 1))
                   /\ EvidenceIn(items, Append(Reqs[s].id, 1)).value
                         \notin {None, Reqs[k].applies.equals}
    <3>1. PICK s \in DOMAIN Reqs :
            /\ Reqs[s].kind = "probe" /\ Reqs[s].channel = Reqs[k].applies.from
            /\ HasIn(items, Append(Reqs[s].id, 1))
            /\ EvidenceIn(items, Append(Reqs[s].id, 1)).value \notin {None, Reqs[k].applies.equals}
      BY <2>7
    <3>2. s \in Probes /\ HasIn(items, EntryRole(s, 1))
      BY <3>1 DEF Probes, EntryRole
    <3>3. ~results[s].exempt
      BY <2>2, <3>1, <3>2 DEF ExemptBy, ExemptUnasked
    <3>4. 1 \in DOMAIN Declared(Reqs[s])
      BY <2>2, <3>2 DEF HasIn, AskedWhereDeclared, Local
    <3>5. EvidenceIn(items, EntryRole(s, 1)).status = "200"
      BY <2>2, <3>1, <3>3, <3>4 DEF MetBy
    <3>6. /\ Has(Append(Reqs[s].id, 1))
          /\ Find(Append(Reqs[s].id, 1)) = EvidenceIn(items, Append(Reqs[s].id, 1))
      BY <3>5, AnsweredIs DEF EntryRole
    <3>7. QED
      BY <2>7, <3>1, <3>3, <3>5, <3>6 DEF EntryRole
  <2>8. QED
    BY <2>5, <2>6, <2>7
<1>2. QED
  BY <1>1, VerdictsInvariance, PTL

=============================================================================
