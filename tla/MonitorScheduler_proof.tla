------------------------ MODULE MonitorScheduler_proof ------------------------
(***************************************************************************)
(* Proofs about MonitorScheduler, for every number of monitors, ticks and  *)
(* clients: type correctness, that the index names only monitors with a    *)
(* record, that a slot is claimed once and the cap starves nobody as long  *)
(* as ticks are shorter than the shortest interval, that the history of    *)
(* runs loses no run unless a monitor falls due while it is run, and that  *)
(* no tick is stuck or goes back.                                          *)
(***************************************************************************)
EXTENDS RunHistory, Ranks, SequenceTheorems, TLAPS

LEMMA TypeInit == Init => TypeOK
BY ConstantsAssumption, ProcessAssumption
   DEF Init, TypeOK, StoreTypeOK, PcTypeOK, TickTypeOK, ReqTypeOK, HistoryTypeOK, HoldsOK,
       NoTick, NoReq, Handling, Holding, Requesting, TickRec, ReqRec, Slot

\* Changing a record's due time keeps the rest of it.
LEMMA WithDue == ASSUME NEW r \in Record, NEW d \in Nat
                 PROVE  /\ [r EXCEPT !.due = d] \in Record
                        /\ [r EXCEPT !.due = d].gen = r.gen
                        /\ [r EXCEPT !.due = d].due = d
BY DEF Record

\* The slot a claim or a catch block writes is one interval after the tick's nowMs.
LEMMA AdvancedType == ASSUME TickTypeOK, NEW t \in Ticks, tick[t].cur \in Item, NEW r \in Record
                      PROVE  /\ Advanced(r, t) \in Record
                             /\ Advanced(r, t).gen = r.gen
                             /\ \E i \in Intervals : Advanced(r, t).due = tick[t].at + i
<1>1. tick[t].at \in Nat /\ tick[t].cur[2].interval \in Intervals
  BY DEF TickTypeOK, TickRec, Item, Record
<1>2. \A x \in Nat, i \in Intervals : x + i \in Nat
  BY ConstantsAssumption
<1>3. QED
  BY <1>1, <1>2, WithDue DEF Advanced

\* The record a finished run writes back is a record.
LEMMA FinishType == ASSUME TickTypeOK, NEW t \in Ticks, tick[t].held \in Record
                    PROVE  [tick[t].held EXCEPT !.expires = tick[t].at + Ttl] \in Record
<1>1. tick[t].at + Ttl \in Nat
  BY ConstantsAssumption DEF TickTypeOK, TickRec
<1>2. QED
  BY <1>1 DEF Record

\* Cutting a history at its cap leaves a history.
LEMMA BoundedType == ASSUME NEW s \in Seq(Nat) PROVE Bounded(s) \in Seq(Nat)
<1>1. HistoryCap \in Nat \ {0} /\ Len(s) \in Nat
  BY ConstantsAssumption
<1>2. CASE Len(s) <= HistoryCap
  BY <1>2 DEF Bounded
<1>3. CASE ~(Len(s) <= HistoryCap)
  <2>1. Len(s) - HistoryCap + 1 \in 1 .. Len(s)
    BY <1>1, <1>3
  <2>2. \A i \in Len(s) - HistoryCap + 1 .. Len(s) : s[i] \in Nat
    BY <1>1, <2>1
  <2>3. SubSeq(s, Len(s) - HistoryCap + 1, Len(s)) \in Seq(Nat)
    BY <1>1, <2>1, <2>2, SubSeqProperties
  <2>4. QED
    BY <1>3, <2>3 DEF Bounded
<1>4. QED
  BY <1>2, <1>3

\* A tick that lets go of its item keeps its type.
LEMMA ReleaseType == ASSUME TickTypeOK, NEW t \in Ticks, Release(t) PROVE TickTypeOK'
<1> DEFINE v == [tick[t] EXCEPT !.cur = None, !.held = None, !.hist = <<>>]
<1>1. v \in TickRec
  <2>1. tick[t] \in TickRec
    BY DEF TickTypeOK
  <2>2. <<>> \in Seq(Nat)
    OBVIOUS
  <2>3. QED
    BY <2>1, <2>2 DEF TickRec
<1>2. tick' = [tick EXCEPT ![t] = v]
  BY DEF Release
<1>3. QED
  BY <1>1, <1>2 DEF TickTypeOK

LEMMA TypeStep == TypeOK /\ [Next]_vars => TypeOK'
<1> SUFFICES ASSUME StoreTypeOK, PcTypeOK, TickTypeOK, ReqTypeOK, HistoryTypeOK, HoldsOK,
                    [Next]_vars
             PROVE  TypeOK'
  BY DEF TypeOK
<1>1. QED
  <2>1. ASSUME NEW c \in Clients, NEW m \in Monitors, NEW i \in Intervals, RegisterCheck(c, m, i)
        PROVE  TypeOK'
    <3>1. StoreTypeOK'
      BY <2>1 DEF StoreTypeOK, ReqTypeOK, HoldsOK, ReqRec, Requesting, Goto,
         RegisterCheck, history, bounds, Record
    <3>2. PcTypeOK'
      BY <2>1 DEF PcTypeOK, Handling, Requesting, Goto, RegisterCheck, history,
         bounds
    <3>3. ReqTypeOK'
      <4>1. [gen |-> gen + 1, interval |-> i, due |-> now, expires |-> now + Ttl] \in Record
        BY ConstantsAssumption DEF StoreTypeOK, Record
      <4>2. req' = [req EXCEPT ![c].id = m, ![c].new =
                 [gen |-> gen + 1, interval |-> i, due |-> now, expires |-> now + Ttl]]
        BY <2>1 DEF RegisterCheck
      <4>3. QED
        BY <4>1, <4>2 DEF ReqTypeOK, ReqRec
    <3>4. HoldsOK'
      <4>1. [gen |-> gen + 1, interval |-> i, due |-> now, expires |-> now + Ttl] \in Record
        BY ConstantsAssumption DEF StoreTypeOK, Record
      <4>2. req' = [req EXCEPT ![c].id = m, ![c].new =
                 [gen |-> gen + 1, interval |-> i, due |-> now, expires |-> now + Ttl]]
        BY <2>1 DEF RegisterCheck
      <4>3. req'[c].id = m /\ req'[c].new \in Record /\ \A d \in Clients \ {c} : req'[d] = req[d]
        BY <4>1, <4>2 DEF ReqTypeOK, ReqRec
      <4>4. pc' = [pc EXCEPT ![c] = "regPut"] /\ pc[c] = "idle" /\ UNCHANGED <<tick, chain>>
        BY <2>1 DEF RegisterCheck, Goto
      <4>5. QED
        BY <4>3, <4>4, ProcessAssumption, SMTT(30)
           DEF HoldsOK, PcTypeOK, Handling, Holding, Requesting
    <3>5. QED
      BY <2>1, <3>1, <3>2, <3>3, <3>4 DEF TypeOK, TickTypeOK, HistoryTypeOK,
         RegisterCheck, history, bounds
  <2>2. ASSUME NEW c \in Clients, RegisterPut(c)
        PROVE  TypeOK'
    <3>1. StoreTypeOK'
      BY <2>2 DEF StoreTypeOK, ReqTypeOK, HoldsOK, ReqRec, Requesting, Goto,
         RegisterPut, history, bounds, ForgetMonitor
    <3>2. PcTypeOK'
      BY <2>2 DEF PcTypeOK, Handling, Requesting, Goto, RegisterPut, history,
         bounds, ForgetMonitor
    <3>3. HistoryTypeOK'
      BY <2>2 DEF HistoryTypeOK, StoreTypeOK, HoldsOK, Holding, Handling, Goto,
         RegisterPut, history, bounds, ForgetMonitor
    <3>4. HoldsOK'
      BY ProcessAssumption, <2>2, SMTT(30) DEF HoldsOK, PcTypeOK, TickTypeOK,
         TickRec, ReqTypeOK, ReqRec, StoreTypeOK, Handling, Holding, Requesting,
         Goto, RegisterPut, history, bounds, ForgetMonitor
    <3>5. QED
      BY <2>2, <3>1, <3>2, <3>3, <3>4 DEF TypeOK, TickTypeOK, ReqTypeOK,
         RegisterPut, history, bounds, ForgetMonitor
  <2>3. ASSUME NEW c \in Clients, RegisterRead(c)
        PROVE  TypeOK'
    <3>1. PcTypeOK'
      BY <2>3 DEF PcTypeOK, Handling, Requesting, Goto, RegisterRead, history,
         bounds
    <3>2. ReqTypeOK'
      <4>1. CASE req[c].id \in index
        BY <4>1, <2>3 DEF ReqTypeOK, ReqRec, RegisterRead, NoReq
      <4>2. CASE req[c].id \notin index
        <5>1. index \in SUBSET Monitors
          BY DEF StoreTypeOK
        <5>2. req' = [req EXCEPT ![c].snap = index]
          BY <4>2, <2>3 DEF RegisterRead
        <5>3. QED
          BY <5>1, <5>2 DEF ReqTypeOK, ReqRec
      <4>3. QED
        BY <4>1, <4>2
    <3>3. HoldsOK'
      <4>1. pc'[c] \in {"idle", "regWrite"} /\ \A p \in (Ticks \cup Clients) \ {c} : pc'[p] = pc[p]
        BY <2>3 DEF RegisterRead, Goto, PcTypeOK
      <4>2. pc'[c] = "regWrite" => req'[c].id = req[c].id
        BY <2>3 DEF RegisterRead, Goto, PcTypeOK, ReqTypeOK, ReqRec
      <4>3. \A d \in Clients \ {c} : req'[d] = req[d]
        BY <2>3 DEF RegisterRead, ReqTypeOK
      <4>4. pc[c] = "regRead" /\ UNCHANGED <<tick, chain>>
        BY <2>3 DEF RegisterRead, Goto
      <4>5. QED
        BY <4>1, <4>2, <4>3, <4>4, ProcessAssumption DEF HoldsOK, Handling, Holding, Requesting
    <3>4. QED
      BY <2>3, <3>1, <3>2, <3>3 DEF TypeOK, StoreTypeOK, TickTypeOK,
         HistoryTypeOK, RegisterRead, history, bounds
  <2>4. ASSUME NEW c \in Clients, RegisterWrite(c)
        PROVE  TypeOK'
    <3>1. StoreTypeOK'
      BY <2>4 DEF StoreTypeOK, ReqTypeOK, HoldsOK, ReqRec, Requesting, Goto,
         RegisterWrite, history, bounds, ForgetPassed, NoReq
    <3>2. PcTypeOK'
      BY <2>4 DEF PcTypeOK, Handling, Requesting, Goto, RegisterWrite, history,
         bounds, ForgetPassed
    <3>3. ReqTypeOK'
      BY <2>4 DEF ReqTypeOK, ReqRec, StoreTypeOK, RegisterWrite, history, bounds,
         ForgetPassed, NoReq
    <3>4. HistoryTypeOK'
      BY <2>4 DEF HistoryTypeOK, StoreTypeOK, HoldsOK, Holding, Handling, Goto,
         RegisterWrite, history, bounds, ForgetPassed, NoReq
    <3>5. HoldsOK'
      BY ProcessAssumption, <2>4, SMTT(30) DEF HoldsOK, PcTypeOK, TickTypeOK,
         TickRec, ReqTypeOK, ReqRec, StoreTypeOK, Handling, Holding, Requesting,
         Goto, RegisterWrite, history, bounds, ForgetPassed, NoReq
    <3>6. QED
      BY <2>4, <3>1, <3>2, <3>3, <3>4, <3>5 DEF TypeOK, TickTypeOK, RegisterWrite,
         history, bounds, ForgetPassed
  <2>5. ASSUME NEW c \in Clients, NEW m \in Monitors, DeleteRead(c, m)
        PROVE  TypeOK'
    <3>1. PcTypeOK'
      BY <2>5 DEF PcTypeOK, Handling, Requesting, Goto, DeleteRead, history,
         bounds
    <3>2. ReqTypeOK'
      BY <2>5 DEF ReqTypeOK, ReqRec, StoreTypeOK, DeleteRead, history, bounds
    <3>3. HoldsOK'
      BY ProcessAssumption, <2>5, SMTT(30) DEF HoldsOK, PcTypeOK, TickTypeOK,
         TickRec, ReqTypeOK, ReqRec, StoreTypeOK, Handling, Holding, Requesting,
         Goto, DeleteRead, history, bounds
    <3>4. QED
      BY <2>5, <3>1, <3>2, <3>3 DEF TypeOK, StoreTypeOK, TickTypeOK,
         HistoryTypeOK, DeleteRead, history, bounds
  <2>6. ASSUME NEW c \in Clients, DeleteWrite(c)
        PROVE  TypeOK'
    <3>1. StoreTypeOK'
      BY <2>6 DEF StoreTypeOK, ReqTypeOK, HoldsOK, ReqRec, Requesting, Goto,
         DeleteWrite, history, bounds, ForgetPassed, NoReq
    <3>2. PcTypeOK'
      BY <2>6 DEF PcTypeOK, Handling, Requesting, Goto, DeleteWrite, history,
         bounds, ForgetPassed
    <3>3. ReqTypeOK'
      BY <2>6 DEF ReqTypeOK, ReqRec, StoreTypeOK, DeleteWrite, history, bounds,
         ForgetPassed, NoReq
    <3>4. HistoryTypeOK'
      BY <2>6 DEF HistoryTypeOK, StoreTypeOK, HoldsOK, Holding, Handling, Goto,
         DeleteWrite, history, bounds, ForgetPassed, NoReq
    <3>5. HoldsOK'
      BY ProcessAssumption, <2>6, SMTT(30) DEF HoldsOK, PcTypeOK, TickTypeOK,
         TickRec, ReqTypeOK, ReqRec, StoreTypeOK, Handling, Holding, Requesting,
         Goto, DeleteWrite, history, bounds, ForgetPassed, NoReq
    <3>6. QED
      BY <2>6, <3>1, <3>2, <3>3, <3>4, <3>5 DEF TypeOK, TickTypeOK, DeleteWrite,
         history, bounds, ForgetPassed
  <2>7. ASSUME NEW c \in Clients, ClientCrash(c)
        PROVE  TypeOK'
    <3>1. StoreTypeOK'
      BY <2>7 DEF StoreTypeOK, ReqTypeOK, HoldsOK, ReqRec, Requesting, Goto,
         ClientCrash, history, bounds, NoReq
    <3>2. PcTypeOK'
      BY <2>7 DEF PcTypeOK, Handling, Requesting, Goto, ClientCrash, history,
         bounds
    <3>3. ReqTypeOK'
      BY <2>7 DEF ReqTypeOK, ReqRec, StoreTypeOK, ClientCrash, history, bounds,
         NoReq
    <3>4. HoldsOK'
      BY ProcessAssumption, <2>7, SMTT(30) DEF HoldsOK, PcTypeOK, TickTypeOK,
         TickRec, ReqTypeOK, ReqRec, StoreTypeOK, Handling, Holding, Requesting,
         Goto, ClientCrash, history, bounds, NoReq
    <3>5. QED
      BY <2>7, <3>1, <3>2, <3>3, <3>4 DEF TypeOK, TickTypeOK, HistoryTypeOK,
         ClientCrash, history, bounds
  <2>8. ASSUME NEW h \in Hosts, OnDemandVerify(h)
        PROVE  TypeOK'
    <3>1. StoreTypeOK'
      BY <2>8 DEF StoreTypeOK, ReqTypeOK, HoldsOK, ReqRec, Requesting, Goto,
         OnDemandVerify, history, bounds
    <3>2. HoldsOK'
      BY ProcessAssumption, <2>8, SMTT(30) DEF HoldsOK, PcTypeOK, TickTypeOK,
         TickRec, ReqTypeOK, ReqRec, StoreTypeOK, Handling, Holding, Requesting,
         Goto, OnDemandVerify, history, bounds
    <3>3. QED
      BY <2>8, <3>1, <3>2 DEF TypeOK, PcTypeOK, TickTypeOK, ReqTypeOK,
         HistoryTypeOK, OnDemandVerify, history, bounds
  <2>9. ASSUME NEW t \in Ticks, StartTick(t)
        PROVE  TypeOK'
    <3>1. StoreTypeOK'
      BY <2>9 DEF StoreTypeOK, ReqTypeOK, HoldsOK, ReqRec, Requesting, Goto,
         StartTick, history, bounds
    <3>2. PcTypeOK'
      BY <2>9 DEF PcTypeOK, Handling, Requesting, Goto, StartTick, history, bounds
    <3>3. TickTypeOK'
      <4>1. now \in Nat
        BY DEF StoreTypeOK
      <4>2. tick' = [tick EXCEPT ![t].at = now]
        BY <2>9 DEF StartTick
      <4>3. QED
        BY <4>1, <4>2 DEF TickTypeOK, TickRec
    <3>4. HoldsOK'
      BY ProcessAssumption, <2>9, SMTT(30) DEF HoldsOK, PcTypeOK, TickTypeOK,
         TickRec, ReqTypeOK, ReqRec, StoreTypeOK, Handling, Holding, Requesting,
         Goto, StartTick, history, bounds
    <3>5. QED
      BY <2>9, <3>1, <3>2, <3>3, <3>4 DEF TypeOK, ReqTypeOK, HistoryTypeOK,
         StartTick, history, bounds
  <2>10. ASSUME NEW t \in Ticks, EvictList(t)
        PROVE  TypeOK'
    <3>1. PcTypeOK'
      BY <2>10 DEF PcTypeOK, Handling, Requesting, Goto, EvictList, history,
         bounds
    <3>2. TickTypeOK'
      <4>1. {m \in Listed : rec[m].expires <= tick[t].at} \in SUBSET Monitors
        BY DEF StoreTypeOK, Listed
      <4>2. tick' = [tick EXCEPT ![t].dead = {m \in Listed : rec[m].expires <= tick[t].at}]
        BY <2>10 DEF EvictList
      <4>3. QED
        BY <4>1, <4>2 DEF TickTypeOK, TickRec
    <3>3. HoldsOK'
      BY ProcessAssumption, <2>10, SMTT(30) DEF HoldsOK, PcTypeOK, TickTypeOK,
         TickRec, ReqTypeOK, ReqRec, StoreTypeOK, Handling, Holding, Requesting,
         Goto, EvictList, history, bounds
    <3>4. QED
      BY <2>10, <3>1, <3>2, <3>3 DEF TypeOK, StoreTypeOK, ReqTypeOK,
         HistoryTypeOK, EvictList, history, bounds
  <2>11. ASSUME NEW t \in Ticks, EvictRead(t)
        PROVE  TypeOK'
    <3>1. PcTypeOK'
      BY <2>11 DEF PcTypeOK, Handling, Requesting, Goto, EvictRead, history,
         bounds
    <3>2. TickTypeOK'
      <4>1. index \in SUBSET Monitors
        BY DEF StoreTypeOK
      <4>2. tick' = [tick EXCEPT ![t].snap = index]
        BY <2>11 DEF EvictRead
      <4>3. QED
        BY <4>1, <4>2 DEF TickTypeOK, TickRec
    <3>3. HoldsOK'
      BY ProcessAssumption, <2>11, SMTT(30) DEF HoldsOK, PcTypeOK, TickTypeOK,
         TickRec, ReqTypeOK, ReqRec, StoreTypeOK, Handling, Holding, Requesting,
         Goto, EvictRead, history, bounds
    <3>4. QED
      BY <2>11, <3>1, <3>2, <3>3 DEF TypeOK, StoreTypeOK, ReqTypeOK,
         HistoryTypeOK, EvictRead, history, bounds
  <2>12. ASSUME NEW t \in Ticks, EvictWrite(t)
        PROVE  TypeOK'
    <3>1. StoreTypeOK'
      <4>1. tick[t].snap \in SUBSET Monitors
        BY DEF TickTypeOK, TickRec
      <4>2. index' \in SUBSET Monitors
        BY <4>1, <2>12 DEF EvictWrite, StoreTypeOK
      <4>3. QED
        BY <4>2, <2>12 DEF EvictWrite, StoreTypeOK, bounds
    <3>2. PcTypeOK'
      BY <2>12 DEF PcTypeOK, Handling, Requesting, Goto, EvictWrite, history,
         bounds, ForgetPassed
    <3>3. TickTypeOK'
      <4>1. PICK m \in tick[t].dead : tick' = [tick EXCEPT ![t].dead = @ \ {m}, ![t].snap = {}]
        BY <2>12 DEF EvictWrite
      <4>2. QED
        BY <4>1 DEF TickTypeOK, TickRec
    <3>4. HistoryTypeOK'
      BY <2>12 DEF HistoryTypeOK, StoreTypeOK, HoldsOK, Holding, Handling, Goto,
         EvictWrite, history, bounds, ForgetPassed
    <3>5. HoldsOK'
      BY ProcessAssumption, <2>12, SMTT(30) DEF HoldsOK, PcTypeOK, TickTypeOK,
         TickRec, ReqTypeOK, ReqRec, StoreTypeOK, Handling, Holding, Requesting,
         Goto, EvictWrite, history, bounds, ForgetPassed
    <3>6. QED
      BY <2>12, <3>1, <3>2, <3>3, <3>4, <3>5 DEF TypeOK, ReqTypeOK, EvictWrite,
         history, bounds, ForgetPassed
  <2>13. ASSUME NEW t \in Ticks, ListDue(t)
        PROVE  TypeOK'
    <3>1. PcTypeOK'
      BY <2>13 DEF PcTypeOK, Handling, Requesting, Goto, ListDue, history, bounds
    <3>2. TickTypeOK'
      <4>1. {<<m, rec[m]>> : m \in {x \in Listed : rec[x].due <= tick[t].at}} \in SUBSET Item
        BY DEF StoreTypeOK, Listed, Item
      <4>2. tick' = [tick EXCEPT ![t].queue =
                 {<<m, rec[m]>> : m \in {x \in Listed : rec[x].due <= tick[t].at}}]
        BY <2>13 DEF ListDue
      <4>3. QED
        BY <4>1, <4>2 DEF TickTypeOK, TickRec
    <3>3. HoldsOK'
      BY ProcessAssumption, <2>13, SMTT(30) DEF HoldsOK, PcTypeOK, TickTypeOK,
         TickRec, ReqTypeOK, ReqRec, StoreTypeOK, Handling, Holding, Requesting,
         Goto, ListDue, history, bounds
    <3>4. QED
      BY <2>13, <3>1, <3>2, <3>3 DEF TypeOK, StoreTypeOK, ReqTypeOK,
         HistoryTypeOK, ListDue, history, bounds
  <2>14. ASSUME NEW t \in Ticks, Defer(t)
        PROVE  TypeOK'
    <3>1. TickTypeOK'
      <4>1. tick' = [tick EXCEPT ![t].queue = {}]
        BY <2>14 DEF Defer
      <4>2. QED
        BY <4>1 DEF TickTypeOK, TickRec
    <3>2. HoldsOK'
      BY ProcessAssumption, <2>14, SMTT(30) DEF HoldsOK, PcTypeOK, TickTypeOK,
         TickRec, ReqTypeOK, ReqRec, StoreTypeOK, Handling, Holding, Requesting,
         Goto, Defer, history, bounds
    <3>3. QED
      BY <2>14, <3>1, <3>2 DEF TypeOK, StoreTypeOK, PcTypeOK, ReqTypeOK,
         HistoryTypeOK, Defer, history, bounds
  <2>15. ASSUME NEW t \in Ticks, SkipCooldown(t)
        PROVE  TypeOK'
    <3>1. TickTypeOK'
      <4>1. PICK q : tick' = [tick EXCEPT ![t].queue = @ \ {q}]
        BY <2>15 DEF SkipCooldown
      <4>2. QED
        BY <4>1 DEF TickTypeOK, TickRec
    <3>2. HistoryTypeOK'
      BY <2>15 DEF HistoryTypeOK, StoreTypeOK, HoldsOK, Holding, Handling, Goto,
         SkipCooldown, history, bounds, ForgetPassed
    <3>3. HoldsOK'
      BY ProcessAssumption, <2>15, SMTT(30) DEF HoldsOK, PcTypeOK, TickTypeOK,
         TickRec, ReqTypeOK, ReqRec, StoreTypeOK, Handling, Holding, Requesting,
         Goto, SkipCooldown, history, bounds, ForgetPassed
    <3>4. QED
      BY <2>15, <3>1, <3>2, <3>3 DEF TypeOK, StoreTypeOK, PcTypeOK, ReqTypeOK,
         SkipCooldown, history, bounds, ForgetPassed
  <2>16. ASSUME NEW t \in Ticks, Reserve(t)
        PROVE  TypeOK'
    <3>1. StoreTypeOK'
      <4>1. \E h \in Hosts : reserved' = [reserved EXCEPT ![h] = now] \/ UNCHANGED reserved
        BY ConstantsAssumption, <2>16 DEF Reserve, MostOverdue, TickTypeOK, TickRec, Item
      <4>2. QED
        BY <4>1, <2>16 DEF Reserve, StoreTypeOK, history, bounds
    <3>2. PcTypeOK'
      BY <2>16 DEF PcTypeOK, Handling, Requesting, Goto, Reserve, history, bounds
    <3>3. TickTypeOK'
      <4>1. PICK q \in tick[t].queue : tick' = [tick EXCEPT ![t].cur = q, ![t].queue = @ \ {q}]
        BY <2>16 DEF Reserve, MostOverdue
      <4>2. q \in Item
        BY DEF TickTypeOK, TickRec
      <4>3. QED
        BY <4>1, <4>2 DEF TickTypeOK, TickRec
    <3>4. HoldsOK'
      BY ProcessAssumption, <2>16, SMTT(30) DEF HoldsOK, PcTypeOK, TickTypeOK,
         TickRec, ReqTypeOK, ReqRec, StoreTypeOK, Handling, Holding, Requesting,
         Goto, Reserve, history, bounds, MostOverdue
    <3>5. QED
      BY <2>16, <3>1, <3>2, <3>3, <3>4 DEF TypeOK, ReqTypeOK, HistoryTypeOK,
         Reserve, history, bounds
  <2>17. ASSUME NEW t \in Ticks, EndTick(t)
        PROVE  TypeOK'
    <3>1. PcTypeOK'
      BY <2>17 DEF PcTypeOK, Handling, Requesting, Goto, EndTick, history, bounds
    <3>2. TickTypeOK'
      BY <2>17 DEF TickTypeOK, TickRec, Goto, EndTick, history, bounds, NoTick
    <3>3. HoldsOK'
      BY ProcessAssumption, <2>17, SMTT(30) DEF HoldsOK, PcTypeOK, TickTypeOK,
         TickRec, ReqTypeOK, ReqRec, StoreTypeOK, Handling, Holding, Requesting,
         Goto, EndTick, history, bounds, NoTick
    <3>4. QED
      BY <2>17, <3>1, <3>2, <3>3 DEF TypeOK, StoreTypeOK, ReqTypeOK,
         HistoryTypeOK, EndTick, history, bounds
  <2>18. ASSUME NEW t \in Ticks, ClaimRead(t)
        PROVE  TypeOK'
    <3>1. StoreTypeOK'
      BY <2>18 DEF StoreTypeOK, ReqTypeOK, HoldsOK, ReqRec, Requesting, Goto,
         ClaimRead, history, bounds, StillDue, Get, Item
    <3>2. PcTypeOK'
      BY <2>18 DEF PcTypeOK, Handling, Requesting, Goto, ClaimRead, history,
         bounds
    <3>3. TickTypeOK'
      <4>1. tick[t].cur \in Item
        BY <2>18 DEF HoldsOK, Goto, Handling, ClaimRead
      <4>2. Get(tick[t].cur[1]) \in Record
        BY <4>1, <2>18 DEF ClaimRead, StillDue, Get, StoreTypeOK, Item
      <4>3. tick' = [tick EXCEPT ![t].held = Get(tick[t].cur[1])]
        BY <2>18 DEF ClaimRead
      <4>4. QED
        BY <4>1, <4>2, <4>3 DEF TickTypeOK, TickRec
    <3>4. HoldsOK'
      BY ProcessAssumption, <2>18, SMTT(30) DEF HoldsOK, PcTypeOK, TickTypeOK,
         TickRec, ReqTypeOK, ReqRec, StoreTypeOK, Handling, Holding, Requesting,
         Goto, ClaimRead, history, bounds, StillDue, Get, Item
    <3>5. QED
      BY <2>18, <3>1, <3>2, <3>3, <3>4 DEF TypeOK, ReqTypeOK, HistoryTypeOK,
         ClaimRead, history, bounds
  <2>19. ASSUME NEW t \in Ticks, ClaimLost(t)
        PROVE  TypeOK'
    <3>1. PcTypeOK'
      BY <2>19 DEF PcTypeOK, Handling, Requesting, Goto, ClaimLost, history,
         bounds
    <3>2. TickTypeOK'
      BY <2>19, ReleaseType DEF ClaimLost
    <3>3. HoldsOK'
      BY ProcessAssumption, <2>19, SMTT(30) DEF HoldsOK, PcTypeOK, TickTypeOK,
         TickRec, ReqTypeOK, ReqRec, StoreTypeOK, Handling, Holding, Requesting,
         Goto, ClaimLost, history, bounds, Release
    <3>4. QED
      BY <2>19, <3>1, <3>2, <3>3 DEF TypeOK, StoreTypeOK, ReqTypeOK,
         HistoryTypeOK, ClaimLost, history, bounds
  <2>20. ASSUME NEW t \in Ticks, ClaimWrite(t)
        PROVE  TypeOK'
    <3>1. StoreTypeOK'
      <4>1. tick[t].cur \in Item /\ tick[t].held \in Record
        BY <2>20 DEF HoldsOK, Goto, Handling, Holding, ClaimWrite
      <4>2. Advanced(tick[t].held, t) \in Record
        BY <4>1, AdvancedType
      <4>3. QED
        BY <4>1, <4>2, <2>20 DEF ClaimWrite, StoreTypeOK, Item, bounds
    <3>2. PcTypeOK'
      BY <2>20 DEF PcTypeOK, Handling, Requesting, Goto, ClaimWrite, history,
         bounds
    <3>3. TickTypeOK'
      <4>1. tick[t].cur \in Item
        BY <2>20 DEF HoldsOK, Goto, Handling, ClaimWrite
      <4>2. tick[t].held \in Record
        BY <2>20 DEF HoldsOK, Goto, Holding, ClaimWrite
      <4>3. Advanced(tick[t].held, t) \in Record
        BY <4>1, <4>2, AdvancedType
      <4>4. tick' = [tick EXCEPT ![t].held = Advanced(tick[t].held, t)]
        BY <2>20 DEF ClaimWrite
      <4>5. QED
        BY <4>1, <4>2, <4>3, <4>4 DEF TickTypeOK, TickRec
    <3>4. HistoryTypeOK'
      <4>1. tick[t].cur \in Item /\ tick[t].held \in Record
        BY <2>20 DEF HoldsOK, Goto, Handling, Holding, ClaimWrite
      <4>2. <<tick[t].cur[1], tick[t].held.gen, tick[t].held.due>> \in Slot
        BY <4>1 DEF Item, Record, Slot
      <4>3. tick[t].cur[1] \in Monitors
        BY <4>1 DEF Item
      <4>4. claimed' \in SUBSET Slot /\ reclaimed' \in SUBSET Slot
        BY <4>2, <2>20 DEF ClaimWrite, HistoryTypeOK
      <4>5. passed' \in [Monitors -> SUBSET Monitors]
        BY <4>3, <2>20 DEF ClaimWrite, HistoryTypeOK
      <4>6. QED
        BY <4>4, <4>5 DEF HistoryTypeOK
    <3>5. HoldsOK'
      <4>1. tick[t].cur \in Item /\ tick[t].held \in Record
        BY <2>20 DEF HoldsOK, Goto, Handling, Holding, ClaimWrite
      <4>2. Advanced(tick[t].held, t) \in Record
        BY <4>1, AdvancedType
      <4>3. tick' = [tick EXCEPT ![t].held = Advanced(tick[t].held, t)]
        BY <2>20 DEF ClaimWrite
      <4>4. QED
        BY ProcessAssumption, <4>1, <4>2, <4>3, <2>20, SMTT(30)
           DEF HoldsOK, PcTypeOK, TickTypeOK, TickRec, StoreTypeOK, Handling, Holding, Requesting,
               Goto, ClaimWrite
    <3>6. QED
      BY <2>20, <3>1, <3>2, <3>3, <3>4, <3>5 DEF TypeOK, ReqTypeOK, ClaimWrite,
         history, bounds
  <2>21. ASSUME NEW t \in Ticks, Verified(t)
        PROVE  TypeOK'
    <3>1. PcTypeOK'
      BY <2>21 DEF PcTypeOK, Handling, Requesting, Goto, Verified, history, bounds
    <3>2. TickTypeOK'
      <4>1. tick[t].cur \in Item
        BY <2>21 DEF HoldsOK, Goto, Handling, Verified
      <4>2. runs[tick[t].cur[1]] \in Seq(Nat)
        BY <4>1 DEF StoreTypeOK, Item
      <4>3. tick' = [tick EXCEPT ![t].hist = runs[tick[t].cur[1]]]
        BY <2>21 DEF Verified
      <4>4. QED
        BY <4>1, <4>2, <4>3 DEF TickTypeOK, TickRec
    <3>3. HoldsOK'
      BY ProcessAssumption, <2>21, SMTT(30) DEF HoldsOK, PcTypeOK, TickTypeOK,
         TickRec, ReqTypeOK, ReqRec, StoreTypeOK, Handling, Holding, Requesting,
         Goto, Verified, history, bounds
    <3>4. QED
      BY <2>21, <3>1, <3>2, <3>3 DEF TypeOK, StoreTypeOK, ReqTypeOK,
         HistoryTypeOK, Verified, history, bounds
  <2>22. ASSUME NEW t \in Ticks, AppendRun(t)
        PROVE  TypeOK'
    <3>1. StoreTypeOK'
      <4>1. tick[t].cur \in Item
        BY <2>22 DEF HoldsOK, Goto, Handling, AppendRun
      <4>2. Append(tick[t].hist, tick[t].at) \in Seq(Nat)
        BY DEF TickTypeOK, TickRec
      <4>3. Bounded(Append(tick[t].hist, tick[t].at)) \in Seq(Nat)
        BY <4>2, BoundedType
      <4>4. QED
        BY <4>1, <4>3, <2>22 DEF AppendRun, StoreTypeOK, Item, history, bounds
    <3>2. PcTypeOK'
      BY <2>22 DEF PcTypeOK, Handling, Requesting, Goto, AppendRun, history,
         bounds
    <3>3. HoldsOK'
      BY ProcessAssumption, <2>22, SMTT(30) DEF HoldsOK, PcTypeOK, TickTypeOK,
         TickRec, ReqTypeOK, ReqRec, StoreTypeOK, Handling, Holding, Requesting,
         Goto, AppendRun, history, bounds
    <3>4. QED
      BY <2>22, <3>1, <3>2, <3>3 DEF TypeOK, TickTypeOK, ReqTypeOK, HistoryTypeOK,
         AppendRun, history, bounds
  <2>23. ASSUME NEW t \in Ticks, Recorded(t)
        PROVE  TypeOK'
    <3>1. PcTypeOK'
      BY <2>23 DEF PcTypeOK, Handling, Requesting, Goto, Recorded, history, bounds
    <3>2. TickTypeOK'
      <4>1. tick[t].ran + 1 \in Nat
        BY DEF TickTypeOK, TickRec
      <4>2. tick' = [tick EXCEPT ![t].ran = tick[t].ran + 1]
        BY <2>23 DEF Recorded, TickTypeOK
      <4>3. QED
        BY <4>1, <4>2 DEF TickTypeOK, TickRec
    <3>3. HoldsOK'
      BY ProcessAssumption, <2>23, SMTT(30) DEF HoldsOK, PcTypeOK, TickTypeOK,
         TickRec, ReqTypeOK, ReqRec, StoreTypeOK, Handling, Holding, Requesting,
         Goto, Recorded, history, bounds
    <3>4. QED
      BY <2>23, <3>1, <3>2, <3>3 DEF TypeOK, StoreTypeOK, ReqTypeOK,
         HistoryTypeOK, Recorded, history, bounds
  <2>24. ASSUME NEW t \in Ticks, Finish(t)
        PROVE  TypeOK'
    <3>1. StoreTypeOK'
      <4>1. tick[t].cur \in Item /\ tick[t].held \in Record
        BY <2>24 DEF HoldsOK, Goto, Handling, Holding, Finish
      <4>2. [tick[t].held EXCEPT !.expires = tick[t].at + Ttl] \in Record
        BY <4>1, FinishType
      <4>3. QED
        BY <4>1, <4>2, <2>24 DEF Finish, StoreTypeOK, Item, bounds
    <3>2. PcTypeOK'
      BY <2>24 DEF PcTypeOK, Handling, Requesting, Goto, Finish, history, bounds,
         ForgetPassed
    <3>3. TickTypeOK'
      BY <2>24, ReleaseType DEF Finish
    <3>4. HistoryTypeOK'
      BY <2>24 DEF HistoryTypeOK, StoreTypeOK, HoldsOK, Holding, Handling, Goto,
         Finish, history, bounds, ForgetPassed, Release
    <3>5. HoldsOK'
      BY ProcessAssumption, <2>24, SMTT(30) DEF HoldsOK, PcTypeOK, TickTypeOK,
         TickRec, ReqTypeOK, ReqRec, StoreTypeOK, Handling, Holding, Requesting,
         Goto, Finish, history, bounds, ForgetPassed, Release
    <3>6. QED
      BY <2>24, <3>1, <3>2, <3>3, <3>4, <3>5 DEF TypeOK, ReqTypeOK, Finish,
         history, bounds, ForgetPassed
  <2>25. ASSUME NEW t \in Ticks, Throw(t)
        PROVE  TypeOK'
    <3>1. StoreTypeOK'
      BY <2>25 DEF StoreTypeOK, ReqTypeOK, HoldsOK, ReqRec, Requesting, Goto,
         Throw, history, bounds
    <3>2. PcTypeOK'
      BY <2>25 DEF PcTypeOK, Handling, Requesting, Goto, Throw, history, bounds
    <3>3. HoldsOK'
      BY ProcessAssumption, <2>25, SMTT(30) DEF HoldsOK, PcTypeOK, TickTypeOK,
         TickRec, ReqTypeOK, ReqRec, StoreTypeOK, Handling, Holding, Requesting,
         Goto, Throw, history, bounds
    <3>4. QED
      BY <2>25, <3>1, <3>2, <3>3 DEF TypeOK, TickTypeOK, ReqTypeOK, HistoryTypeOK,
         Throw, history, bounds
  <2>26. ASSUME NEW t \in Ticks, ErrorRead(t)
        PROVE  TypeOK'
    <3>1. PcTypeOK'
      BY <2>26 DEF PcTypeOK, Handling, Requesting, Goto, ErrorRead, history,
         bounds
    <3>2. TickTypeOK'
      <4>1. CASE StillDue(t)
        <5>1. tick[t].cur \in Item
          BY <2>26 DEF HoldsOK, Handling, ErrorRead
        <5>2. Get(tick[t].cur[1]) \in Record
          BY <4>1, <5>1 DEF StillDue, Get, StoreTypeOK, Item
        <5>3. tick' = [tick EXCEPT ![t].held = Get(tick[t].cur[1])]
          BY <4>1, <2>26 DEF ErrorRead
        <5>4. QED
          BY <5>2, <5>3 DEF TickTypeOK, TickRec
      <4>2. CASE ~StillDue(t)
        BY <4>2, <2>26, ReleaseType DEF ErrorRead
      <4>3. QED
        BY <4>1, <4>2
    <3>3. HoldsOK'
      <4>1. CASE StillDue(t)
        <5>1. tick[t].cur \in Item
          BY <2>26 DEF HoldsOK, Handling, ErrorRead
        <5>2. Get(tick[t].cur[1]) \in Record
          BY <4>1, <5>1 DEF StillDue, Get, StoreTypeOK, Item
        <5>3. tick' = [tick EXCEPT ![t].held = Get(tick[t].cur[1])] /\ Goto(t, "errGet", "errPut")
          BY <4>1, <2>26 DEF ErrorRead
        <5>4. UNCHANGED <<req, chain>>
          BY <2>26 DEF ErrorRead
        <5>5. QED
          BY <5>1, <5>2, <5>3, <5>4, ProcessAssumption, SMTT(30)
             DEF HoldsOK, PcTypeOK, TickTypeOK, TickRec, Goto, Handling, Holding, Requesting
      <4>2. CASE ~StillDue(t)
        BY <4>2, <2>26, ProcessAssumption, SMTT(30)
           DEF HoldsOK, PcTypeOK, TickTypeOK, TickRec, ErrorRead, Release, Goto, Handling, Holding,
               Requesting, bounds
      <4>3. QED
        BY <4>1, <4>2
    <3>4. QED
      BY <2>26, <3>1, <3>2, <3>3 DEF TypeOK, StoreTypeOK, ReqTypeOK,
         HistoryTypeOK, ErrorRead, history, bounds
  <2>27. ASSUME NEW t \in Ticks, ErrorWrite(t)
        PROVE  TypeOK'
    <3>1. StoreTypeOK'
      <4>1. tick[t].cur \in Item /\ tick[t].held \in Record
        BY <2>27 DEF HoldsOK, Goto, Handling, Holding, ErrorWrite
      <4>2. Advanced(tick[t].held, t) \in Record
        BY <4>1, AdvancedType
      <4>3. QED
        BY <4>1, <4>2, <2>27 DEF ErrorWrite, StoreTypeOK, Item, bounds
    <3>2. PcTypeOK'
      BY <2>27 DEF PcTypeOK, Handling, Requesting, Goto, ErrorWrite, history,
         bounds, ForgetPassed
    <3>3. TickTypeOK'
      BY <2>27, ReleaseType DEF ErrorWrite
    <3>4. HistoryTypeOK'
      BY <2>27 DEF HistoryTypeOK, StoreTypeOK, HoldsOK, Holding, Handling, Goto,
         ErrorWrite, history, bounds, ForgetPassed, Release
    <3>5. HoldsOK'
      BY ProcessAssumption, <2>27, SMTT(30) DEF HoldsOK, PcTypeOK, TickTypeOK,
         TickRec, ReqTypeOK, ReqRec, StoreTypeOK, Handling, Holding, Requesting,
         Goto, ErrorWrite, history, bounds, ForgetPassed, Release
    <3>6. QED
      BY <2>27, <3>1, <3>2, <3>3, <3>4, <3>5 DEF TypeOK, ReqTypeOK, ErrorWrite,
         history, bounds, ForgetPassed
  <2>28. ASSUME NEW t \in Ticks, Abort(t)
        PROVE  TypeOK'
    <3>1. StoreTypeOK'
      BY <2>28 DEF StoreTypeOK, ReqTypeOK, HoldsOK, ReqRec, Requesting, Goto,
         Abort, history, bounds, NoTick
    <3>2. PcTypeOK'
      BY <2>28 DEF PcTypeOK, Handling, Requesting, Goto, Abort, history, bounds
    <3>3. TickTypeOK'
      BY <2>28 DEF TickTypeOK, TickRec, Goto, Abort, history, bounds, NoTick
    <3>4. HoldsOK'
      BY ProcessAssumption, <2>28, SMTT(30) DEF HoldsOK, PcTypeOK, TickTypeOK,
         TickRec, ReqTypeOK, ReqRec, StoreTypeOK, Handling, Holding, Requesting,
         Goto, Abort, history, bounds, NoTick
    <3>5. QED
      BY <2>28, <3>1, <3>2, <3>3, <3>4 DEF TypeOK, ReqTypeOK, HistoryTypeOK,
         Abort, history, bounds
  <2>29. CASE CrashScheduler
    <3>1. StoreTypeOK'
      BY <2>29 DEF StoreTypeOK, ReqTypeOK, HoldsOK, ReqRec, Requesting, Goto,
         CrashScheduler, history, bounds, NoTick
    <3>2. PcTypeOK'
      BY <2>29 DEF PcTypeOK, Handling, Requesting, Goto, CrashScheduler, history,
         bounds
    <3>3. TickTypeOK'
      BY <2>29 DEF TickTypeOK, TickRec, Goto, CrashScheduler, history, bounds,
         NoTick
    <3>4. HoldsOK'
      BY ProcessAssumption, <2>29, SMTT(30) DEF HoldsOK, PcTypeOK, TickTypeOK,
         TickRec, ReqTypeOK, ReqRec, StoreTypeOK, Handling, Holding, Requesting,
         Goto, CrashScheduler, history, bounds, NoTick
    <3>5. QED
      BY <2>29, <3>1, <3>2, <3>3, <3>4 DEF TypeOK, ReqTypeOK, HistoryTypeOK,
         CrashScheduler, history, bounds
  <2>30. CASE Advance
    <3>1. StoreTypeOK'
      BY <2>30 DEF StoreTypeOK, ReqTypeOK, HoldsOK, ReqRec, Requesting, Goto,
         Advance, history, bounds
    <3>2. HoldsOK'
      BY ProcessAssumption, <2>30, SMTT(30) DEF HoldsOK, PcTypeOK, TickTypeOK,
         TickRec, ReqTypeOK, ReqRec, StoreTypeOK, Handling, Holding, Requesting,
         Goto, Advance, history, bounds
    <3>3. QED
      BY <2>30, <3>1, <3>2 DEF TypeOK, PcTypeOK, TickTypeOK, ReqTypeOK,
         HistoryTypeOK, Advance, history, bounds
  <2>31. CASE UNCHANGED vars
    BY <2>31 DEF vars, StoreTypeOK, PcTypeOK, TickTypeOK, ReqTypeOK, HistoryTypeOK, HoldsOK, TypeOK
  <2>32. QED
    BY <2>1, <2>2, <2>3, <2>4, <2>5, <2>6, <2>7, <2>8, <2>9, <2>10, <2>11,
       <2>12, <2>13, <2>14, <2>15, <2>16, <2>17, <2>18, <2>19, <2>20, <2>21,
       <2>22, <2>23, <2>24, <2>25, <2>26, <2>27, <2>28, <2>29, <2>30, <2>31
       DEF Next, TickStep, RunStep, ClientStep, Quiet

\* Type correctness holds of every reachable state, for every value of the constants:
\* in particular no step of a tick writes back a record it never read.
THEOREM TypeCorrect == Spec => []TypeOK
<1>1. Init => TypeOK
  BY TypeInit
<1>2. TypeOK /\ [Next]_vars => TypeOK'
  BY TypeStep
<1>3. QED
  BY <1>1, <1>2, PTL DEF Spec

-----------------------------------------------------------------------------
(* The index never dangles.                                                  *)

\* Records are put and never removed, so whoever holds a copy of the index, or is about to
\* add a monitor to it, holds only monitors with a record.
IndexInv ==
    /\ IndexedHasRecord
    /\ \A t \in Ticks : \A m \in tick[t].snap : rec[m] # None
    /\ \A c \in Clients : \A m \in req[c].snap : rec[m] # None
    /\ \A c \in Clients : pc[c] \in {"regRead", "regWrite"} => rec[req[c].id] # None

\* No step removes a record.
RecordsStay == \A m \in Monitors : rec[m] # None => rec'[m] # None

\* A step that leaves the index alone, copies at most what is in it and sends no request to
\* the index without a record.
KeepsIndex ==
    /\ RecordsStay
    /\ index' = index
    /\ \A t \in Ticks : tick'[t].snap \subseteq tick[t].snap \cup index
    /\ \A c \in Clients : req'[c].snap \subseteq req[c].snap \cup index
    /\ \A c \in Clients : pc'[c] \in {"regRead", "regWrite"} =>
          pc[c] \in {"regRead", "regWrite"} /\ req'[c].id = req[c].id

LEMMA IndexFrame == ASSUME TypeOK, IndexInv, KeepsIndex PROVE IndexInv'
<1>1. /\ \A t \in Ticks : tick[t].snap \subseteq Monitors
      /\ \A c \in Clients : req[c].snap \subseteq Monitors
      /\ index \subseteq Monitors
  BY DEF TypeOK, TickTypeOK, ReqTypeOK, StoreTypeOK, TickRec, ReqRec
<1>2. \A c \in Clients : pc[c] \in {"regRead", "regWrite"} => req[c].id \in Monitors
  BY DEF TypeOK, HoldsOK, Requesting
<1>3. IndexedHasRecord'
  BY <1>1 DEF IndexInv, IndexedHasRecord, KeepsIndex, RecordsStay
<1>4. (\A t \in Ticks : \A m \in tick[t].snap : rec[m] # None)'
  BY <1>1 DEF IndexInv, IndexedHasRecord, KeepsIndex, RecordsStay
<1>5. (\A c \in Clients : \A m \in req[c].snap : rec[m] # None)'
  BY <1>1 DEF IndexInv, IndexedHasRecord, KeepsIndex, RecordsStay
<1>6. (\A c \in Clients : pc[c] \in {"regRead", "regWrite"} => rec[req[c].id] # None)'
  BY <1>2 DEF IndexInv, KeepsIndex, RecordsStay
<1>7. QED
  BY <1>3, <1>4, <1>5, <1>6 DEF IndexInv

\* Letting go of an item leaves the copy of the index alone.
LEMMA ReleaseSnap ==
    ASSUME TickTypeOK, NEW t \in Ticks, Release(t)
    PROVE  \A u \in Ticks : tick'[u].snap = tick[u].snap
<1> DEFINE v == [tick[t] EXCEPT !.cur = None, !.held = None, !.hist = <<>>]
<1>1. v.snap = tick[t].snap
  BY DEF TickTypeOK, TickRec
<1>2. tick' = [tick EXCEPT ![t] = v]
  BY DEF Release
<1>3. QED
  BY <1>1, <1>2 DEF TickTypeOK

\* The steps of a tick that touch neither the index nor the records.
LEMMA TickKeepsIndex ==
    ASSUME TypeOK, NEW t \in Ticks,
           \/ StartTick(t) \/ EvictList(t) \/ EvictRead(t) \/ ListDue(t) \/ Defer(t)
           \/ SkipCooldown(t) \/ Reserve(t) \/ EndTick(t) \/ ClaimRead(t) \/ ClaimLost(t)
           \/ Verified(t) \/ AppendRun(t) \/ Recorded(t) \/ Throw(t) \/ ErrorRead(t)
           \/ Abort(t)
    PROVE  KeepsIndex
<1>1. UNCHANGED <<index, rec, req>>
  BY DEF StartTick, EvictList, EvictRead, ListDue, Defer, SkipCooldown, Reserve, EndTick,
         ClaimRead, ClaimLost, Verified, AppendRun, Recorded, Throw, ErrorRead, Abort
<1>2. \A c \in Clients : pc'[c] = pc[c]
  BY ProcessAssumption
     DEF StartTick, EvictList, EvictRead, ListDue, Defer, SkipCooldown, Reserve, EndTick, ClaimRead,
         ClaimLost, Verified, AppendRun, Recorded, Throw, ErrorRead, Abort, Goto, TypeOK, PcTypeOK
<1>3. \A u \in Ticks : tick'[u].snap \subseteq tick[u].snap \cup index
  <2> USE DEF TypeOK, TickTypeOK, TickRec
  <2>1. CASE StartTick(t)
    BY <2>1 DEF StartTick
  <2>2. CASE EvictList(t)
    BY <2>2 DEF EvictList
  <2>3. CASE EvictRead(t)
    BY <2>3 DEF EvictRead
  <2>4. CASE ListDue(t)
    BY <2>4 DEF ListDue
  <2>5. CASE Defer(t)
    BY <2>5 DEF Defer
  <2>6. CASE SkipCooldown(t)
    BY <2>6 DEF SkipCooldown
  <2>7. CASE Reserve(t)
    <3>1. PICK q \in MostOverdue(t) :
             tick' = [tick EXCEPT ![t].cur = q, ![t].queue = @ \ {q}]
      BY <2>7 DEF Reserve
    <3>2. QED
      BY <3>1
  <2>8. CASE EndTick(t)
    BY <2>8 DEF EndTick, NoTick
  <2>9. CASE ClaimRead(t)
    BY <2>9 DEF ClaimRead
  <2>10. CASE ClaimLost(t)
    BY <2>10 DEF ClaimLost, Release
  <2>11. CASE Verified(t)
    BY <2>11 DEF Verified
  <2>12. CASE AppendRun(t)
    BY <2>12 DEF AppendRun
  <2>13. CASE Recorded(t)
    BY <2>13 DEF Recorded
  <2>14. CASE Throw(t)
    BY <2>14 DEF Throw
  <2>15. CASE ErrorRead(t)
    <3>1. Release(t) \/ tick' = [tick EXCEPT ![t].held = Get(tick[t].cur[1])]
      BY <2>15 DEF ErrorRead
    <3>2. CASE Release(t)
      BY <3>2, ReleaseSnap
    <3>3. CASE tick' = [tick EXCEPT ![t].held = Get(tick[t].cur[1])]
      BY <3>3
    <3>4. QED
      BY <3>1, <3>2, <3>3
  <2>16. CASE Abort(t)
    BY <2>16 DEF Abort, NoTick
  <2>17. QED
    BY <2>1, <2>2, <2>3, <2>4, <2>5, <2>6, <2>7, <2>8, <2>9, <2>10, <2>11, <2>12, <2>13, <2>14, <2>15, <2>16
<1>4. QED
  BY <1>1, <1>2, <1>3 DEF KeepsIndex, RecordsStay

\* The steps of a tick that put a record: over the one that is there.
LEMMA PutKeepsIndex ==
    ASSUME TypeOK, NEW t \in Ticks, ClaimWrite(t) \/ Finish(t) \/ ErrorWrite(t)
    PROVE  KeepsIndex
<1>1. tick[t].cur \in Item /\ tick[t].held \in Record
  BY DEF ClaimWrite, Finish, ErrorWrite, Goto, TypeOK, HoldsOK, Handling, Holding
<1>2. Advanced(tick[t].held, t) \in Record
  BY <1>1, AdvancedType DEF TypeOK
<1>3. [tick[t].held EXCEPT !.expires = tick[t].at + Ttl] \in Record
  BY <1>1, FinishType DEF TypeOK
<1>4. RecordsStay
  BY <1>1, <1>2, <1>3, NoneAssumption
     DEF RecordsStay, ClaimWrite, Finish, ErrorWrite, TypeOK, StoreTypeOK, Item
<1>5. UNCHANGED <<index, req>> /\ \A c \in Clients : pc'[c] = pc[c]
  BY ProcessAssumption DEF ClaimWrite, Finish, ErrorWrite, Goto, TypeOK, PcTypeOK
<1>6. \A u \in Ticks : tick'[u].snap = tick[u].snap
  <2>1. Release(t) \/ tick' = [tick EXCEPT ![t].held = Advanced(tick[t].held, t)]
    BY DEF ClaimWrite, Finish, ErrorWrite
  <2>2. CASE Release(t)
    BY <2>2, ReleaseSnap DEF TypeOK
  <2>3. CASE tick' = [tick EXCEPT ![t].held = Advanced(tick[t].held, t)]
    BY <2>3 DEF TypeOK, TickTypeOK, TickRec
  <2>4. QED
    BY <2>1, <2>2, <2>3
<1>7. QED
  BY <1>4, <1>5, <1>6 DEF KeepsIndex

\* A registration that is refused, begun, finds its id in the index, or dies.
LEMMA ClientKeepsIndex ==
    ASSUME TypeOK, NEW c \in Clients,
           \/ \E m \in Monitors, i \in Intervals : RegisterCheck(c, m, i)
           \/ \E m \in Monitors : DeleteRead(c, m)
           \/ RegisterRead(c) \/ ClientCrash(c)
    PROVE  KeepsIndex
<1>1. UNCHANGED <<index, rec, tick>>
  BY DEF RegisterCheck, DeleteRead, RegisterRead, ClientCrash
<1>2. /\ \A d \in Clients \ {c} : pc'[d] = pc[d] /\ req'[d] = req[d]
      /\ pc'[c] \in {"regRead", "regWrite"} => pc[c] = "regRead" /\ req'[c].id = req[c].id
  BY DEF RegisterCheck, DeleteRead, RegisterRead, ClientCrash, Goto, TypeOK, PcTypeOK,
         ReqTypeOK, ReqRec
<1>3. req'[c].snap \subseteq req[c].snap \cup index
  <2> USE DEF TypeOK, ReqTypeOK, ReqRec, NoReq
  <2>1. ASSUME NEW m \in Monitors, NEW i \in Intervals, RegisterCheck(c, m, i)
        PROVE  req'[c].snap = req[c].snap
    BY <2>1 DEF RegisterCheck
  <2>2. ASSUME NEW m \in Monitors, DeleteRead(c, m) PROVE req'[c].snap = index
    BY <2>2 DEF DeleteRead
  <2>3. CASE RegisterRead(c)
    BY <2>3 DEF RegisterRead
  <2>4. CASE ClientCrash(c)
    BY <2>4 DEF ClientCrash
  <2>5. QED
    BY <2>1, <2>2, <2>3, <2>4
<1>4. QED
  BY <1>1, <1>2, <1>3 DEF KeepsIndex, RecordsStay

LEMMA IndexStep == ASSUME TypeOK, IndexInv, [Next]_vars PROVE IndexInv'
<1> USE DEF IndexInv, IndexedHasRecord
<1>1. ASSUME NEW c \in Clients, RegisterPut(c) PROVE IndexInv'
  <2>1. req[c].id \in Monitors /\ req[c].new \in Record
    BY <1>1 DEF RegisterPut, Goto, TypeOK, HoldsOK, Requesting
  <2>2. RecordsStay /\ rec'[req[c].id] # None
    BY <1>1, <2>1, NoneAssumption DEF RegisterPut, RecordsStay, TypeOK, StoreTypeOK
  <2>3. UNCHANGED <<index, tick, req>> /\ \A d \in Clients \ {c} : pc'[d] = pc[d]
    BY <1>1 DEF RegisterPut, Goto, TypeOK, PcTypeOK, bounds
  <2>4. \A d \in Clients : pc[d] \in {"regRead", "regWrite"} => req[d].id \in Monitors
    BY DEF TypeOK, HoldsOK, Requesting
  <2>5. \A t \in Ticks : \A m \in tick[t].snap : m \in Monitors
    BY DEF TypeOK, TickTypeOK, TickRec
  <2>6. \A d \in Clients : \A m \in req[d].snap : m \in Monitors
    BY DEF TypeOK, ReqTypeOK, ReqRec
  <2>7. \A m \in index : m \in Monitors
    BY DEF TypeOK, StoreTypeOK
  <2>8. QED
    BY <2>2, <2>3, <2>4, <2>5, <2>6, <2>7 DEF RecordsStay
<1>2. ASSUME NEW c \in Clients, RegisterWrite(c) \/ DeleteWrite(c) PROVE IndexInv'
  <2>1. /\ UNCHANGED <<rec, tick>>
        /\ \A d \in Clients \ {c} : pc'[d] = pc[d] /\ req'[d] = req[d]
        /\ pc'[c] = "idle" /\ req'[c].snap = {}
    BY <1>2 DEF RegisterWrite, DeleteWrite, Goto, NoReq, TypeOK, PcTypeOK, ReqTypeOK
  <2>2. \A m \in index' : rec[m] # None
    BY <1>2 DEF RegisterWrite, DeleteWrite, Goto
  <2>3. QED
    BY <2>1, <2>2
<1>3. ASSUME NEW t \in Ticks, EvictWrite(t) PROVE IndexInv'
  <2>1. UNCHANGED <<rec, req>> /\ \A d \in Clients : pc'[d] = pc[d]
    BY <1>3, ProcessAssumption DEF EvictWrite, Goto, TypeOK, PcTypeOK, bounds
  <2>2. \A u \in Ticks : tick'[u].snap \subseteq tick[u].snap
    BY <1>3 DEF EvictWrite, TypeOK, TickTypeOK, TickRec
  <2>3. index' \subseteq index \cup tick[t].snap
    BY <1>3 DEF EvictWrite
  <2>4. QED
    BY <2>1, <2>2, <2>3
<1>4. CASE CrashScheduler
  <2>1. UNCHANGED <<rec, req, index>> /\ \A d \in Clients : pc'[d] = pc[d]
    BY <1>4, ProcessAssumption DEF CrashScheduler, TypeOK, PcTypeOK
  <2>2. \A u \in Ticks : tick'[u].snap = {}
    BY <1>4 DEF CrashScheduler, NoTick
  <2>3. QED
    BY <2>1, <2>2
<1>5. CASE Advance \/ UNCHANGED vars \/ \E h \in Hosts : OnDemandVerify(h)
  BY <1>5 DEF Advance, OnDemandVerify, vars
<1>6. ASSUME NEW t \in Ticks, TickStep(t) PROVE IndexInv'
  <2>1. CASE ClaimWrite(t) \/ Finish(t) \/ ErrorWrite(t)
    BY <2>1, PutKeepsIndex, IndexFrame
  <2>2. CASE EvictWrite(t)
    BY <2>2, <1>3
  <2>3. CASE \/ StartTick(t) \/ EvictList(t) \/ EvictRead(t) \/ ListDue(t) \/ Defer(t)
             \/ SkipCooldown(t) \/ Reserve(t) \/ EndTick(t) \/ ClaimRead(t) \/ ClaimLost(t)
             \/ Verified(t) \/ AppendRun(t) \/ Recorded(t) \/ Throw(t) \/ ErrorRead(t)
             \/ Abort(t)
    BY <2>3, TickKeepsIndex, IndexFrame
  <2>4. QED
    BY <1>6, <2>1, <2>2, <2>3 DEF TickStep, RunStep
<1>7. ASSUME NEW c \in Clients, ClientStep(c) PROVE IndexInv'
  <2>1. CASE RegisterPut(c)
    BY <2>1, <1>1
  <2>2. CASE RegisterWrite(c) \/ DeleteWrite(c)
    BY <2>2, <1>2
  <2>3. CASE \/ \E m \in Monitors, i \in Intervals : RegisterCheck(c, m, i)
             \/ \E m \in Monitors : DeleteRead(c, m)
             \/ RegisterRead(c) \/ ClientCrash(c)
    BY <2>3, ClientKeepsIndex, IndexFrame
  <2>4. QED
    BY <1>7, <2>1, <2>2, <2>3 DEF ClientStep
<1>8. QED
  BY <1>4, <1>5, <1>6, <1>7 DEF Next, Quiet

\* The index names only monitors with a record, however many registrations, deletions and
\* evictions race on it and wherever one of them dies.
THEOREM IndexNeverDangles == Spec => []IndexedHasRecord
<1>1. Init => TypeOK /\ IndexInv
  BY TypeInit DEF Init, IndexInv, IndexedHasRecord, NoTick, NoReq
<1>2. TypeOK /\ IndexInv /\ [Next]_vars => TypeOK' /\ IndexInv'
  BY TypeStep, IndexStep
<1>3. IndexInv => IndexedHasRecord
  BY DEF IndexInv
<1>4. QED
  BY <1>1, <1>2, <1>3, PTL DEF Spec

-----------------------------------------------------------------------------
(* A slot is claimed once.  The inductive invariant adds to SlotClaimedOnce  *)
(* what each step that writes a record relies on: the slot it writes lies in *)
(* the future (TicksTimely) or belongs to a registration nobody has used     *)
(* (FreshRegistrations), so no record carries a slot already claimed.        *)

ClaimInv == TypeOK /\ FreshRegistrations /\ TicksTimely /\ SlotsUnclaimed /\ SlotClaimedOnce

\* A step that writes no record, makes no registration and claims nothing: a tick only
\* moves on with what it holds, or lets go of it.
KeepsClaims ==
    /\ UNCHANGED <<now, rec, gen, claimed, reclaimed>>
    /\ \A t \in Ticks :
          /\ pc'[t] \in Holding => pc[t] \in Holding /\ tick'[t].held = tick[t].held
          /\ pc'[t] = "claimPut" => pc[t] = "claimPut"
          /\ pc'[t] \in Claimed => pc[t] \in Claimed
          /\ pc'[t] \in Handling => pc[t] \in Handling /\ tick'[t].cur = tick[t].cur
          /\ pc'[t] # "idle" => pc[t] # "idle" /\ tick'[t].at = tick[t].at
          /\ pc'[t] = "idle" => pc[t] = "idle" \/ tick'[t].queue = {}
          /\ tick'[t].queue \subseteq tick[t].queue
          /\ tick'[t].queue # {} => tick'[t].at = tick[t].at
    /\ \A c \in Clients : pc'[c] = "regPut" => pc[c] = "regPut" /\ req'[c].new = req[c].new

LEMMA ClaimInit == Init => ClaimInv
<1> SUFFICES ASSUME Init PROVE ClaimInv
  OBVIOUS
<1>1. TypeOK
  BY TypeInit
<1>2. FreshRegistrations /\ TicksTimely /\ SlotsUnclaimed /\ SlotClaimedOnce
  BY DEF Init, FreshRegistrations, TicksTimely, SlotsUnclaimed, SlotClaimedOnce, NoTick,
         Holding, Handling, Claimed
<1>3. QED
  BY <1>1, <1>2 DEF ClaimInv

LEMMA FrameStep == ASSUME ClaimInv, TypeOK', KeepsClaims PROVE ClaimInv'
<1>1. FreshRegistrations'
  BY DEF ClaimInv, KeepsClaims, FreshRegistrations
<1>2. TicksTimely'
  BY DEF ClaimInv, KeepsClaims, TicksTimely, Handling
<1>3. SlotsUnclaimed'
  BY DEF ClaimInv, KeepsClaims, SlotsUnclaimed, Claimed, Holding, Handling
<1>4. SlotClaimedOnce'
  BY DEF ClaimInv, KeepsClaims, SlotClaimedOnce
<1>5. QED
  BY <1>1, <1>2, <1>3, <1>4 DEF ClaimInv

LEMMA KeepsClaimsStep ==
    ASSUME TypeOK,
           \/ \E c \in Clients, m \in Monitors : DeleteRead(c, m)
           \/ \E c \in Clients : \/ RegisterRead(c) \/ RegisterWrite(c) \/ DeleteWrite(c)
                               \/ ClientCrash(c)
           \/ \E h \in Hosts : OnDemandVerify(h)
           \/ \E t \in Ticks : \/ EvictList(t) \/ EvictRead(t) \/ EvictWrite(t) \/ Defer(t)
                             \/ SkipCooldown(t) \/ EndTick(t) \/ ClaimLost(t) \/ Verified(t)
                             \/ AppendRun(t) \/ Recorded(t) \/ Throw(t) \/ Abort(t)
           \/ CrashScheduler
           \/ UNCHANGED vars
    PROVE  KeepsClaims
<1> USE ProcessAssumption DEF TypeOK, PcTypeOK, TickTypeOK, TickRec, ReqTypeOK, ReqRec, KeepsClaims, Goto,
        Holding, Handling, Claimed, Requesting, bounds, history, ForgetPassed
<1>1. ASSUME NEW c \in Clients, RegisterRead(c) PROVE KeepsClaims
  BY <1>1 DEF RegisterRead, NoReq
<1>2. ASSUME NEW c \in Clients, RegisterWrite(c) PROVE KeepsClaims
  BY <1>2 DEF RegisterWrite, NoReq
<1>3. ASSUME NEW c \in Clients, NEW m \in Monitors, DeleteRead(c, m) PROVE KeepsClaims
  BY <1>3 DEF DeleteRead
<1>4. ASSUME NEW c \in Clients, DeleteWrite(c) PROVE KeepsClaims
  BY <1>4 DEF DeleteWrite, NoReq
<1>5. ASSUME NEW c \in Clients, ClientCrash(c) PROVE KeepsClaims
  BY <1>5 DEF ClientCrash, NoReq
<1>6. ASSUME NEW h \in Hosts, OnDemandVerify(h) PROVE KeepsClaims
  BY <1>6 DEF OnDemandVerify
<1>7. ASSUME NEW t \in Ticks, EvictList(t) PROVE KeepsClaims
  BY <1>7 DEF EvictList
<1>8. ASSUME NEW t \in Ticks, EvictRead(t) PROVE KeepsClaims
  BY <1>8 DEF EvictRead
<1>9. ASSUME NEW t \in Ticks, EvictWrite(t) PROVE KeepsClaims
  BY <1>9 DEF EvictWrite
<1>10. ASSUME NEW t \in Ticks, Defer(t) PROVE KeepsClaims
  BY <1>10 DEF Defer
<1>11. ASSUME NEW t \in Ticks, SkipCooldown(t) PROVE KeepsClaims
  BY <1>11 DEF SkipCooldown
<1>12. ASSUME NEW t \in Ticks, EndTick(t) PROVE KeepsClaims
  BY <1>12 DEF EndTick, NoTick
<1>13. ASSUME NEW t \in Ticks, ClaimLost(t) PROVE KeepsClaims
  <2>1. \A u \in Ticks \ {t} : tick'[u] = tick[u]
    BY <1>13 DEF ClaimLost, Release
  <2>2. tick'[t].at = tick[t].at /\ tick'[t].queue = tick[t].queue
    BY <1>13 DEF ClaimLost, Release
  <2>3. /\ UNCHANGED <<now, rec, gen, claimed, reclaimed, req>>
        /\ pc[t] = "claimGet" /\ pc' = [pc EXCEPT ![t] = "next"]
    BY <1>13 DEF ClaimLost
  <2>4. QED
    BY <2>1, <2>2, <2>3
<1>14. ASSUME NEW t \in Ticks, Verified(t) PROVE KeepsClaims
  BY <1>14 DEF Verified
<1>15. ASSUME NEW t \in Ticks, AppendRun(t) PROVE KeepsClaims
  BY <1>15 DEF AppendRun
<1>16. ASSUME NEW t \in Ticks, Recorded(t) PROVE KeepsClaims
  BY <1>16 DEF Recorded
<1>17. ASSUME NEW t \in Ticks, Throw(t) PROVE KeepsClaims
  BY <1>17 DEF Throw
<1>18. ASSUME NEW t \in Ticks, Abort(t) PROVE KeepsClaims
  BY <1>18 DEF Abort, NoTick
<1>19. CASE CrashScheduler
  BY <1>19 DEF CrashScheduler, NoTick
<1>20. CASE UNCHANGED vars
  BY <1>20 DEF vars
<1> HIDE DEF TypeOK, PcTypeOK, TickTypeOK, TickRec, ReqTypeOK, ReqRec, KeepsClaims, Goto,
        Holding, Handling, Claimed, Requesting, bounds, history, ForgetPassed
<1>21. CASE \E c \in Clients, m \in Monitors : DeleteRead(c, m)
  BY <1>21, <1>3
<1>22. CASE \E c \in Clients : \/ RegisterRead(c) \/ RegisterWrite(c) \/ DeleteWrite(c)
                              \/ ClientCrash(c)
  BY <1>22, <1>1, <1>2, <1>4, <1>5
<1>23. CASE \E t \in Ticks : \/ EvictList(t) \/ EvictRead(t) \/ EvictWrite(t) \/ Defer(t)
                            \/ SkipCooldown(t) \/ EndTick(t) \/ ClaimLost(t) \/ Verified(t)
                            \/ AppendRun(t) \/ Recorded(t) \/ Throw(t) \/ Abort(t)
  BY <1>23, <1>7, <1>8, <1>9, <1>10, <1>11, <1>12, <1>13, <1>14, <1>15, <1>16, <1>17, <1>18
<1>24. QED
  BY <1>6, <1>19, <1>20, <1>21, <1>22, <1>23

\* The steps that move something: each conjunct of the invariant that they can disturb.
LEMMA ListStep ==
    ASSUME ClaimInv, TypeOK', NEW t \in Ticks, StartTick(t) \/ ListDue(t) \/ Reserve(t)
    PROVE  ClaimInv'
<1> USE DEF ClaimInv, TypeOK
<1>1. UNCHANGED <<now, rec, gen, claimed, reclaimed, req>> /\ \A c \in Clients : pc'[c] = pc[c]
  BY ProcessAssumption DEF StartTick, ListDue, Reserve, PcTypeOK, Goto, bounds, history
<1>2. /\ pc'[t] \notin Holding /\ pc[t] \notin Holding
      /\ \A u \in Ticks \ {t} : pc'[u] = pc[u] /\ tick'[u] = tick[u]
  BY DEF StartTick, ListDue, Reserve, PcTypeOK, TickTypeOK, Goto, Holding
<1>3. FreshRegistrations'
  BY <1>1, <1>2 DEF FreshRegistrations
<1>4. SlotsUnclaimed'
  BY <1>1, <1>2 DEF SlotsUnclaimed, Claimed, Holding
<1>5. TicksTimely'
  <2>1. CASE StartTick(t)
    <3>1. tick' = [tick EXCEPT ![t].at = now] /\ pc[t] = "idle" /\ pc'[t] = "evict"
      BY <2>1 DEF StartTick, Goto, PcTypeOK
    <3>2. tick'[t].at = now /\ tick'[t].queue = {}
      BY <3>1 DEF TickTypeOK, TickRec, TicksTimely
    <3>3. now <= now /\ now <= now + TickBound
      BY ConstantsAssumption DEF StoreTypeOK
    <3>4. QED
      BY <1>1, <1>2, <3>1, <3>2, <3>3 DEF TicksTimely, Handling
  <2>2. CASE ListDue(t)
    <3>1. /\ tick' = [tick EXCEPT ![t].queue =
                 {<<m, rec[m]>> : m \in {x \in Listed : rec[x].due <= tick[t].at}}]
          /\ pc[t] = "evictRead" /\ pc'[t] = "next"
      BY <2>2 DEF ListDue, Goto, PcTypeOK
    <3>2. /\ tick'[t].at = tick[t].at
          /\ \A q \in tick'[t].queue : q[2].due <= tick[t].at
      BY <3>1 DEF TickTypeOK, TickRec
    <3>3. QED
      BY <1>1, <1>2, <3>1, <3>2 DEF TicksTimely, Handling
  <2>3. CASE Reserve(t)
    <3>1. PICK q \in MostOverdue(t) :
             tick' = [tick EXCEPT ![t].cur = q, ![t].queue = tick[t].queue \ {q}]
      BY <2>3 DEF Reserve, TickTypeOK
    <3>2. /\ tick'[t].at = tick[t].at /\ tick'[t].cur = q
          /\ tick'[t].queue \subseteq tick[t].queue /\ q \in tick[t].queue
      BY <3>1 DEF TickTypeOK, TickRec, MostOverdue
    <3>3. pc[t] = "next" /\ pc'[t] = "claimGet"
      BY <2>3 DEF Reserve, Goto, PcTypeOK
    <3>4. QED
      BY <1>1, <1>2, <3>2, <3>3 DEF TicksTimely, Handling
  <2>4. QED
    BY <2>1, <2>2, <2>3
<1>6. QED
  BY <1>1, <1>3, <1>4, <1>5 DEF SlotClaimedOnce

LEMMA RegisterStep ==
    ASSUME ClaimInv, TypeOK', NEW c \in Clients,
           RegisterPut(c) \/ \E m \in Monitors, i \in Intervals : RegisterCheck(c, m, i)
    PROVE  ClaimInv'
<1> USE DEF ClaimInv, TypeOK
<1>1. /\ UNCHANGED <<now, claimed, reclaimed, tick>>
      /\ \A t \in Ticks : pc'[t] = pc[t]
      /\ \A d \in Clients \ {c} : pc'[d] = pc[d]
  BY ProcessAssumption
     DEF RegisterPut, RegisterCheck, PcTypeOK, Goto, bounds, history, ForgetMonitor
<1>2. TicksTimely'
  BY <1>1 DEF TicksTimely
<1>3. CASE RegisterPut(c)
  <2>1. /\ rec' = [rec EXCEPT ![req[c].id] = req[c].new] /\ UNCHANGED <<gen, req>>
        /\ pc[c] = "regPut" /\ pc'[c] = "regRead"
    BY <1>3 DEF RegisterPut, Goto, PcTypeOK
  <2>2. \A m \in Monitors : rec'[m] = rec[m] \/ rec'[m] = req[c].new
    BY <2>1 DEF StoreTypeOK
  <2>3. FreshRegistrations'
    BY <1>1, <2>1, <2>2 DEF FreshRegistrations
  <2>4. \A m \in Monitors : \A d : <<m, req[c].new.gen, d>> \notin claimed
    BY <2>1 DEF FreshRegistrations
  <2>5. SlotsUnclaimed'
    BY <1>1, <2>1, <2>2, <2>4 DEF SlotsUnclaimed
  <2>6. QED
    BY <1>1, <1>2, <2>3, <2>5 DEF SlotClaimedOnce
<1>4. ASSUME NEW m \in Monitors, NEW i \in Intervals, RegisterCheck(c, m, i)
      PROVE  ClaimInv'
  <2>1. /\ rec' = rec /\ gen' = gen + 1 /\ gen \in Nat
        /\ \A d \in Clients \ {c} : req'[d] = req[d]
    BY <1>4 DEF RegisterCheck, StoreTypeOK, ReqTypeOK
  <2>2. req'[c].new.gen = gen + 1
    BY <1>4 DEF RegisterCheck, ReqTypeOK, ReqRec
  <2>3. /\ \A x \in Monitors : rec[x] # None => rec[x].gen \in Nat
        /\ \A t \in Ticks : pc[t] \in Holding => tick[t].held.gen \in Nat
        /\ \A s \in claimed : s[2] \in Nat
        /\ \A d \in Clients : pc[d] = "regPut" => req[d].new.gen \in Nat
    BY DEF StoreTypeOK, HoldsOK, HistoryTypeOK, Slot, Record, Requesting
  <2>4. FreshRegistrations'
    BY <1>1, <2>1, <2>2, <2>3 DEF FreshRegistrations
  <2>5. SlotsUnclaimed'
    BY <1>1, <2>1 DEF SlotsUnclaimed
  <2>6. QED
    BY <1>1, <1>2, <2>4, <2>5 DEF SlotClaimedOnce
<1>5. QED
  BY <1>3, <1>4

LEMMA AdvanceStep == ASSUME ClaimInv, TypeOK', Advance PROVE ClaimInv'
<1> USE DEF ClaimInv, TypeOK
<1>1. /\ UNCHANGED <<rec, gen, claimed, reclaimed, pc, tick, req>> /\ now' = now + 1
      /\ now \in Nat /\ \A t \in Ticks : pc[t] # "idle" => now < tick[t].at + TickBound
  BY DEF Advance, StoreTypeOK, history
<1>2. \A t \in Ticks : tick[t].at \in Nat /\ tick[t].at + TickBound \in Nat
  BY ConstantsAssumption DEF TickTypeOK, TickRec
<1>3. \A s \in claimed : s[3] \in Nat
  BY DEF HistoryTypeOK, Slot
<1>4. TicksTimely'
  BY <1>1, <1>2 DEF TicksTimely
<1>5. SlotsUnclaimed'
  BY <1>1, <1>3 DEF SlotsUnclaimed
<1>6. FreshRegistrations'
  BY <1>1 DEF FreshRegistrations
<1>7. QED
  BY <1>1, <1>4, <1>5, <1>6 DEF SlotClaimedOnce

\* The slot after the one a tick works on lies in the future: nobody has claimed it.
LEMMA NextSlotUnclaimed ==
    ASSUME TimelyTicks, ClaimInv, NEW t \in Ticks, pc[t] # "idle", NEW i \in Intervals
    PROVE  /\ now < tick[t].at + i
           /\ \A m, g : <<m, g, tick[t].at + i>> \notin claimed
<1>1. tick[t].at \in Nat /\ now \in Nat /\ \A s \in claimed : s[3] <= now
  BY DEF ClaimInv, TypeOK, TickTypeOK, TickRec, StoreTypeOK, SlotsUnclaimed
<1>2. TickBound < i /\ i \in Nat /\ TickBound \in Nat /\ now <= tick[t].at + TickBound
  BY ConstantsAssumption DEF TimelyTicks, ClaimInv, TicksTimely
<1>3. now < tick[t].at + i
  BY <1>1, <1>2
<1>4. ASSUME NEW m, NEW g, <<m, g, tick[t].at + i>> \in claimed PROVE FALSE
  <2>1. <<m, g, tick[t].at + i>>[3] <= now
    BY <1>1, <1>4
  <2>2. QED
    BY <1>1, <1>2, <1>3, <2>1
<1>5. QED
  BY <1>3, <1>4

\* Reading the record to write it back: the slot read is the listed one, unclaimed.
LEMMA ReadStep ==
    ASSUME ClaimInv, TypeOK', NEW t \in Ticks,
           ClaimRead(t) \/ (ErrorRead(t) /\ StillDue(t))
    PROVE  ClaimInv'
<1> USE DEF ClaimInv, TypeOK
<1> DEFINE m == tick[t].cur[1]
<1>1. /\ UNCHANGED <<now, rec, gen, claimed, reclaimed, req>>
      /\ \A p \in (Ticks \cup Clients) \ {t} : pc'[p] = pc[p]
      /\ pc[t] \in {"claimGet", "errGet"} /\ pc'[t] \in {"claimPut", "errPut"}
      /\ tick' = [tick EXCEPT ![t].held = Get(m)]
  BY DEF ClaimRead, ErrorRead, PcTypeOK, Goto, bounds, history
<1>2. /\ \A u \in Ticks \ {t} : tick'[u] = tick[u]
      /\ tick'[t].held = Get(m)
      /\ tick'[t].at = tick[t].at /\ tick'[t].queue = tick[t].queue /\ tick'[t].cur = tick[t].cur
  BY <1>1 DEF TickTypeOK, TickRec
<1>3. m \in Monitors /\ rec[m] # None /\ Get(m) = rec[m] /\ rec[m].due = tick[t].cur[2].due
  BY <1>1 DEF HoldsOK, Handling, Item, StillDue, ClaimRead, Get
<1>4. \A c \in Clients : pc'[c] = pc[c]
  BY <1>1, ProcessAssumption
<1>5. FreshRegistrations'
  BY <1>1, <1>2, <1>3, <1>4 DEF FreshRegistrations
<1>6. TicksTimely'
  BY <1>1, <1>2 DEF TicksTimely, Handling
<1>7. SlotsUnclaimed'
  BY <1>1, <1>2, <1>3 DEF SlotsUnclaimed, Claimed
<1>8. QED
  BY <1>1, <1>5, <1>6, <1>7 DEF SlotClaimedOnce

\* The write of a run that ended, or of a catch block: a slot nobody has claimed.
LEMMA WriteBackStep ==
    ASSUME TimelyTicks, ClaimInv, TypeOK', NEW t \in Ticks, Finish(t) \/ ErrorWrite(t)
    PROVE  ClaimInv'
<1> USE DEF ClaimInv, TypeOK
<1> DEFINE m == tick[t].cur[1]
           r == IF Finish(t) THEN [tick[t].held EXCEPT !.expires = tick[t].at + Ttl]
                             ELSE Advanced(tick[t].held, t)
<1>1. /\ UNCHANGED <<now, gen, claimed, reclaimed, req>> /\ rec' = [rec EXCEPT ![m] = r]
      /\ \A p \in (Ticks \cup Clients) \ {t} : pc'[p] = pc[p]
      /\ pc[t] \in {"finish", "errPut"} /\ pc'[t] = "next" /\ Release(t)
  BY DEF Finish, ErrorWrite, PcTypeOK, Goto, bounds, ForgetPassed
<1>2. /\ \A u \in Ticks \ {t} : tick'[u] = tick[u]
      /\ tick'[t].at = tick[t].at /\ tick'[t].queue = tick[t].queue
  BY <1>1 DEF TickTypeOK, TickRec, Release
<1>3. tick[t].cur \in Item /\ tick[t].held \in Record
  BY <1>1 DEF HoldsOK, Handling, Holding
<1>4. r.gen = tick[t].held.gen /\ \E i \in Intervals : r.due = tick[t].at + i
  <2>1. CASE Finish(t)
    <3>1. /\ [tick[t].held EXCEPT !.expires = tick[t].at + Ttl].gen = tick[t].held.gen
          /\ [tick[t].held EXCEPT !.expires = tick[t].at + Ttl].due = tick[t].held.due
      BY <1>3 DEF Record
    <3>2. pc[t] = "finish"
      BY <2>1 DEF Finish, Goto
    <3>3. \E i \in Intervals : tick[t].held.due = tick[t].at + i
      BY <3>2 DEF SlotsUnclaimed, Claimed
    <3>4. QED
      BY <2>1, <3>1, <3>3
  <2>2. CASE ~Finish(t)
    BY <2>2, <1>3, AdvancedType
  <2>3. QED
    BY <2>1, <2>2
<1>5. \A g : <<m, g, r.due>> \notin claimed
  BY <1>1, <1>4, NextSlotUnclaimed
<1>6. \A x \in Monitors : rec'[x] = rec[x] \/ (x = m /\ rec'[x] = r)
  BY <1>1 DEF StoreTypeOK
<1>7. \A c \in Clients : pc'[c] = pc[c]
  BY <1>1, ProcessAssumption
<1>8. FreshRegistrations'
  BY <1>1, <1>2, <1>4, <1>6, <1>7 DEF FreshRegistrations, Holding
<1>9. TicksTimely'
  BY <1>1, <1>2 DEF TicksTimely, Handling
<1>10. SlotsUnclaimed'
  <2>1. \A x \in Monitors : rec'[x] # None => <<x, rec'[x].gen, rec'[x].due>> \notin claimed
    BY <1>5, <1>6 DEF SlotsUnclaimed
  <2>2. QED
    BY <1>1, <1>2, <2>1 DEF SlotsUnclaimed, Claimed
<1>11. QED
  BY <1>1, <1>8, <1>9, <1>10 DEF SlotClaimedOnce

\* The claim itself: the slot was unclaimed, and the record moves on to a later one.
LEMMA ClaimStep ==
    ASSUME TimelyTicks, ClaimInv, TypeOK', NEW t \in Ticks, ClaimWrite(t)
    PROVE  ClaimInv'
<1> USE DEF ClaimInv, TypeOK
<1> DEFINE m == tick[t].cur[1]
           r == Advanced(tick[t].held, t)
           slot == <<m, tick[t].held.gen, tick[t].held.due>>
<1>1. /\ UNCHANGED <<now, gen, req>> /\ rec' = [rec EXCEPT ![m] = r]
      /\ \A p \in (Ticks \cup Clients) \ {t} : pc'[p] = pc[p]
      /\ pc[t] = "claimPut" /\ pc'[t] = "verify"
      /\ tick' = [tick EXCEPT ![t].held = r]
      /\ claimed' = claimed \cup {slot} /\ reclaimed' = reclaimed \cup ({slot} \cap claimed)
  BY DEF ClaimWrite, PcTypeOK, Goto
<1>2. /\ \A u \in Ticks \ {t} : tick'[u] = tick[u]
      /\ tick'[t].held = r /\ tick'[t].cur = tick[t].cur
      /\ tick'[t].at = tick[t].at /\ tick'[t].queue = tick[t].queue
  BY <1>1 DEF TickTypeOK, TickRec
<1>3. m \in Monitors /\ tick[t].cur \in Item /\ tick[t].held \in Record
  BY <1>1 DEF HoldsOK, Handling, Holding, Item
<1>4. PICK i \in Intervals : r.due = tick[t].at + i /\ r.gen = tick[t].held.gen
  BY <1>3, AdvancedType
<1>5. slot \notin claimed /\ tick[t].held.due = tick[t].cur[2].due
  BY <1>1 DEF SlotsUnclaimed
<1>6. now < r.due /\ \A g : <<m, g, r.due>> \notin claimed
  BY <1>1, <1>4, NextSlotUnclaimed
<1>7. tick[t].held.due <= now
  <2>1. tick[t].held.due <= tick[t].at /\ tick[t].at <= now
    BY <1>1, <1>5 DEF TicksTimely, Handling
  <2>2. tick[t].held.due \in Nat /\ tick[t].at \in Nat /\ now \in Nat
    BY <1>3 DEF Record, TickTypeOK, TickRec, StoreTypeOK
  <2>3. QED
    BY <2>1, <2>2
<1>8. \A x \in Monitors : rec'[x] = IF x = m THEN r ELSE rec[x]
  BY <1>1 DEF StoreTypeOK
<1>9. \A c \in Clients : pc'[c] = pc[c]
  BY <1>1, ProcessAssumption
<1>10. FreshRegistrations'
  BY <1>1, <1>2, <1>4, <1>8, <1>9 DEF FreshRegistrations, Holding
<1>11. TicksTimely'
  BY <1>1, <1>2 DEF TicksTimely, Handling
<1>12. SlotsUnclaimed'
  <2>1. <<m, r.gen, r.due>> \notin claimed'
    <3>1. r.due # tick[t].held.due
      <4>1. now \in Nat /\ tick[t].held.due \in Nat /\ r.due \in Nat
        BY <1>3, AdvancedType DEF Record, StoreTypeOK
      <4>2. QED
        BY <1>6, <1>7, <4>1
    <3>2. QED
      BY <1>1, <1>6, <3>1
  <2>2. \A x \in Monitors : rec'[x] # None => <<x, rec'[x].gen, rec'[x].due>> \notin claimed'
    BY <1>1, <1>8, <2>1 DEF SlotsUnclaimed
  <2>3. \A s \in claimed' : s[3] <= now
    BY <1>1, <1>7 DEF SlotsUnclaimed
  <2>4. \A u \in Ticks : pc'[u] # "claimPut"
    <3>1. chain = t
      BY <1>1 DEF HoldsOK
    <3>2. QED
      BY <1>1, <3>1 DEF HoldsOK
  <2>5. \A u \in Ticks : pc'[u] \in Claimed => \E j \in Intervals : tick'[u].held.due = tick'[u].at + j
    <3>1. ASSUME NEW u \in Ticks \ {t}, pc'[u] \in Claimed
          PROVE  \E j \in Intervals : tick'[u].held.due = tick'[u].at + j
      BY <1>1, <1>2, <3>1 DEF SlotsUnclaimed
    <3>2. \E j \in Intervals : tick'[t].held.due = tick'[t].at + j
      BY <1>2, <1>4
    <3>3. QED
      BY <3>1, <3>2
  <2>6. QED
    BY <1>1, <2>2, <2>3, <2>4, <2>5 DEF SlotsUnclaimed
<1>13. SlotClaimedOnce'
  BY <1>1, <1>5 DEF SlotClaimedOnce
<1>14. QED
  BY <1>10, <1>11, <1>12, <1>13

LEMMA ClaimInvStep == ASSUME TimelyTicks PROVE ClaimInv /\ [Next]_vars => ClaimInv'
<1> SUFFICES ASSUME ClaimInv, [Next]_vars PROVE ClaimInv'
  OBVIOUS
<1>1. TypeOK /\ TypeOK'
  BY TypeStep DEF ClaimInv
<1>2. CASE UNCHANGED vars \/ Advance \/ CrashScheduler \/ \E h \in Hosts : OnDemandVerify(h)
  BY <1>1, <1>2, AdvanceStep, FrameStep, KeepsClaimsStep
<1>3. ASSUME NEW c \in Clients, ClientStep(c) PROVE ClaimInv'
  <2>1. CASE RegisterPut(c) \/ \E m \in Monitors, i \in Intervals : RegisterCheck(c, m, i)
    BY <1>1, <2>1, RegisterStep
  <2>2. CASE \E m \in Monitors : DeleteRead(c, m)
    BY <1>1, <2>2, FrameStep, KeepsClaimsStep
  <2>3. CASE RegisterRead(c) \/ RegisterWrite(c) \/ DeleteWrite(c) \/ ClientCrash(c)
    BY <1>1, <2>3, FrameStep, KeepsClaimsStep
  <2>4. QED
    BY <1>3, <2>1, <2>2, <2>3 DEF ClientStep
<1>4. ASSUME NEW t \in Ticks, TickStep(t) PROVE ClaimInv'
  <2>1. CASE ErrorRead(t) /\ ~StillDue(t)
    <3>1. KeepsClaims
      <4>1. /\ UNCHANGED <<now, rec, gen, claimed, reclaimed, req>> /\ Release(t)
            /\ pc' = [pc EXCEPT ![t] = "next"] /\ pc[t] = "errGet"
        BY <2>1 DEF ErrorRead, Goto, bounds, history
      <4>2. QED
        BY <4>1, <1>1, ProcessAssumption
           DEF KeepsClaims, Release, TypeOK, PcTypeOK, TickTypeOK, TickRec, Holding, Handling, Claimed
    <3>2. QED
      BY <1>1, <3>1, FrameStep
  <2>2. CASE StartTick(t) \/ ListDue(t) \/ Reserve(t)
    BY <1>1, <2>2, ListStep
  <2>3. CASE ClaimRead(t) \/ (ErrorRead(t) /\ StillDue(t))
    BY <1>1, <2>3, ReadStep
  <2>4. CASE Finish(t) \/ ErrorWrite(t)
    BY <1>1, <2>4, WriteBackStep
  <2>5. CASE ClaimWrite(t)
    BY <1>1, <2>5, ClaimStep
  <2>6. CASE \/ EvictList(t) \/ EvictRead(t) \/ EvictWrite(t) \/ Defer(t)
             \/ SkipCooldown(t) \/ EndTick(t) \/ ClaimLost(t) \/ Verified(t)
             \/ AppendRun(t) \/ Recorded(t) \/ Throw(t) \/ Abort(t)
    BY <1>1, <2>6, FrameStep, KeepsClaimsStep
  <2>7. QED
    BY <1>4, <2>1, <2>2, <2>3, <2>4, <2>5, <2>6 DEF TickStep, RunStep
<1>5. QED
  BY <1>2, <1>3, <1>4 DEF Next, Quiet

\* claimDue's promise for every number of monitors, overlapping ticks and clients: as long
\* as no tick outlasts an interval, no slot of a registration is run twice.
THEOREM ClaimsExclusive == ASSUME TimelyTicks PROVE Spec => []SlotClaimedOnce
<1>1. Init => ClaimInv
  BY ClaimInit
<1>2. ClaimInv /\ [Next]_vars => ClaimInv'
  BY ClaimInvStep
<1>3. ClaimInv => SlotClaimedOnce
  BY DEF ClaimInv
<1>4. QED
  BY <1>1, <1>2, <1>3, PTL DEF Spec

\* What makes it so: no record, stored or about to be written back by a tick that read it
\* earlier, carries a slot that was claimed.
THEOREM ClaimedSlotsStayClaimed == ASSUME TimelyTicks PROVE Spec => []SlotsUnclaimed
<1>1. Init => ClaimInv
  BY ClaimInit
<1>2. ClaimInv /\ [Next]_vars => ClaimInv'
  BY ClaimInvStep
<1>3. ClaimInv => SlotsUnclaimed
  BY DEF ClaimInv
<1>4. QED
  BY <1>1, <1>2, <1>3, PTL DEF Spec

(***************************************************************************)
(* The writes of a tick that it made up itself.                            *)
(***************************************************************************)

\* A tick writes the record it holds, due one interval after its start.
WritesNextSlot(t) ==
    /\ UNCHANGED <<now, index, runs>>
    /\ \E i \in Intervals, r \in Record :
          r.due = tick[t].at + i /\ rec' = [rec EXCEPT ![tick[t].cur[1]] = r]
    /\ \A u \in Ticks \ {t} : pc'[u] = pc[u] /\ tick'[u] = tick[u]
    /\ tick'[t].at = tick[t].at /\ tick'[t].queue = tick[t].queue
    /\ \/ pc[t] = "claimPut" /\ pc'[t] = "verify" /\ tick'[t].cur = tick[t].cur
       \/ pc[t] \in {"finish", "errPut"} /\ pc'[t] = "next"

LEMMA NextSlotWritten ==
    ASSUME ClaimInv, NEW t \in Ticks, ClaimWrite(t) \/ Finish(t) \/ ErrorWrite(t)
    PROVE  WritesNextSlot(t)
<1> USE DEF ClaimInv, TypeOK
<1>1. CASE ClaimWrite(t)
  <2> DEFINE r == Advanced(tick[t].held, t)
  <2>1. /\ UNCHANGED <<now, index, runs>> /\ rec' = [rec EXCEPT ![tick[t].cur[1]] = r]
        /\ pc[t] = "claimPut" /\ pc' = [pc EXCEPT ![t] = "verify"]
        /\ tick' = [tick EXCEPT ![t].held = r]
    BY <1>1 DEF ClaimWrite, Goto
  <2>2. tick[t].cur \in Item /\ tick[t].held \in Record
    BY <2>1 DEF HoldsOK, Handling, Holding
  <2>3. r \in Record /\ \E i \in Intervals : r.due = tick[t].at + i
    BY <2>2, AdvancedType
  <2>4. /\ \A u \in Ticks \ {t} : pc'[u] = pc[u] /\ tick'[u] = tick[u]
        /\ pc'[t] = "verify" /\ tick'[t].cur = tick[t].cur
        /\ tick'[t].at = tick[t].at /\ tick'[t].queue = tick[t].queue
    BY <2>1 DEF TickTypeOK, TickRec, PcTypeOK
  <2> HIDE DEF r
  <2>5. QED
    BY <2>1, <2>3, <2>4 DEF WritesNextSlot
<1>2. CASE Finish(t) \/ ErrorWrite(t)
  <2> DEFINE r == IF Finish(t) THEN [tick[t].held EXCEPT !.expires = tick[t].at + Ttl]
                               ELSE Advanced(tick[t].held, t)
  <2>1. /\ UNCHANGED <<now, index, runs>> /\ rec' = [rec EXCEPT ![tick[t].cur[1]] = r]
        /\ pc[t] \in {"finish", "errPut"} /\ pc' = [pc EXCEPT ![t] = "next"] /\ Release(t)
    BY <1>2 DEF Finish, ErrorWrite, Goto
  <2>2. tick[t].cur \in Item /\ tick[t].held \in Record
    BY <2>1 DEF HoldsOK, Handling, Holding
  <2>3. r \in Record /\ \E i \in Intervals : r.due = tick[t].at + i
    <3>1. CASE Finish(t)
      <4>1. tick[t].at \in Nat /\ Ttl \in Nat
        BY ConstantsAssumption DEF TickTypeOK, TickRec
      <4>2. /\ r \in Record /\ r.due = tick[t].held.due
        BY <3>1, <2>2, <4>1 DEF Record
      <4>3. pc[t] = "finish"
        BY <3>1 DEF Finish, Goto
      <4>4. \E i \in Intervals : tick[t].held.due = tick[t].at + i
        BY <4>3 DEF SlotsUnclaimed, Claimed
      <4> HIDE DEF r
      <4>5. QED
        BY <4>2, <4>4
    <3>2. CASE ~Finish(t)
      BY <3>2, <2>2, AdvancedType
    <3>3. QED
      BY <3>1, <3>2
  <2>4. /\ \A u \in Ticks \ {t} : pc'[u] = pc[u] /\ tick'[u] = tick[u]
        /\ pc'[t] = "next" /\ tick'[t].at = tick[t].at /\ tick'[t].queue = tick[t].queue
    BY <2>1 DEF TickTypeOK, TickRec, PcTypeOK, Release
  <2> HIDE DEF r
  <2>5. QED
    BY <2>1, <2>3, <2>4 DEF WritesNextSlot
<1>3. QED
  BY <1>1, <1>2

\* What TicksTimely gives of a tick's times, as numbers.
LEMMA TickTimes ==
    ASSUME ClaimInv, NEW t \in Ticks
    PROVE  /\ tick[t].at \in Nat /\ now \in Nat /\ TickBound \in Nat
           /\ pc[t] # "idle" => tick[t].at <= now /\ now <= tick[t].at + TickBound
           /\ pc[t] \in Handling => /\ tick[t].cur \in Item /\ tick[t].cur[1] \in Monitors
                                    /\ tick[t].cur[2] \in Record
                                    /\ tick[t].cur[2].due \in Nat
                                    /\ tick[t].cur[2].due <= tick[t].at
<1>1. tick[t].at \in Nat /\ now \in Nat /\ TickBound \in Nat
  BY ConstantsAssumption DEF ClaimInv, TypeOK, TickTypeOK, TickRec, StoreTypeOK
<1>2. /\ pc[t] # "idle" => tick[t].at <= now /\ now <= tick[t].at + TickBound
      /\ pc[t] \in Handling => tick[t].cur[2].due <= tick[t].at
  BY DEF ClaimInv, TicksTimely
<1>3. pc[t] \in Handling => tick[t].cur \in Item
  BY DEF ClaimInv, TypeOK, HoldsOK
<1>4. \A q \in Item : q[1] \in Monitors /\ q[2] \in Record /\ q[2].due \in Nat
  BY DEF Item, Record
<1>5. QED
  BY <1>1, <1>2, <1>3, <1>4

(***************************************************************************)
(* HistoryLosesNoRun.  Two ticks are in the run of one monitor only if it  *)
(* was due again while the first run lasted: a claim that reads the record *)
(* sees the slot that the run before it stored (RunsApart, ReadsApart).    *)
(* Whoever is alone writes back the history as it is (HistoryCurrent).     *)
(* Nothing is assumed of the length of a tick.                             *)
(***************************************************************************)

\* What a tick works on was due when it started.
DueInTime ==
    \A t \in Ticks :
       /\ pc[t] = "idle" => tick[t].queue = {}
       /\ pc[t] # "idle" => tick[t].at <= now
       /\ \A q \in tick[t].queue : q[2].due <= tick[t].at
       /\ pc[t] \in Handling => tick[t].cur[2].due <= tick[t].at

RunsApart ==
    \A t, u \in Ticks :
       pc[t] \in Claimed /\ pc[u] \in Claimed /\ t # u /\ tick[t].cur[1] = tick[u].cur[1]
          => tick[t].cur[1] \in exposed

ReadsApart ==
    \A t, u \in Ticks :
       pc[t] = "claimPut" /\ pc[u] \in Claimed /\ tick[t].cur[1] = tick[u].cur[1]
          => tick[t].cur[1] \in exposed

HistoryCurrent ==
    \A t \in Ticks : pc[t] = "append" /\ tick[t].cur[1] \notin exposed
                        => tick[t].hist = runs[tick[t].cur[1]]

HistInv == TypeOK /\ DueInTime /\ RunsApart /\ ReadsApart /\ HistoryCurrent

\* What a step does to a tick: nothing, end it, start it, or move it on with what it lists and
\* handles; into a run it comes by a claim only, into a claim by its read, and with the
\* history it read to the append.
Proceeds(t) ==
    /\ pc[t] # "idle" /\ pc'[t] # "idle" /\ tick'[t].at = tick[t].at
    /\ \A q \in tick'[t].queue : q \in tick[t].queue \/ q[2].due <= tick[t].at
    /\ pc'[t] \in Handling => \/ pc[t] \in Handling /\ tick'[t].cur = tick[t].cur
                              \/ pc'[t] = "claimGet" /\ tick'[t].cur \in tick[t].queue
    /\ pc'[t] \in Claimed => pc[t] \in Claimed \/ ClaimWrite(t)
    /\ pc'[t] = "claimPut" => ClaimRead(t)
    /\ pc'[t] = "append" => UNCHANGED runs /\ tick'[t].hist = runs[tick[t].cur[1]]

RunMoves(t) ==
    \/ pc'[t] = pc[t] /\ tick'[t] = tick[t]
    \/ pc'[t] = "idle" /\ tick'[t].queue = {}
    \/ /\ pc[t] = "idle" /\ pc'[t] = "evict"
       /\ tick'[t].at = now /\ tick'[t].queue = tick[t].queue
    \/ Proceeds(t)

LEMMA OtherMoves ==
    ASSUME TypeOK, NEW t \in Ticks, TickStep(t), NEW u \in Ticks, u # t PROVE RunMoves(u)
<1>1. DOMAIN pc = Ticks \cup Clients /\ tick \in [Ticks -> TickRec]
  BY DEF TypeOK, PcTypeOK, TickTypeOK
<1>2. pc'[u] = pc[u] /\ tick'[u] = tick[u]
  BY <1>1 DEF TickStep, RunStep, StartTick, EvictList, EvictRead, EvictWrite, ListDue, Defer,
     SkipCooldown, Reserve, EndTick, ClaimRead, ClaimLost, ClaimWrite, Verified, AppendRun,
     Recorded, Finish, ErrorRead, ErrorWrite, Throw, Abort, Goto, Release
<1>3. QED
  BY <1>2 DEF RunMoves

LEMMA OwnMove == ASSUME TypeOK, NEW t \in Ticks, TickStep(t) PROVE RunMoves(t)
<1>1. DOMAIN pc = Ticks \cup Clients /\ tick \in [Ticks -> TickRec]
  BY DEF TypeOK, PcTypeOK, TickTypeOK
<1>2. CASE StartTick(t)
  <2>1. tick' = [tick EXCEPT ![t].at = now] /\ pc[t] = "idle" /\ pc'[t] = "evict"
    BY <1>1, <1>2 DEF StartTick, Goto
  <2>2. tick'[t].at = now /\ tick'[t].queue = tick[t].queue
    BY <1>1, <2>1 DEF TickRec
  <2>3. QED
    BY <2>1, <2>2 DEF RunMoves
<1>3. CASE EndTick(t) \/ Abort(t)
  <2>1. pc'[t] = "idle" /\ tick'[t] = NoTick
    BY <1>1, <1>3 DEF EndTick, Abort, Goto
  <2>2. QED
    BY <2>1 DEF RunMoves, NoTick
<1>4. CASE ListDue(t)
  <2>1. /\ tick' = [tick EXCEPT ![t].queue =
               {<<m, rec[m]>> : m \in {x \in Listed : rec[x].due <= tick[t].at}}]
        /\ pc[t] = "evictRead" /\ pc'[t] = "next"
    BY <1>1, <1>4 DEF ListDue, Goto
  <2>2. /\ tick'[t].at = tick[t].at
        /\ \A q \in tick'[t].queue : q[2].due <= tick[t].at
    BY <1>1, <2>1 DEF TickRec
  <2>3. QED
    BY <2>1, <2>2 DEF RunMoves, Proceeds, Handling, Claimed
<1>5. CASE Reserve(t)
  <2>1. PICK q \in MostOverdue(t) :
           tick' = [tick EXCEPT ![t].cur = q, ![t].queue = tick[t].queue \ {q}]
    BY <1>1, <1>5 DEF Reserve
  <2>2. /\ tick'[t].at = tick[t].at /\ tick'[t].cur = q
        /\ tick'[t].queue \subseteq tick[t].queue /\ q \in tick[t].queue
    BY <1>1, <2>1 DEF TickRec, MostOverdue
  <2>3. pc[t] = "next" /\ pc'[t] = "claimGet"
    BY <1>1, <1>5 DEF Reserve, Goto
  <2>4. QED
    BY <2>2, <2>3 DEF RunMoves, Proceeds, Handling, Claimed
<1>6. CASE \/ EvictList(t) \/ EvictRead(t) \/ EvictWrite(t) \/ Defer(t) \/ SkipCooldown(t)
           \/ ClaimLost(t) \/ Finish(t) \/ ErrorWrite(t)
  <2>1. /\ tick'[t].at = tick[t].at /\ tick'[t].queue \subseteq tick[t].queue
        /\ pc[t] # "idle" /\ pc'[t] \in {"evictRead", "evictWrite", "next"}
    <3>1. CASE EvictList(t)
      BY <1>1, <3>1 DEF EvictList, Goto, TickRec
    <3>2. CASE EvictRead(t)
      BY <1>1, <3>2 DEF EvictRead, Goto, TickRec
    <3>3. CASE EvictWrite(t)
      BY <1>1, <3>3 DEF EvictWrite, Goto, TickRec
    <3>4. CASE Defer(t)
      BY <1>1, <3>4 DEF Defer, TickRec
    <3>5. CASE SkipCooldown(t)
      BY <1>1, <3>5 DEF SkipCooldown, TickRec
    <3>6. CASE ClaimLost(t) \/ Finish(t) \/ ErrorWrite(t)
      <4>1. Release(t) /\ pc[t] # "idle" /\ pc'[t] = "next"
        BY <1>1, <3>6 DEF ClaimLost, Finish, ErrorWrite, Goto
      <4>2. QED
        BY <1>1, <4>1 DEF Release, TickRec
    <3>7. QED
      BY <1>6, <3>1, <3>2, <3>3, <3>4, <3>5, <3>6
  <2>2. QED
    BY <2>1 DEF RunMoves, Proceeds, Handling, Claimed
<1>7. CASE \/ ClaimRead(t) \/ ClaimWrite(t) \/ Verified(t) \/ AppendRun(t) \/ Recorded(t)
           \/ Throw(t) \/ (ErrorRead(t) /\ StillDue(t))
  <2>1. /\ tick'[t].at = tick[t].at /\ tick'[t].queue = tick[t].queue
        /\ tick'[t].cur = tick[t].cur
    BY <1>1, <1>7 DEF ClaimRead, ClaimWrite, Verified, AppendRun, Recorded, Throw, ErrorRead,
       TickRec
  <2>2. CASE ClaimRead(t)
    BY <1>1, <2>1, <2>2 DEF ClaimRead, Goto, RunMoves, Proceeds, Handling, Claimed
  <2>3. CASE ClaimWrite(t)
    <3>1. pc[t] = "claimPut" /\ pc'[t] = "verify"
      BY <1>1, <2>3 DEF ClaimWrite, Goto
    <3>2. QED
      BY <2>1, <2>3, <3>1 DEF RunMoves, Proceeds, Handling
  <2>4. CASE Verified(t)
    <3>1. /\ pc[t] = "verify" /\ pc'[t] = "append" /\ UNCHANGED runs
          /\ tick'[t].hist = runs[tick[t].cur[1]]
      BY <1>1, <2>4 DEF Verified, Goto, TickRec
    <3>2. QED
      BY <2>1, <3>1 DEF RunMoves, Proceeds, Handling, Claimed
  <2>5. CASE AppendRun(t) \/ Recorded(t)
    <3>1. pc[t] \in {"append", "record"} /\ pc'[t] \in {"record", "finish"}
      BY <1>1, <2>5 DEF AppendRun, Recorded, Goto
    <3>2. QED
      BY <2>1, <3>1 DEF RunMoves, Proceeds, Handling, Claimed
  <2>6. CASE Throw(t) \/ (ErrorRead(t) /\ StillDue(t))
    <3>1. pc[t] \in Handling /\ pc[t] # "idle" /\ pc'[t] \in {"errGet", "errPut"}
      BY <1>1, <2>6 DEF Throw, ErrorRead, Goto, Handling
    <3>2. QED
      BY <2>1, <3>1 DEF RunMoves, Proceeds, Handling, Claimed
  <2>7. QED
    BY <1>7, <2>2, <2>3, <2>4, <2>5, <2>6
<1>8. CASE ErrorRead(t) /\ ~StillDue(t)
  <2>1. Release(t) /\ pc[t] # "idle" /\ pc'[t] = "next"
    BY <1>1, <1>8 DEF ErrorRead, Goto
  <2>2. tick'[t].at = tick[t].at /\ tick'[t].queue = tick[t].queue
    BY <1>1, <2>1 DEF Release, TickRec
  <2>3. QED
    BY <2>1, <2>2 DEF RunMoves, Proceeds, Handling, Claimed
<1>9. QED
  BY <1>2, <1>3, <1>4, <1>5, <1>6, <1>7, <1>8 DEF TickStep, RunStep

LEMMA EveryMove ==
    ASSUME TypeOK, [Next]_vars
    PROVE  /\ now \in Nat /\ now <= now'
           /\ \A t \in Ticks : RunMoves(t)
           /\ UNCHANGED runs \/ \E t \in Ticks : AppendRun(t)
<1>1. now \in Nat /\ ProcessAssumption /\ DOMAIN pc = Ticks \cup Clients
  BY ProcessAssumption DEF TypeOK, StoreTypeOK, PcTypeOK
<1>2. CASE UNCHANGED vars \/ Quiet
  BY <1>1, <1>2 DEF vars, Quiet, RunMoves
<1>3. ASSUME NEW t \in Ticks, TickStep(t)
      PROVE  now' = now /\ (UNCHANGED runs \/ AppendRun(t))
  BY <1>3 DEF TickStep, RunStep, StartTick, EvictList, EvictRead, EvictWrite, ListDue, Defer,
     SkipCooldown, Reserve, EndTick, ClaimRead, ClaimLost, ClaimWrite, Verified,
     Recorded, Finish, ErrorRead, ErrorWrite, Throw, Abort, AppendRun
<1>4. CASE \E t \in Ticks : TickStep(t)
  BY <1>1, <1>3, <1>4, OtherMoves, OwnMove
<1>5. ASSUME NEW c \in Clients, ClientStep(c)
      PROVE  UNCHANGED <<now, tick, runs>> /\ \A t \in Ticks : pc'[t] = pc[t]
  BY <1>1, <1>5 DEF ClientStep, RegisterCheck, DeleteRead, RegisterPut, RegisterRead,
     RegisterWrite, DeleteWrite, ClientCrash, Goto, ProcessAssumption
<1>6. CASE \E c \in Clients : ClientStep(c)
  BY <1>1, <1>5, <1>6 DEF RunMoves
<1>7. CASE \E h \in Hosts : OnDemandVerify(h)
  BY <1>1, <1>7 DEF OnDemandVerify, RunMoves
<1>8. CASE CrashScheduler
  BY <1>1, <1>8 DEF CrashScheduler, RunMoves, NoTick
<1>9. CASE Advance
  BY <1>1, <1>9 DEF Advance, RunMoves
<1>10. QED
  BY <1>2, <1>4, <1>6, <1>7, <1>8, <1>9 DEF Next

LEMMA DueStep ==
    ASSUME TypeOK, TypeOK', DueInTime, [Next]_vars PROVE DueInTime'
<1> SUFFICES ASSUME NEW t \in Ticks
             PROVE  /\ pc'[t] = "idle" => tick'[t].queue = {}
                    /\ pc'[t] # "idle" => tick'[t].at <= now'
                    /\ \A q \in tick'[t].queue : q[2].due <= tick'[t].at
                    /\ pc'[t] \in Handling => tick'[t].cur[2].due <= tick'[t].at
  BY DEF DueInTime
<1>1. /\ now \in Nat /\ now' \in Nat /\ now <= now' /\ tick[t].at \in Nat
      /\ RunMoves(t)
  BY EveryMove DEF TypeOK, StoreTypeOK, TickTypeOK, TickRec
<1>2. /\ pc[t] = "idle" => tick[t].queue = {}
      /\ pc[t] # "idle" => tick[t].at <= now
      /\ \A q \in tick[t].queue : q[2].due <= tick[t].at
      /\ pc[t] \in Handling => tick[t].cur[2].due <= tick[t].at
  BY DEF DueInTime
<1>3. CASE pc'[t] = pc[t] /\ tick'[t] = tick[t]
  BY <1>1, <1>2, <1>3
<1>4. CASE pc'[t] = "idle" /\ tick'[t].queue = {}
  BY <1>4 DEF Handling
<1>5. CASE /\ pc[t] = "idle" /\ pc'[t] = "evict"
           /\ tick'[t].at = now /\ tick'[t].queue = tick[t].queue
  BY <1>1, <1>2, <1>5 DEF Handling
<1>6. CASE Proceeds(t)
  BY <1>1, <1>2, <1>6 DEF Proceeds
<1>7. QED
  BY <1>1, <1>3, <1>4, <1>5, <1>6 DEF RunMoves

\* Who is in a run after a step was in it before or claims in this step.
LEMMA InRunBefore ==
    ASSUME TypeOK, [Next]_vars, NEW t \in Ticks, pc'[t] \in Claimed
    PROVE  /\ tick'[t].cur = tick[t].cur /\ tick[t].cur[1] \in Monitors
           /\ pc[t] \in Claimed \/ (ClaimWrite(t) /\ pc[t] = "claimPut" /\ chain = t)
<1>1. RunMoves(t)
  BY EveryMove
<1>2. pc'[t] # "idle" /\ pc'[t] # "evict" /\ pc'[t] # "claimGet" /\ pc'[t] \in Handling
  BY DEF Claimed, Handling
<1>3. pc[t] \in Handling /\ tick'[t].cur = tick[t].cur
  BY <1>1, <1>2 DEF RunMoves, Proceeds
<1>4. pc[t] \in Claimed \/ ClaimWrite(t)
  BY <1>1, <1>2 DEF RunMoves, Proceeds
<1>5. ClaimWrite(t) => pc[t] = "claimPut"
  BY DEF ClaimWrite, Goto
<1>6. tick[t].cur \in Item /\ (pc[t] = "claimPut" => chain = t)
  BY <1>3 DEF TypeOK, HoldsOK
<1>7. QED
  BY <1>3, <1>4, <1>5, <1>6 DEF Item

\* A monitor that was exposed stays so while somebody is in a run of it.
LEMMA StaysExposed ==
    ASSUME TypeOK, [Next]_vars, Watch, NEW t \in Ticks, pc'[t] \in Claimed,
           tick[t].cur[1] \in exposed
    PROVE  tick[t].cur[1] \in exposed'
<1>1. tick'[t].cur = tick[t].cur /\ tick[t].cur[1] \in Monitors
  BY InRunBefore
<1>2. InRun(tick[t].cur[1])'
  BY <1>1 DEF InRun
<1>3. QED
  BY <1>1, <1>2 DEF Watch

LEMMA RunsApartStep ==
    ASSUME HistInv, [Next]_vars, Watch PROVE RunsApart'
<1> SUFFICES ASSUME NEW t \in Ticks, NEW u \in Ticks, pc'[t] \in Claimed, pc'[u] \in Claimed,
                    t # u, tick'[t].cur[1] = tick'[u].cur[1]
             PROVE  tick'[t].cur[1] \in exposed'
  BY DEF RunsApart
<1>1. /\ tick'[t].cur = tick[t].cur /\ tick'[u].cur = tick[u].cur
      /\ pc[t] \in Claimed \/ (pc[t] = "claimPut" /\ chain = t)
      /\ pc[u] \in Claimed \/ (pc[u] = "claimPut" /\ chain = u)
  BY InRunBefore DEF HistInv
<1>2. tick[t].cur[1] \in exposed
  BY <1>1 DEF HistInv, RunsApart, ReadsApart
<1>3. QED
  BY <1>1, <1>2, StaysExposed DEF HistInv

LEMMA ReadsApartStep ==
    ASSUME HistInv, [Next]_vars, Watch PROVE ReadsApart'
<1> SUFFICES ASSUME NEW t \in Ticks, NEW u \in Ticks, pc'[t] = "claimPut", pc'[u] \in Claimed,
                    tick'[t].cur[1] = tick'[u].cur[1]
             PROVE  tick'[t].cur[1] \in exposed'
  BY DEF ReadsApart
<1> DEFINE m == tick[t].cur[1]
<1>1. /\ tick'[u].cur = tick[u].cur /\ tick[u].cur[1] \in Monitors
      /\ pc[u] \in Claimed \/ (pc[u] = "claimPut" /\ chain = u)
  BY InRunBefore DEF HistInv
<1>2. (pc[t] = "claimPut" /\ tick'[t] = tick[t]) \/ ClaimRead(t)
  BY EveryMove DEF HistInv, RunMoves, Proceeds
<1>3. CASE pc[t] = "claimPut" /\ tick'[t] = tick[t]
  <2>1. pc[u] \in Claimed
    <3>1. chain = t
      BY <1>3 DEF HistInv, TypeOK, HoldsOK
    <3>2. t # u
      BY DEF Claimed
    <3>3. QED
      BY <1>1, <3>1, <3>2
  <2>2. tick[u].cur[1] \in exposed
    BY <1>1, <1>3, <2>1 DEF HistInv, ReadsApart
  <2>3. QED
    BY <1>1, <2>2, StaysExposed DEF HistInv
<1>4. CASE ClaimRead(t)
  <2>1. /\ UNCHANGED <<rec, now>> /\ pc[t] = "claimGet"
        /\ tick' = [tick EXCEPT ![t].held = Get(m)] /\ StillDue(t)
    BY <1>4 DEF ClaimRead, Goto
  <2>2. tick'[t].cur = tick[t].cur
    BY <2>1 DEF HistInv, TypeOK, TickTypeOK, TickRec
  <2>3. m \in Monitors
    BY <1>1, <2>2
  <2>4. rec[m] # None /\ rec[m].due = tick[t].cur[2].due
    BY <2>1 DEF StillDue, Get
  <2>5. rec[m].due <= tick[t].at /\ tick[t].at <= now
    BY <2>1, <2>4 DEF HistInv, DueInTime, Handling
  <2>6. rec[m].due \in Nat /\ tick[t].at \in Nat /\ now \in Nat
    BY <2>3, <2>4 DEF HistInv, TypeOK, StoreTypeOK, Record, TickTypeOK, TickRec
  <2>7. rec'[m] # None /\ rec'[m].due <= now'
    BY <2>1, <2>4, <2>5, <2>6
  <2>8. InRun(m)' /\ DueNow(m)'
    BY <1>1, <2>2, <2>7 DEF InRun, DueNow
  <2>9. QED
    BY <2>2, <2>3, <2>8 DEF Watch
<1>5. QED
  BY <1>2, <1>3, <1>4

LEMMA CurrentStep ==
    ASSUME HistInv, [Next]_vars, Watch PROVE HistoryCurrent'
<1> SUFFICES ASSUME NEW t \in Ticks, pc'[t] = "append", tick'[t].cur[1] \notin exposed'
             PROVE  tick'[t].hist = runs'[tick'[t].cur[1]]
  BY DEF HistoryCurrent
<1>1. pc'[t] \in Claimed
  BY DEF Claimed
<1>2. tick'[t].cur = tick[t].cur /\ tick[t].cur[1] \in Monitors
  BY <1>1, InRunBefore DEF HistInv
<1>3. tick[t].cur[1] \notin exposed
  BY <1>1, <1>2, StaysExposed DEF HistInv
<1>4. CASE pc[t] = "append" /\ tick'[t] = tick[t]
  <2>1. tick[t].hist = runs[tick[t].cur[1]]
    BY <1>3, <1>4 DEF HistInv, HistoryCurrent
  <2>2. ASSUME NEW u \in Ticks, AppendRun(u) PROVE runs'[tick[t].cur[1]] = runs[tick[t].cur[1]]
    <3>1. /\ pc[u] = "append" /\ pc' = [pc EXCEPT ![u] = "record"]
          /\ runs' = [runs EXCEPT ![tick[u].cur[1]] = Bounded(Append(tick[u].hist, tick[u].at))]
      BY <2>2 DEF AppendRun, Goto
    <3>2. u # t
      BY <3>1 DEF HistInv, TypeOK, PcTypeOK
    <3>3. tick[u].cur[1] # tick[t].cur[1]
      BY <1>3, <1>4, <3>1, <3>2 DEF HistInv, RunsApart, Claimed
    <3>4. QED
      BY <3>1, <3>3, <1>2 DEF HistInv, TypeOK, StoreTypeOK
  <2>3. runs'[tick[t].cur[1]] = runs[tick[t].cur[1]]
    BY <2>2, EveryMove DEF HistInv
  <2>4. QED
    BY <1>4, <2>1, <2>3
<1>5. CASE UNCHANGED runs /\ tick'[t].hist = runs[tick[t].cur[1]]
  BY <1>2, <1>5
<1>6. QED
  BY <1>4, <1>5, EveryMove DEF HistInv, RunMoves, Proceeds

LEMMA HistInvStep ==
    HistInv /\ [HistoryNext]_historyVars => HistInv'
<1> SUFFICES ASSUME HistInv, [HistoryNext]_historyVars PROVE HistInv'
  OBVIOUS
<1>1. CASE UNCHANGED historyVars
  <2>1. UNCHANGED vars /\ UNCHANGED exposed
    BY <1>1 DEF historyVars
  <2>2. TypeOK'
    BY <2>1, TypeStep DEF HistInv
  <2>3. UNCHANGED <<now, pc, tick, runs, exposed>>
    BY <2>1 DEF vars
  <2>4. DueInTime' /\ RunsApart' /\ ReadsApart' /\ HistoryCurrent'
    BY <2>3 DEF HistInv, DueInTime, RunsApart, ReadsApart, HistoryCurrent
  <2>5. QED
    BY <2>2, <2>4 DEF HistInv
<1>2. CASE HistoryNext
  <2>1. TypeOK'
    BY <1>2, TypeStep DEF HistInv, HistoryNext
  <2>2. QED
    BY <1>2, <2>1, DueStep, RunsApartStep, ReadsApartStep, CurrentStep DEF HistInv, HistoryNext
<1>3. QED
  BY <1>1, <1>2

\* A step from "append" to "record" is appendRun's write.
LEMMA AppendsAppend ==
    ASSUME TypeOK, [Next]_vars, NEW t \in Ticks, Appends(t) PROVE AppendRun(t)
<1>1. DOMAIN pc = Ticks \cup Clients /\ pc[t] = "append" /\ pc'[t] = "record"
  BY DEF TypeOK, PcTypeOK, Appends
<1>2. ~(UNCHANGED vars) /\ ~Quiet /\ ~Advance /\ ~CrashScheduler
  BY <1>1 DEF vars, Quiet, Advance, CrashScheduler
<1>3. ASSUME NEW h \in Hosts, OnDemandVerify(h) PROVE FALSE
  BY <1>1, <1>3 DEF OnDemandVerify
<1>4. ASSUME NEW c \in Clients, ClientStep(c) PROVE FALSE
  BY <1>1, <1>4, ProcessAssumption DEF ClientStep, RegisterCheck, DeleteRead, RegisterPut,
     RegisterRead, RegisterWrite, DeleteWrite, ClientCrash, Goto
<1>5. ASSUME NEW u \in Ticks, TickStep(u) PROVE AppendRun(t)
  <2>1. u = t
    BY <1>1, <1>5 DEF TickStep, RunStep, StartTick, EvictList, EvictRead, EvictWrite, ListDue,
       Defer, SkipCooldown, Reserve, EndTick, ClaimRead, ClaimLost, ClaimWrite, Verified,
       AppendRun, Recorded, Finish, ErrorRead, ErrorWrite, Throw, Abort, Goto
  <2>2. QED
    BY <1>1, <1>5, <2>1 DEF TickStep, RunStep, StartTick, EvictList, EvictRead, EvictWrite,
       ListDue, Defer, SkipCooldown, Reserve, EndTick, ClaimRead, ClaimLost, ClaimWrite,
       Verified, Recorded, Finish, ErrorRead, ErrorWrite, Throw, Abort, Goto
<1>6. QED
  BY <1>2, <1>3, <1>4, <1>5 DEF Next

\* The history of a monitor is a log, for every number of monitors, ticks and clients, however
\* long a tick takes and whatever is registered, thrown or crashed meanwhile: appendRun, though
\* it reads the history and writes it back without a lock, adds its run and loses none but the
\* oldest beyond the cap, unless the monitor fell due again while a run of it lasted.
THEOREM HistoryIsALog == HistorySpec => HistoryLosesNoRun
<1> DEFINE Grows ==
       \A m \in Monitors \ exposed :
         LET appending == {t \in Ticks : Appends(t) /\ tick[t].cur[1] = m}
         IN  /\ runs'[m] # runs[m] => appending # {}
             /\ \A t \in appending :
                   runs'[m] = Bounded(Append(runs[m], tick[t].at))
<1>1. HistoryInit => HistInv
  <2> SUFFICES ASSUME HistoryInit PROVE HistInv
    OBVIOUS
  <2>1. TypeOK
    BY TypeInit DEF HistoryInit
  <2>2. \A t \in Ticks : pc[t] = "idle" /\ tick[t].queue = {}
    BY DEF HistoryInit, Init, NoTick
  <2>3. QED
    BY <2>1, <2>2 DEF HistInv, DueInTime, RunsApart, ReadsApart, HistoryCurrent, Handling, Claimed
<1>2. HistInv /\ [HistoryNext]_historyVars => HistInv'
  BY HistInvStep
<1>3. HistInv /\ [HistoryNext]_historyVars => [Grows]_historyVars
  <2> SUFFICES ASSUME HistInv, Next, NEW m \in Monitors \ exposed
               PROVE  LET appending == {t \in Ticks : Appends(t) /\ tick[t].cur[1] = m}
                      IN  /\ runs'[m] # runs[m] => appending # {}
                          /\ \A t \in appending :
                                runs'[m] = Bounded(Append(runs[m], tick[t].at))
    BY DEF HistoryNext
  <2>1. ASSUME NEW t \in Ticks, AppendRun(t)
        PROVE  /\ Appends(t)
               /\ runs' = [runs EXCEPT ![tick[t].cur[1]] = Bounded(Append(tick[t].hist, tick[t].at))]
               /\ \A u \in Ticks : Appends(u) => u = t
    BY <2>1 DEF AppendRun, Goto, Appends, HistInv, TypeOK, PcTypeOK
  <2>2. ASSUME runs'[m] # runs[m] PROVE \E t \in Ticks : Appends(t) /\ tick[t].cur[1] = m
    <3>1. PICK t \in Ticks : AppendRun(t)
      BY <2>2, EveryMove DEF HistInv
    <3>2. tick[t].cur[1] = m
      BY <2>1, <2>2, <3>1 DEF HistInv, TypeOK, StoreTypeOK
    <3>3. QED
      BY <2>1, <3>1, <3>2
  <2>3. ASSUME NEW t \in Ticks, Appends(t), tick[t].cur[1] = m
        PROVE  runs'[m] = Bounded(Append(runs[m], tick[t].at))
    <3>1. AppendRun(t)
      BY <2>3, AppendsAppend DEF HistInv
    <3>2. tick[t].hist = runs[m]
      BY <2>3 DEF HistInv, HistoryCurrent, Appends
    <3>3. runs' = [runs EXCEPT ![m] = Bounded(Append(runs[m], tick[t].at))]
      BY <2>1, <2>3, <3>1, <3>2
    <3>4. QED
      BY <3>3 DEF HistInv, TypeOK, StoreTypeOK
  <2>4. QED
    BY <2>2, <2>3
<1>4. QED
  BY <1>1, <1>2, <1>3, PTL DEF HistorySpec, HistoryLosesNoRun

(***************************************************************************)
(* CapNeverStarves.  A monitor that was claimed past a waiting one has a   *)
(* slot in the future, so that every entry for it in a queue is out of     *)
(* date; and a tick that lists it again lists the waiting one as well, in  *)
(* front of it.                                                            *)
(***************************************************************************)

\* A queued item whose slot is still the stored one.
Valid(q) == rec[q[1]] # None /\ rec[q[1]].due = q[2].due

\* What a tick has not yet decided on: its queue and the item it is about to claim, or
\* about to force forward.
Undecided == {"claimGet", "claimPut", "errGet", "errPut"}
Todo(t)   == tick[t].queue \cup (IF pc[t] \in Undecided THEN {tick[t].cur} ELSE {})

OnlyListedWait == \A x \in Monitors \ index : passed[x] = {}

PassedAreLater ==
    \A x \in Monitors : \A m \in passed[x] :
       /\ rec[m] # None /\ rec[x] # None
       /\ rec[x].due < rec[m].due /\ rec[x].due <= now

MostOverdueFirst ==
    \A t \in Ticks : pc[t] \in Handling =>
       \A e \in tick[t].queue : tick[t].cur[2].due <= e[2].due

\* Whoever is about to claim a monitor once more is about to handle the one it was claimed past.
QueuedWith(t) ==
    \A q \in Todo(t), x \in Listed :
       q[1] \in passed[x] /\ Valid(q) => \E e \in Todo(t) : e[1] = x /\ Valid(e)

PassedAreQueued == \A t \in Ticks : QueuedWith(t)

ClaimPassesNobody ==
    \A t \in Ticks : pc[t] = "claimPut" => \A x \in Listed : tick[t].cur[1] \notin passed[x]

RunPassesNobody ==
    \A t \in Ticks : pc[t] \in Claimed /\ Valid(tick[t].cur) =>
       \A x \in Monitors : tick[t].cur[1] \notin passed[x]

CapInv ==
    /\ OnlyListedWait /\ PassedAreLater /\ MostOverdueFirst /\ PassedAreQueued
    /\ ClaimPassesNobody /\ RunPassesNobody

LEMMA TodoTimes ==
    ASSUME ClaimInv, NEW t \in Ticks, NEW q \in Todo(t)
    PROVE  /\ q \in Item /\ q[1] \in Monitors /\ q[2].due \in Nat
           /\ q[2].due <= tick[t].at /\ q[2].due <= now
<1>1. /\ tick[t].at \in Nat /\ now \in Nat
      /\ pc[t] # "idle" => tick[t].at <= now
      /\ pc[t] \in Handling => tick[t].cur \in Item /\ tick[t].cur[2].due <= tick[t].at
  BY TickTimes
<1>2. /\ pc[t] = "idle" => tick[t].queue = {}
      /\ \A e \in tick[t].queue : e \in Item /\ e[2].due <= tick[t].at
  BY DEF ClaimInv, TypeOK, TickTypeOK, TickRec, TicksTimely
<1>3. pc[t] # "idle" /\ q \in Item /\ q[2].due <= tick[t].at
  BY <1>1, <1>2 DEF Todo, Undecided, Handling
<1>4. q[1] \in Monitors /\ q[2].due \in Nat
  BY <1>3 DEF Item, Record
<1>5. QED
  BY <1>1, <1>3, <1>4

\* What a step owes to the queue of a tick: nobody is newly claimed past an undecided item,
\* and who waits stays undecided, unless all are dropped.
KeepsTodo(t) ==
    /\ \A q \in Todo(t)', x \in Monitors :
          q[1] \in passed'[x] /\ Valid(q)' => q \in Todo(t) /\ q[1] \in passed[x] /\ Valid(q)
    /\ \/ Todo(t)' = {}
       \/ \A e \in Todo(t) : passed'[e[1]] # {} /\ Valid(e) => e \in Todo(t)' /\ Valid(e)'

LEMMA QueuedStep ==
    ASSUME TypeOK', OnlyListedWait, PassedAreLater, NEW t \in Ticks, QueuedWith(t), KeepsTodo(t)
    PROVE  QueuedWith(t)'
<1> SUFFICES ASSUME NEW q \in Todo(t)', NEW x \in Listed', q[1] \in passed'[x], Valid(q)'
             PROVE  \E e \in Todo(t)' : e[1] = x /\ Valid(e)'
  BY DEF QueuedWith
<1>1. x \in Monitors
  BY DEF Listed, TypeOK, StoreTypeOK
<1>2. q \in Todo(t) /\ q[1] \in passed[x] /\ Valid(q)
  BY <1>1 DEF KeepsTodo
<1>3. x \in Listed
  BY <1>1, <1>2 DEF OnlyListedWait, PassedAreLater, Listed
<1>4. PICK e \in Todo(t) : e[1] = x /\ Valid(e)
  BY <1>2, <1>3 DEF QueuedWith
<1>5. e \in Todo(t)' /\ Valid(e)'
  BY <1>4 DEF KeepsTodo
<1>6. QED
  BY <1>4, <1>5

\* The moves of a tick that write no record, and what becomes of its undecided items.
Moves(t) ==
    \/ /\ pc[t] \notin Undecided /\ pc'[t] \notin Undecided
       /\ tick'[t].queue = tick[t].queue
    \/ /\ pc[t] \in Undecided /\ pc'[t] \in Undecided
       /\ tick'[t].queue = tick[t].queue /\ tick'[t].cur = tick[t].cur
    \/ pc'[t] \notin Undecided /\ tick'[t].queue = {}
    \/ /\ pc[t] \in Claimed /\ pc'[t] = "errGet"
       /\ tick'[t].queue = tick[t].queue /\ tick'[t].cur = tick[t].cur
    \/ /\ pc[t] \in Undecided /\ pc'[t] = "next" /\ ~StillDue(t)
       /\ tick'[t].queue = tick[t].queue
    \/ /\ pc[t] = "next" /\ pc'[t] = "next"
       /\ \E q \in tick[t].queue : tick'[t].queue = tick[t].queue \ {q} /\ passed'[q[1]] = {}

LEMMA MovesKeepTodo ==
    ASSUME ClaimInv, CapInv, UNCHANGED rec,
           \A x \in Monitors : passed'[x] \subseteq passed[x],
           NEW t \in Ticks, Moves(t)
    PROVE  KeepsTodo(t)
<1>1. \A q : Valid(q)' <=> Valid(q)
  BY DEF Valid
<1>2. CASE Todo(t)' = Todo(t)
  BY <1>1, <1>2 DEF KeepsTodo
<1>3. CASE pc[t] \notin Undecided /\ pc'[t] \notin Undecided /\ tick'[t].queue = tick[t].queue
  BY <1>2, <1>3 DEF Todo
<1>4. CASE /\ pc[t] \in Undecided /\ pc'[t] \in Undecided
           /\ tick'[t].queue = tick[t].queue /\ tick'[t].cur = tick[t].cur
  BY <1>2, <1>4 DEF Todo
<1>5. CASE pc'[t] \notin Undecided /\ tick'[t].queue = {}
  <2>1. Todo(t)' = {}
    BY <1>5 DEF Todo
  <2>2. QED
    BY <2>1 DEF KeepsTodo
<1>6. CASE /\ pc[t] \in Claimed /\ pc'[t] = "errGet"
           /\ tick'[t].queue = tick[t].queue /\ tick'[t].cur = tick[t].cur
  <2>1. Todo(t) = tick[t].queue /\ Todo(t)' = tick[t].queue \cup {tick[t].cur}
    BY <1>6 DEF Todo, Undecided, Claimed
  <2>2. Valid(tick[t].cur) => \A x \in Monitors : tick[t].cur[1] \notin passed[x]
    BY <1>6 DEF CapInv, RunPassesNobody
  <2>3. QED
    BY <1>1, <2>1, <2>2 DEF KeepsTodo
<1>7. CASE /\ pc[t] \in Undecided /\ pc'[t] = "next" /\ ~StillDue(t)
           /\ tick'[t].queue = tick[t].queue
  <2>1. Todo(t) = tick[t].queue \cup {tick[t].cur} /\ Todo(t)' = tick[t].queue
    BY <1>7 DEF Todo, Undecided
  <2>2. tick[t].cur[1] \in Monitors
    BY <1>7, TickTimes DEF Undecided, Handling
  <2>3. ~Valid(tick[t].cur) \/ passed[tick[t].cur[1]] = {}
    BY <1>7, <2>2 DEF StillDue, Get, Valid, CapInv, OnlyListedWait
  <2>4. ~Valid(tick[t].cur) \/ passed'[tick[t].cur[1]] = {}
    BY <2>2, <2>3
  <2>5. QED
    BY <1>1, <2>1, <2>4 DEF KeepsTodo
<1>8. CASE /\ pc[t] = "next" /\ pc'[t] = "next"
           /\ \E q \in tick[t].queue : tick'[t].queue = tick[t].queue \ {q} /\ passed'[q[1]] = {}
  <2>1. PICK q \in tick[t].queue : tick'[t].queue = tick[t].queue \ {q} /\ passed'[q[1]] = {}
    BY <1>8
  <2>2. Todo(t) = tick[t].queue /\ Todo(t)' = tick[t].queue \ {q}
    BY <1>8, <2>1 DEF Todo, Undecided
  <2>3. QED
    BY <1>1, <2>1, <2>2 DEF KeepsTodo
<1>9. QED
  BY <1>3, <1>4, <1>5, <1>6, <1>7, <1>8 DEF Moves

\* A step that writes no record and claims nothing.
KeepsPassed ==
    /\ UNCHANGED rec /\ now <= now'
    /\ \A x \in Monitors : /\ passed'[x] \subseteq passed[x]
                           /\ x \notin index' => passed'[x] = {}
    /\ \A t \in Ticks :
          /\ pc'[t] \in Handling => /\ pc[t] \in Handling
                                    /\ tick'[t].cur = tick[t].cur
                                    /\ tick'[t].queue = tick[t].queue
          /\ pc'[t] = "claimPut" => pc[t] = "claimPut"
          /\ pc'[t] \in Claimed => pc[t] \in Claimed
          /\ Moves(t)

\* The two conjuncts that do not depend on where the ticks are.
LEMMA PassedFrame ==
    ASSUME ClaimInv, TypeOK', CapInv, UNCHANGED rec, now <= now',
           \A x \in Monitors : /\ passed'[x] \subseteq passed[x]
                               /\ x \notin index' => passed'[x] = {}
    PROVE  OnlyListedWait' /\ PassedAreLater'
<1>1. OnlyListedWait'
  BY DEF OnlyListedWait
<1>2. PassedAreLater'
  <2> SUFFICES ASSUME NEW x \in Monitors, NEW m \in passed'[x]
               PROVE  /\ rec[m] # None /\ rec[x] # None
                      /\ rec[x].due < rec[m].due /\ rec[x].due <= now'
    BY DEF PassedAreLater
  <2>1. /\ rec[m] # None /\ rec[x] # None
        /\ rec[x].due < rec[m].due /\ rec[x].due <= now
    BY DEF CapInv, PassedAreLater
  <2>2. rec[x].due \in Nat /\ now \in Nat /\ now' \in Nat
    BY <2>1 DEF ClaimInv, TypeOK, StoreTypeOK, Record
  <2>3. QED
    BY <2>1, <2>2
<1>3. QED
  BY <1>1, <1>2

LEMMA CapFrame == ASSUME ClaimInv, TypeOK', CapInv, KeepsPassed PROVE CapInv'
<1>1. /\ UNCHANGED rec /\ now <= now'
      /\ \A x \in Monitors : /\ passed'[x] \subseteq passed[x]
                             /\ x \notin index' => passed'[x] = {}
  BY DEF KeepsPassed
<1>2. OnlyListedWait' /\ PassedAreLater'
  BY <1>1, PassedFrame
<1>3. MostOverdueFirst'
  BY DEF KeepsPassed, CapInv, MostOverdueFirst
<1>4. PassedAreQueued'
  <2> SUFFICES ASSUME NEW t \in Ticks PROVE QueuedWith(t)'
    BY DEF PassedAreQueued
  <2>1. KeepsTodo(t)
    BY <1>1, MovesKeepTodo DEF KeepsPassed
  <2>2. QED
    BY <2>1, QueuedStep DEF CapInv, PassedAreQueued
<1>5. \A t \in Ticks : pc'[t] \in Handling => tick'[t].cur[1] \in Monitors
  BY TickTimes DEF KeepsPassed
<1>6. ClaimPassesNobody'
  <2> SUFFICES ASSUME NEW t \in Ticks, pc'[t] = "claimPut", NEW x \in Listed',
                      tick'[t].cur[1] \in passed'[x]
               PROVE  FALSE
    BY DEF ClaimPassesNobody
  <2>1. x \in Monitors
    BY DEF Listed, TypeOK, StoreTypeOK
  <2>2. pc[t] = "claimPut" /\ tick'[t].cur = tick[t].cur
    BY DEF KeepsPassed, Handling
  <2>3. tick[t].cur[1] \in passed[x]
    BY <1>1, <2>1, <2>2
  <2>4. x \in Listed
    BY <2>1, <2>3 DEF CapInv, OnlyListedWait, PassedAreLater, Listed
  <2>5. QED
    BY <2>2, <2>3, <2>4 DEF CapInv, ClaimPassesNobody
<1>7. RunPassesNobody'
  <2> SUFFICES ASSUME NEW t \in Ticks, pc'[t] \in Claimed, Valid(tick[t].cur)', NEW x \in Monitors
               PROVE  tick'[t].cur[1] \notin passed'[x]
    BY DEF RunPassesNobody
  <2>1. pc[t] \in Claimed /\ tick'[t].cur = tick[t].cur
    BY DEF KeepsPassed, Handling, Claimed
  <2>2. Valid(tick[t].cur)
    BY <1>1, <2>1 DEF Valid
  <2>3. QED
    BY <1>1, <2>1, <2>2 DEF CapInv, RunPassesNobody
<1>8. QED
  BY <1>2, <1>3, <1>4, <1>6, <1>7 DEF CapInv

\* A step that changes what is listed, or skips an item, forgets who waits no more.
LEMMA Forgets ==
    ASSUME TypeOK, OnlyListedWait,
           \/ ForgetPassed(index')
           \/ index' = index /\ passed' = passed
           \/ index' = index /\ \E K \in SUBSET Monitors : ForgetPassed(K)
    PROVE  \A x \in Monitors : /\ passed'[x] \subseteq passed[x]
                               /\ x \notin index' => passed'[x] = {}
  BY DEF ForgetPassed, OnlyListedWait, TypeOK, HistoryTypeOK

LEMMA KeepsPassedStep ==
    ASSUME ClaimInv, CapInv,
           \/ \E c \in Clients, m \in Monitors, i \in Intervals : RegisterCheck(c, m, i)
           \/ \E c \in Clients, m \in Monitors : DeleteRead(c, m)
           \/ \E c \in Clients : \/ RegisterRead(c) \/ RegisterWrite(c) \/ DeleteWrite(c)
                               \/ ClientCrash(c)
           \/ \E h \in Hosts : OnDemandVerify(h)
           \/ \E t \in Ticks :
                 \/ StartTick(t) \/ EvictList(t) \/ EvictRead(t) \/ EvictWrite(t)
                 \/ Defer(t) \/ SkipCooldown(t) \/ EndTick(t)
                 \/ ClaimLost(t) \/ Verified(t) \/ AppendRun(t) \/ Recorded(t)
                 \/ ErrorRead(t) \/ Throw(t) \/ Abort(t)
           \/ CrashScheduler \/ Advance
           \/ UNCHANGED vars
    PROVE  KeepsPassed
<1>0. TypeOK /\ OnlyListedWait /\ now \in Nat /\ index \in SUBSET Monitors
  BY DEF ClaimInv, TypeOK, StoreTypeOK, CapInv
<1> DEFINE Fits(t) == /\ pc'[t] \in Handling => /\ pc[t] \in Handling
                                                /\ tick'[t].cur = tick[t].cur
                                                /\ tick'[t].queue = tick[t].queue
                      /\ pc'[t] = "claimPut" => pc[t] = "claimPut"
                      /\ pc'[t] \in Claimed => pc[t] \in Claimed
                      /\ Moves(t)
           Forget == \A x \in Monitors : /\ passed'[x] \subseteq passed[x]
                                         /\ x \notin index' => passed'[x] = {}
<1>1. ASSUME NEW t \in Ticks, pc'[t] = pc[t], tick'[t] = tick[t] PROVE Fits(t)
  BY <1>1 DEF Moves
<1>2. ASSUME NEW t \in Ticks, pc'[t] = "idle", tick'[t].queue = {} PROVE Fits(t)
  BY <1>2 DEF Moves, Undecided, Handling, Claimed
<1>3. ASSUME UNCHANGED rec, now <= now', Forget, \A t \in Ticks : Fits(t) PROVE KeepsPassed
  BY <1>3 DEF KeepsPassed
<1> USE ProcessAssumption DEF Goto, bounds, history
<1>4. ASSUME NEW c \in Clients,
             \/ RegisterRead(c) \/ RegisterWrite(c) \/ DeleteWrite(c) \/ ClientCrash(c)
             \/ \E m \in Monitors : DeleteRead(c, m)
             \/ \E m \in Monitors, i \in Intervals : RegisterCheck(c, m, i)
      PROVE  KeepsPassed
  <2>1. UNCHANGED <<rec, now, tick>> /\ \A t \in Ticks : pc'[t] = pc[t]
    BY <1>0, <1>4 DEF RegisterRead, RegisterWrite, DeleteWrite, ClientCrash, DeleteRead,
                      RegisterCheck, TypeOK, PcTypeOK
  <2>2. ForgetPassed(index') \/ (index' = index /\ passed' = passed)
    BY <1>4 DEF RegisterRead, RegisterWrite, DeleteWrite, ClientCrash, DeleteRead, RegisterCheck
  <2>3. Forget
    BY <1>0, <2>2, Forgets
  <2> HIDE DEF Fits, Forget
  <2>4. QED
    BY <1>0, <1>1, <1>3, <2>1, <2>3
<1>5. CASE UNCHANGED vars \/ Advance \/ \E h \in Hosts : OnDemandVerify(h)
  <2>1. UNCHANGED <<rec, tick, pc, index, passed>> /\ now <= now'
    BY <1>0, <1>5 DEF vars, Advance, OnDemandVerify
  <2>2. Forget
    BY <1>0, <2>1, Forgets
  <2> HIDE DEF Fits, Forget
  <2>3. QED
    BY <1>1, <1>3, <2>1, <2>2
<1>6. CASE CrashScheduler
  <2>1. UNCHANGED <<rec, index, passed, now>> /\ \A t \in Ticks : pc'[t] = "idle" /\ tick'[t].queue = {}
    BY <1>6 DEF CrashScheduler, NoTick
  <2>2. Forget
    BY <1>0, <2>1, Forgets
  <2> HIDE DEF Fits, Forget
  <2>3. QED
    BY <1>0, <1>2, <1>3, <2>1, <2>2
<1>7. ASSUME NEW t \in Ticks,
             \/ StartTick(t) \/ EvictList(t) \/ EvictRead(t) \/ EvictWrite(t)
             \/ Defer(t) \/ SkipCooldown(t) \/ EndTick(t)
             \/ ClaimLost(t) \/ Verified(t) \/ AppendRun(t) \/ Recorded(t)
             \/ ErrorRead(t) \/ Throw(t) \/ Abort(t)
      PROVE  KeepsPassed
  <2> USE <1>0 DEF TypeOK, PcTypeOK, TickTypeOK, TickRec
  <2>1. UNCHANGED <<rec, now>>
    BY <1>7 DEF StartTick, EvictList, EvictRead, EvictWrite, Defer, SkipCooldown, EndTick,
                ClaimLost, Verified, AppendRun, Recorded, ErrorRead, Throw, Abort
  <2>2. \A u \in Ticks \ {t} : pc'[u] = pc[u] /\ tick'[u] = tick[u]
    BY <1>7 DEF StartTick, EvictList, EvictRead, EvictWrite, Defer, SkipCooldown, EndTick,
                ClaimLost, Verified, AppendRun, Recorded, ErrorRead, Throw, Abort, Release
  <2>3. Forget
    <3>1. CASE EvictWrite(t)
      BY <3>1, Forgets DEF EvictWrite
    <3>2. CASE SkipCooldown(t)
      <4>1. index' = index /\ \E K \in SUBSET Monitors : ForgetPassed(K)
        BY <3>2 DEF SkipCooldown
      <4>2. QED
        BY <4>1, Forgets
    <3>3. CASE ~EvictWrite(t) /\ ~SkipCooldown(t)
      <4>1. index' = index /\ passed' = passed
        BY <1>7, <3>3 DEF StartTick, EvictList, EvictRead, Defer, EndTick,
                ClaimLost, Verified, AppendRun, Recorded, ErrorRead, Throw, Abort
      <4>2. QED
        BY <4>1, Forgets
    <3>4. QED
      BY <3>1, <3>2, <3>3
  <2>4. Fits(t)
    <3> USE DEF Moves, Undecided, Handling, Claimed
    <3>1. CASE StartTick(t)
      BY <3>1 DEF StartTick
    <3>2. CASE EvictList(t)
      BY <3>2 DEF EvictList
    <3>3. CASE EvictRead(t)
      BY <3>3 DEF EvictRead
    <3>4. CASE EvictWrite(t)
      BY <3>4 DEF EvictWrite
    <3>5. CASE Defer(t)
      BY <3>5 DEF Defer
    <3>6. CASE SkipCooldown(t)
      <4>1. PICK q \in MostOverdue(t) :
               /\ tick' = [tick EXCEPT ![t].queue = tick[t].queue \ {q}]
               /\ ForgetPassed(Monitors \ {q[1]})
        BY <3>6 DEF SkipCooldown
      <4>2. q \in tick[t].queue /\ q[1] \in Monitors
        BY <4>1 DEF MostOverdue, Item
      <4>3. tick'[t].queue = tick[t].queue \ {q} /\ passed'[q[1]] = {}
        BY <4>1, <4>2 DEF ForgetPassed
      <4>4. pc[t] = "next" /\ pc' = pc
        BY <3>6 DEF SkipCooldown
      <4>5. QED
        BY <4>2, <4>3, <4>4
    <3>7. CASE EndTick(t) \/ Abort(t)
      <4>1. pc'[t] = "idle" /\ tick'[t].queue = {}
        BY <3>7 DEF EndTick, Abort, NoTick
      <4>2. QED
        BY <4>1
    <3>8. CASE ClaimLost(t)
      <4>1. /\ pc[t] = "claimGet" /\ pc'[t] = "next" /\ ~StillDue(t) /\ Release(t)
        BY <3>8 DEF ClaimLost
      <4>2. tick'[t].queue = tick[t].queue
        BY <4>1 DEF Release
      <4>3. QED
        BY <4>1, <4>2
    <3>9. CASE Verified(t)
      BY <3>9 DEF Verified
    <3>10. CASE AppendRun(t)
      BY <3>10 DEF AppendRun
    <3>11. CASE Recorded(t)
      BY <3>11 DEF Recorded
    <3>12. CASE ErrorRead(t)
      <4>1. CASE StillDue(t)
        BY <3>12, <4>1 DEF ErrorRead
      <4>2. CASE ~StillDue(t)
        <5>1. pc[t] = "errGet" /\ pc'[t] = "next" /\ Release(t)
          BY <3>12, <4>2 DEF ErrorRead
        <5>2. tick'[t].queue = tick[t].queue
          BY <5>1 DEF Release
        <5>3. QED
          BY <4>2, <5>1, <5>2
      <4>3. QED
        BY <4>1, <4>2
    <3>13. CASE Throw(t)
      BY <3>13 DEF Throw
    <3>14. QED
      BY <1>7, <3>1, <3>2, <3>3, <3>4, <3>5, <3>6, <3>7, <3>8, <3>9, <3>10, <3>11, <3>12, <3>13
  <2> HIDE DEF Fits, Forget
  <2>5. \A u \in Ticks : Fits(u)
    BY <1>1, <2>2, <2>4
  <2>6. QED
    BY <1>3, <2>1, <2>3, <2>5
<1> HIDE DEF Fits, Forget, Goto, bounds, history
<1>8. CASE \/ \E c \in Clients, m \in Monitors, i \in Intervals : RegisterCheck(c, m, i)
           \/ \E c \in Clients, m \in Monitors : DeleteRead(c, m)
           \/ \E c \in Clients : \/ RegisterRead(c) \/ RegisterWrite(c) \/ DeleteWrite(c)
                               \/ ClientCrash(c)
  BY <1>4, <1>8
<1>9. CASE \E t \in Ticks :
                 \/ StartTick(t) \/ EvictList(t) \/ EvictRead(t) \/ EvictWrite(t)
                 \/ Defer(t) \/ SkipCooldown(t) \/ EndTick(t)
                 \/ ClaimLost(t) \/ Verified(t) \/ AppendRun(t) \/ Recorded(t)
                 \/ ErrorRead(t) \/ Throw(t) \/ Abort(t)
  BY <1>7, <1>9
<1>10. QED
  BY <1>5, <1>6, <1>8, <1>9

\* Listing: who was passed and still waits is due before the one claimed past it, so whoever
\* lists the one lists the other.
LEMMA ListKeepsCap ==
    ASSUME ClaimInv, TypeOK', CapInv, NEW t \in Ticks, ListDue(t)
    PROVE  CapInv'
<1>1. /\ UNCHANGED <<rec, now, index, passed>>
      /\ pc[t] = "evictRead" /\ pc' = [pc EXCEPT ![t] = "next"]
      /\ tick' = [tick EXCEPT ![t].queue =
                    {<<m, rec[m]>> : m \in {x \in Listed : rec[x].due <= tick[t].at}}]
  BY DEF ListDue, Goto, history
<1>2. /\ pc'[t] = "next" /\ \A u \in Ticks \ {t} : pc'[u] = pc[u] /\ tick'[u] = tick[u]
      /\ tick'[t].queue = {<<m, rec[m]>> : m \in {x \in Listed : rec[x].due <= tick[t].at}}
  BY <1>1 DEF ClaimInv, TypeOK, PcTypeOK, TickTypeOK, TickRec
<1>3. now \in Nat /\ now <= now' /\ Listed' = Listed /\ \A q : Valid(q)' <=> Valid(q)
  BY <1>1 DEF ClaimInv, TypeOK, StoreTypeOK, Listed, Valid
<1>4. \A x \in Monitors : passed'[x] \subseteq passed[x] /\ (x \notin index' => passed'[x] = {})
  BY <1>1 DEF CapInv, OnlyListedWait
<1>5. OnlyListedWait' /\ PassedAreLater'
  BY <1>1, <1>3, <1>4, PassedFrame
<1>6. MostOverdueFirst' /\ ClaimPassesNobody' /\ RunPassesNobody'
  BY <1>1, <1>2, <1>3
     DEF CapInv, MostOverdueFirst, ClaimPassesNobody, RunPassesNobody, Handling, Claimed, Valid
<1>7. PassedAreQueued'
  <2> SUFFICES ASSUME NEW u \in Ticks PROVE QueuedWith(u)'
    BY DEF PassedAreQueued
  <2>1. CASE u # t
    <3>1. Moves(u)
      BY <1>2, <2>1 DEF Moves
    <3>2. KeepsTodo(u)
      BY <1>1, <1>4, <3>1, MovesKeepTodo
    <3>3. QED
      BY <3>2, QueuedStep DEF CapInv, PassedAreQueued
  <2>2. CASE u = t
    <3>1. Todo(t)' = tick'[t].queue
      BY <1>2 DEF Todo, Undecided
    <3>2. SUFFICES ASSUME NEW q \in tick'[t].queue, NEW x \in Listed, q[1] \in passed[x]
                   PROVE  \E e \in tick'[t].queue : e[1] = x /\ Valid(e)
      BY <1>1, <1>3, <2>2, <3>1 DEF QueuedWith
    <3>3. x \in Monitors /\ rec[x] # None
      BY DEF Listed, ClaimInv, TypeOK, StoreTypeOK
    <3>4. PICK m \in Listed : q = <<m, rec[m]>> /\ rec[m].due <= tick[t].at
      BY <1>2
    <3>5. rec[x].due < rec[m].due
      BY <3>2, <3>3, <3>4 DEF CapInv, PassedAreLater
    <3>6. m \in Monitors /\ rec[m] # None
      BY <3>4 DEF Listed, ClaimInv, TypeOK, StoreTypeOK
    <3>7. rec[x].due \in Nat /\ rec[m].due \in Nat /\ tick[t].at \in Nat
      BY <3>3, <3>6 DEF ClaimInv, TypeOK, StoreTypeOK, Record, TickTypeOK, TickRec
    <3>8. rec[x].due <= tick[t].at
      BY <3>4, <3>5, <3>7
    <3>9. <<x, rec[x]>> \in tick'[t].queue
      BY <1>2, <3>2, <3>8
    <3>10. Valid(<<x, rec[x]>>)
      BY <3>3 DEF Valid
    <3>11. QED
      BY <3>9, <3>10
  <2>3. QED
    BY <2>1, <2>2
<1>8. QED
  BY <1>5, <1>6, <1>7 DEF CapInv

\* Taking the next item: the most overdue one of the queue.
LEMMA ReserveKeepsCap ==
    ASSUME ClaimInv, TypeOK', CapInv, NEW t \in Ticks, Reserve(t)
    PROVE  CapInv'
<1>1. PICK q \in MostOverdue(t) :
         tick' = [tick EXCEPT ![t].cur = q, ![t].queue = tick[t].queue \ {q}]
  BY DEF Reserve
<1>2. /\ UNCHANGED <<rec, now, index, passed>>
      /\ pc[t] = "next" /\ pc' = [pc EXCEPT ![t] = "claimGet"]
  BY DEF Reserve, Goto, history
<1>3. /\ pc'[t] = "claimGet" /\ \A u \in Ticks \ {t} : pc'[u] = pc[u] /\ tick'[u] = tick[u]
      /\ tick'[t].queue = tick[t].queue \ {q} /\ tick'[t].cur = q
  BY <1>1, <1>2 DEF ClaimInv, TypeOK, PcTypeOK, TickTypeOK, TickRec
<1>4. q \in tick[t].queue /\ \A o \in tick[t].queue : q[2].due <= o[2].due
  BY DEF MostOverdue
<1>5. now \in Nat /\ now <= now' /\ Listed' = Listed /\ \A e : Valid(e)' <=> Valid(e)
  BY <1>2 DEF ClaimInv, TypeOK, StoreTypeOK, Listed, Valid
<1>6. \A x \in Monitors : passed'[x] \subseteq passed[x] /\ (x \notin index' => passed'[x] = {})
  BY <1>2 DEF CapInv, OnlyListedWait
<1>7. OnlyListedWait' /\ PassedAreLater'
  BY <1>2, <1>5, <1>6, PassedFrame
<1>8. MostOverdueFirst'
  BY <1>3, <1>4 DEF CapInv, MostOverdueFirst
<1>9. ClaimPassesNobody' /\ RunPassesNobody'
  BY <1>2, <1>3, <1>5 DEF CapInv, ClaimPassesNobody, RunPassesNobody, Claimed, Valid
<1>10. PassedAreQueued'
  <2> SUFFICES ASSUME NEW u \in Ticks PROVE QueuedWith(u)'
    BY DEF PassedAreQueued
  <2>1. CASE u # t
    <3>1. Moves(u)
      BY <1>3, <2>1 DEF Moves
    <3>2. KeepsTodo(u)
      BY <1>2, <1>6, <3>1, MovesKeepTodo
    <3>3. QED
      BY <3>2, QueuedStep DEF CapInv, PassedAreQueued
  <2>2. CASE u = t
    <3>1. Todo(t)' = Todo(t)
      BY <1>2, <1>3, <1>4 DEF Todo, Undecided
    <3>2. KeepsTodo(t)
      BY <1>2, <1>5, <3>1 DEF KeepsTodo
    <3>3. QED
      BY <2>2, <3>2, QueuedStep DEF CapInv, PassedAreQueued
  <2>3. QED
    BY <2>1, <2>2
<1>11. QED
  BY <1>7, <1>8, <1>9, <1>10 DEF CapInv

\* The claim's read: a waiting monitor that this one was claimed past would be an item of the
\* queue with an earlier slot.
LEMMA ReadKeepsCap ==
    ASSUME ClaimInv, TypeOK', CapInv, NEW t \in Ticks, ClaimRead(t)
    PROVE  CapInv'
<1> DEFINE m == tick[t].cur[1]
<1>1. /\ UNCHANGED <<rec, now, index, passed>>
      /\ pc[t] = "claimGet" /\ pc' = [pc EXCEPT ![t] = "claimPut"]
      /\ tick' = [tick EXCEPT ![t].held = Get(m)]
  BY DEF ClaimRead, Goto, history
<1>2. /\ pc'[t] = "claimPut" /\ \A u \in Ticks \ {t} : pc'[u] = pc[u] /\ tick'[u] = tick[u]
      /\ tick'[t].queue = tick[t].queue /\ tick'[t].cur = tick[t].cur
  BY <1>1 DEF ClaimInv, TypeOK, PcTypeOK, TickTypeOK, TickRec
<1>3. rec[m] # None /\ rec[m].due = tick[t].cur[2].due /\ m \in Monitors
  BY <1>1, TickTimes DEF ClaimRead, StillDue, Get, Handling
<1>4. now \in Nat /\ now <= now' /\ Listed' = Listed /\ \A e : Valid(e)' <=> Valid(e)
  BY <1>1 DEF ClaimInv, TypeOK, StoreTypeOK, Listed, Valid
<1>5. \A x \in Monitors : passed'[x] \subseteq passed[x] /\ (x \notin index' => passed'[x] = {})
  BY <1>1 DEF CapInv, OnlyListedWait
<1>6. OnlyListedWait' /\ PassedAreLater'
  BY <1>1, <1>4, <1>5, PassedFrame
<1>7. MostOverdueFirst'
  BY <1>1, <1>2 DEF CapInv, MostOverdueFirst, Handling
<1>8. RunPassesNobody'
  BY <1>1, <1>2, <1>4 DEF CapInv, RunPassesNobody, Claimed, Valid
<1>9. PassedAreQueued'
  <2> SUFFICES ASSUME NEW u \in Ticks PROVE QueuedWith(u)'
    BY DEF PassedAreQueued
  <2>1. Moves(u)
    BY <1>1, <1>2 DEF Moves, Undecided
  <2>2. KeepsTodo(u)
    BY <1>1, <1>5, <2>1, MovesKeepTodo
  <2>3. QED
    BY <2>2, QueuedStep DEF CapInv, PassedAreQueued
<1>10. ASSUME NEW x \in Listed, m \in passed[x] PROVE FALSE
  <2>1. x \in Monitors /\ rec[x] # None
    BY DEF Listed, ClaimInv, TypeOK, StoreTypeOK
  <2>2. rec[x].due < rec[m].due
    BY <1>10, <2>1 DEF CapInv, PassedAreLater
  <2>3. rec[x].due \in Nat /\ rec[m].due \in Nat
    BY <1>3, <2>1 DEF ClaimInv, TypeOK, StoreTypeOK, Record
  <2>4. tick[t].cur \in Todo(t) /\ Valid(tick[t].cur)
    BY <1>1, <1>3 DEF Todo, Undecided, Valid
  <2>5. PICK e \in Todo(t) : e[1] = x /\ Valid(e)
    BY <1>10, <2>4 DEF CapInv, PassedAreQueued, QueuedWith
  <2>6. e[2].due = rec[x].due
    BY <2>5 DEF Valid
  <2>7. e \in tick[t].queue
    BY <1>1, <1>3, <2>2, <2>3, <2>5, <2>6 DEF Todo, Undecided
  <2>8. tick[t].cur[2].due <= e[2].due
    BY <1>1, <2>7 DEF CapInv, MostOverdueFirst, Handling
  <2>9. QED
    BY <1>3, <2>2, <2>3, <2>6, <2>8
<1>11. ClaimPassesNobody'
  BY <1>1, <1>2, <1>4, <1>10 DEF CapInv, ClaimPassesNobody
<1>12. QED
  BY <1>6, <1>7, <1>8, <1>9, <1>11 DEF CapInv

\* What a write of a tick does to those who wait: its monitor starts a new wait, and at most
\* this monitor is newly passed, past somebody who is due.
WritePasses(t) ==
    LET m == tick[t].cur[1]
    IN  /\ passed'[m] = {}
        /\ \A x \in Monitors : \A y \in passed'[x] :
              \/ y \in passed[x]
              \/ y = m /\ pc[t] = "claimPut" /\ x \in Listed /\ rec[x].due <= tick[t].at

LEMMA WritePassesStep ==
    ASSUME ClaimInv, NEW t \in Ticks, ClaimWrite(t) \/ Finish(t) \/ ErrorWrite(t)
    PROVE  WritePasses(t)
<1>1. pc[t] \in Handling
  BY DEF ClaimWrite, Finish, ErrorWrite, Goto, Handling
<1>2. tick[t].cur[1] \in Monitors
  BY <1>1, TickTimes
<1>3. CASE ClaimWrite(t)
  <2>1. /\ pc[t] = "claimPut"
        /\ passed' = [x \in Monitors |->
                         IF x = tick[t].cur[1] THEN {}
                         ELSE IF x \in Listed /\ rec[x].due <= tick[t].at
                              THEN passed[x] \cup {tick[t].cur[1]} ELSE passed[x]]
    BY <1>3 DEF ClaimWrite, Goto
  <2>2. QED
    BY <1>2, <2>1 DEF WritePasses
<1>4. CASE Finish(t) \/ ErrorWrite(t)
  <2>1. ForgetPassed(Monitors \ {tick[t].cur[1]})
    BY <1>4 DEF Finish, ErrorWrite
  <2>2. QED
    BY <1>2, <2>1 DEF WritePasses, ForgetPassed
<1>5. QED
  BY <1>3, <1>4

\* The write of the next slot, which lies in the future: every queued item of the monitor
\* written is out of date.
LEMMA WriteKeepsCap ==
    ASSUME TimelyTicks, ClaimInv, TypeOK', CapInv, NEW t \in Ticks,
           WritesNextSlot(t), WritePasses(t)
    PROVE  CapInv'
<1> DEFINE m == tick[t].cur[1]
<1>1. PICK i \in Intervals, r \in Record :
         r.due = tick[t].at + i /\ rec' = [rec EXCEPT ![m] = r]
  BY DEF WritesNextSlot
<1>2. /\ UNCHANGED <<now, index>>
      /\ \A u \in Ticks \ {t} : pc'[u] = pc[u] /\ tick'[u] = tick[u]
      /\ tick'[t].queue = tick[t].queue
      /\ \/ pc[t] = "claimPut" /\ pc'[t] = "verify" /\ tick'[t].cur = tick[t].cur
         \/ pc[t] \in {"finish", "errPut"} /\ pc'[t] = "next"
  BY DEF WritesNextSlot
<1>3. pc[t] \in Handling /\ pc[t] # "idle"
  BY <1>2 DEF Handling
<1>4. /\ m \in Monitors /\ now \in Nat /\ tick[t].at \in Nat /\ tick[t].at <= now
      /\ r # None /\ r.due \in Nat /\ now < r.due
  BY <1>1, <1>3, NoneAssumption, TickTimes, NextSlotUnclaimed DEF Record
<1>5. /\ rec'[m] = r /\ \A x \in Monitors : x # m => rec'[x] = rec[x]
  BY <1>1, <1>4 DEF ClaimInv, TypeOK, StoreTypeOK
<1>6. /\ passed'[m] = {}
      /\ \A x \in Monitors : \A y \in passed'[x] :
              \/ y \in passed[x]
              \/ y = m /\ pc[t] = "claimPut" /\ x \in Listed /\ rec[x].due <= tick[t].at
  BY DEF WritePasses
<1>7. \A x \in Monitors : passed'[x] \subseteq Monitors
  BY DEF TypeOK, HistoryTypeOK
<1>8. OnlyListedWait'
  BY <1>2, <1>6 DEF CapInv, OnlyListedWait, Listed
<1>9. PassedAreLater'
  <2> SUFFICES ASSUME NEW x \in Monitors, NEW y \in passed'[x]
               PROVE  /\ rec'[y] # None /\ rec'[x] # None
                      /\ rec'[x].due < rec'[y].due /\ rec'[x].due <= now
    BY <1>2 DEF PassedAreLater
  <2>1. x # m /\ rec'[x] = rec[x] /\ y \in Monitors
    BY <1>5, <1>6, <1>7
  <2>2. rec[x] # None /\ rec[x].due <= now
    <3>1. CASE y \in passed[x]
      BY <3>1 DEF CapInv, PassedAreLater
    <3>2. CASE x \in Listed /\ rec[x].due <= tick[t].at
      <4>1. rec[x] # None
        BY <3>2 DEF Listed
      <4>2. rec[x].due \in Nat
        BY <4>1 DEF ClaimInv, TypeOK, StoreTypeOK, Record
      <4>3. QED
        BY <1>4, <3>2, <4>1, <4>2
    <3>3. QED
      BY <1>6, <3>1, <3>2
  <2>3. rec[x].due \in Nat
    BY <2>2 DEF ClaimInv, TypeOK, StoreTypeOK, Record
  <2>4. CASE y = m
    BY <1>4, <1>5, <2>1, <2>2, <2>3, <2>4
  <2>5. CASE y # m
    BY <1>5, <1>6, <2>1, <2>2, <2>5 DEF CapInv, PassedAreLater
  <2>6. QED
    BY <2>4, <2>5
<1>10. MostOverdueFirst'
  <2>1. \A u \in Ticks : pc'[u] \in Handling =>
           pc[u] \in Handling /\ tick'[u].cur = tick[u].cur /\ tick'[u].queue = tick[u].queue
    BY <1>2 DEF Handling
  <2>2. QED
    BY <2>1 DEF CapInv, MostOverdueFirst
<1>11. \A q : q[1] \in Monitors /\ q[1] # m => (Valid(q)' <=> Valid(q))
  BY <1>5 DEF Valid
<1>12. \A q : q[1] = m /\ q[2].due \in Nat /\ q[2].due <= now => ~Valid(q)'
  BY <1>4, <1>5 DEF Valid
<1>13. PassedAreQueued'
  <2> SUFFICES ASSUME NEW u \in Ticks PROVE QueuedWith(u)'
    BY DEF PassedAreQueued
  <2>1. Todo(u)' \subseteq Todo(u) /\ \A e \in Todo(u) : e \notin Todo(u)' => e[1] = m
    BY <1>2 DEF Todo, Undecided
  <2>2. \A q \in Todo(u) : q[1] \in Monitors /\ q[2].due \in Nat /\ q[2].due <= now
    BY TodoTimes
  <2>3. ASSUME NEW q \in Todo(u)', NEW x \in Monitors, q[1] \in passed'[x], Valid(q)'
        PROVE  q \in Todo(u) /\ q[1] \in passed[x] /\ Valid(q)
    <3>1. q \in Todo(u) /\ q[1] # m
      BY <1>12, <2>1, <2>2, <2>3
    <3>2. QED
      BY <1>6, <1>11, <2>2, <2>3, <3>1
  <2>4. ASSUME NEW e \in Todo(u), passed'[e[1]] # {}, Valid(e)
        PROVE  e \in Todo(u)' /\ Valid(e)'
    BY <1>6, <1>11, <2>1, <2>2, <2>4
  <2>5. KeepsTodo(u)
    BY <2>3, <2>4 DEF KeepsTodo
  <2>6. QED
    BY <2>5, QueuedStep DEF CapInv, PassedAreQueued
<1>14. ClaimPassesNobody'
  <2> SUFFICES ASSUME NEW u \in Ticks, pc'[u] = "claimPut", NEW x \in Listed',
                      tick'[u].cur[1] \in passed'[x]
               PROVE  FALSE
    BY DEF ClaimPassesNobody
  <2>1. u # t /\ pc[u] = "claimPut" /\ tick'[u].cur = tick[u].cur
    BY <1>2
  <2>2. pc[t] # "claimPut"
    BY <2>1 DEF ClaimInv, TypeOK, HoldsOK
  <2>3. x \in Monitors
    BY DEF Listed, TypeOK, StoreTypeOK
  <2>4. tick[u].cur[1] \in passed[x]
    BY <1>6, <2>1, <2>2, <2>3
  <2>5. x \in Listed
    BY <2>3, <2>4 DEF CapInv, OnlyListedWait, PassedAreLater, Listed
  <2>6. QED
    BY <2>1, <2>4, <2>5 DEF CapInv, ClaimPassesNobody
<1>15. RunPassesNobody'
  <2> SUFFICES ASSUME NEW u \in Ticks, pc'[u] \in Claimed, Valid(tick[u].cur)', NEW x \in Monitors
               PROVE  tick'[u].cur[1] \notin passed'[x]
    BY DEF RunPassesNobody
  <2>1. /\ pc[u] \in Handling /\ pc[u] # "idle" /\ tick'[u].cur = tick[u].cur
        /\ u # t => pc[u] \in Claimed
    BY <1>2 DEF Claimed, Handling
  <2>2. /\ tick[u].cur[1] \in Monitors /\ tick[u].cur[2].due \in Nat
        /\ tick[u].cur[2].due <= tick[u].at /\ tick[u].at \in Nat /\ tick[u].at <= now
    BY <2>1, TickTimes
  <2>3. tick[u].cur[2].due <= now
    BY <1>4, <2>2
  <2>4. Valid(tick[u].cur)' => (rec'[tick[u].cur[1]] # None /\ rec'[tick[u].cur[1]].due = tick[u].cur[2].due)
    BY <2>1 DEF Valid
  <2>5. tick[u].cur[1] # m
    BY <1>4, <1>5, <2>2, <2>3, <2>4
  <2>6. u # t /\ pc[u] \in Claimed
    BY <2>1, <2>5
  <2>7. Valid(tick[u].cur)
    BY <1>5, <2>2, <2>4, <2>5 DEF Valid
  <2>8. QED
    BY <1>6, <2>1, <2>5, <2>6, <2>7 DEF CapInv, RunPassesNobody
<1>16. QED
  BY <1>8, <1>9, <1>10, <1>13, <1>14, <1>15 DEF CapInv

\* A registration starts the monitor over on both sides.
LEMMA RegistrationKeepsCap ==
    ASSUME ClaimInv, TypeOK', CapInv, NEW c \in Clients, RegisterPut(c)
    PROVE  CapInv'
<1> DEFINE k == req[c].id
<1>1. /\ UNCHANGED <<index, now, tick>> /\ rec' = [rec EXCEPT ![k] = req[c].new]
      /\ pc[c] = "regPut" /\ pc' = [pc EXCEPT ![c] = "regRead"]
      /\ passed' = [x \in Monitors |-> IF x = k THEN {} ELSE passed[x] \ {k}]
  BY DEF RegisterPut, ForgetMonitor, Goto
<1>2. k \in Monitors
  BY <1>1 DEF ClaimInv, TypeOK, HoldsOK, Requesting
<1>3. \A t \in Ticks : pc'[t] = pc[t]
  BY <1>1, ProcessAssumption DEF ClaimInv, TypeOK, PcTypeOK
<1>4. /\ \A x \in Monitors : x # k => rec'[x] = rec[x]
      /\ \A x \in Monitors : passed'[x] = IF x = k THEN {} ELSE passed[x] \ {k}
      /\ \A x \in Monitors : passed[x] \subseteq Monitors
  BY <1>1 DEF ClaimInv, TypeOK, StoreTypeOK, HistoryTypeOK
<1>5. \A q : q[1] \in Monitors /\ q[1] # k => (Valid(q)' <=> Valid(q))
  BY <1>4 DEF Valid
<1>6. OnlyListedWait'
  BY <1>1, <1>4 DEF CapInv, OnlyListedWait
<1>7. PassedAreLater'
  <2> SUFFICES ASSUME NEW x \in Monitors, NEW y \in passed'[x]
               PROVE  /\ rec'[y] # None /\ rec'[x] # None
                      /\ rec'[x].due < rec'[y].due /\ rec'[x].due <= now
    BY <1>1 DEF PassedAreLater
  <2>1. x # k
    BY <1>4
  <2>2. passed'[x] = passed[x] \ {k} /\ passed[x] \subseteq Monitors
    BY <1>4, <2>1
  <2>3. y # k /\ y \in passed[x] /\ y \in Monitors
    BY <2>2
  <2>4. QED
    BY <1>4, <2>1, <2>3 DEF CapInv, PassedAreLater
<1>8. MostOverdueFirst'
  BY <1>1, <1>3 DEF CapInv, MostOverdueFirst
<1>9. PassedAreQueued'
  <2> SUFFICES ASSUME NEW u \in Ticks PROVE QueuedWith(u)'
    BY DEF PassedAreQueued
  <2>1. Todo(u)' = Todo(u)
    BY <1>1, <1>3 DEF Todo
  <2>2. \A q \in Todo(u) : q[1] \in Monitors
    BY TodoTimes
  <2>3. ASSUME NEW q \in Todo(u)', NEW x \in Monitors, q[1] \in passed'[x], Valid(q)'
        PROVE  q \in Todo(u) /\ q[1] \in passed[x] /\ Valid(q)
    BY <1>4, <1>5, <2>1, <2>2, <2>3
  <2>4. ASSUME NEW e \in Todo(u), passed'[e[1]] # {}, Valid(e)
        PROVE  e \in Todo(u)' /\ Valid(e)'
    BY <1>4, <1>5, <2>1, <2>2, <2>4
  <2>5. KeepsTodo(u)
    BY <2>3, <2>4 DEF KeepsTodo
  <2>6. QED
    BY <2>5, QueuedStep DEF CapInv, PassedAreQueued
<1>10. ClaimPassesNobody'
  <2> SUFFICES ASSUME NEW u \in Ticks, pc'[u] = "claimPut", NEW x \in Listed',
                      tick'[u].cur[1] \in passed'[x]
               PROVE  FALSE
    BY DEF ClaimPassesNobody
  <2>1. pc[u] = "claimPut" /\ tick'[u].cur = tick[u].cur /\ x \in Monitors
    BY <1>1, <1>3 DEF Listed, TypeOK, StoreTypeOK
  <2>2. tick[u].cur[1] \in passed[x]
    BY <1>4, <2>1
  <2>3. x \in Listed
    BY <2>1, <2>2 DEF CapInv, OnlyListedWait, PassedAreLater, Listed
  <2>4. QED
    BY <2>1, <2>2, <2>3 DEF CapInv, ClaimPassesNobody
<1>11. RunPassesNobody'
  <2> SUFFICES ASSUME NEW u \in Ticks, pc'[u] \in Claimed, Valid(tick[u].cur)', NEW x \in Monitors,
                      tick'[u].cur[1] \in passed'[x]
               PROVE  FALSE
    BY DEF RunPassesNobody
  <2>1. pc[u] \in Claimed /\ pc[u] \in Handling /\ tick'[u].cur = tick[u].cur
    BY <1>1, <1>3 DEF Claimed, Handling
  <2>2. tick[u].cur[1] \in passed[x] /\ tick[u].cur[1] # k /\ tick[u].cur[1] \in Monitors
    <3>1. x # k
      BY <1>4
    <3>2. passed'[x] = passed[x] \ {k} /\ passed[x] \subseteq Monitors
      BY <1>4, <3>1
    <3>3. QED
      BY <2>1, <3>2
  <2>3. rec'[tick[u].cur[1]] # None /\ rec'[tick[u].cur[1]].due = tick[u].cur[2].due
    BY <2>1 DEF Valid
  <2>4. Valid(tick[u].cur)
    BY <1>4, <2>2, <2>3 DEF Valid
  <2>5. QED
    BY <2>1, <2>2, <2>4 DEF CapInv, RunPassesNobody
<1>12. QED
  BY <1>6, <1>7, <1>8, <1>9, <1>10, <1>11 DEF CapInv

LEMMA CapInvStep ==
    ASSUME TimelyTicks PROVE ClaimInv /\ CapInv /\ [Next]_vars => CapInv'
<1> SUFFICES ASSUME ClaimInv, CapInv, [Next]_vars PROVE CapInv'
  OBVIOUS
<1>1. TypeOK'
  BY TypeStep DEF ClaimInv
<1>2. ASSUME KeepsPassed PROVE CapInv'
  BY <1>1, <1>2, CapFrame
<1>3. CASE CrashScheduler \/ Advance \/ UNCHANGED vars \/ Quiet \/ \E h \in Hosts : OnDemandVerify(h)
  BY <1>2, <1>3, KeepsPassedStep DEF Quiet
<1>4. ASSUME NEW c \in Clients, ClientStep(c) PROVE CapInv'
  <2>1. CASE RegisterPut(c)
    BY <1>1, <2>1, RegistrationKeepsCap
  <2>2. CASE ~RegisterPut(c)
    BY <1>2, <1>4, <2>2, KeepsPassedStep DEF ClientStep
  <2>3. QED
    BY <2>1, <2>2
<1>5. ASSUME NEW t \in Ticks, TickStep(t) PROVE CapInv'
  <2>1. CASE ClaimWrite(t) \/ Finish(t) \/ ErrorWrite(t)
    BY <1>1, <2>1, NextSlotWritten, WritePassesStep, WriteKeepsCap
  <2>2. CASE ListDue(t)
    BY <1>1, <2>2, ListKeepsCap
  <2>3. CASE Reserve(t)
    BY <1>1, <2>3, ReserveKeepsCap
  <2>4. CASE ClaimRead(t)
    BY <1>1, <2>4, ReadKeepsCap
  <2>5. CASE \/ StartTick(t) \/ EvictList(t) \/ EvictRead(t) \/ EvictWrite(t)
             \/ Defer(t) \/ SkipCooldown(t) \/ EndTick(t)
             \/ ClaimLost(t) \/ Verified(t) \/ AppendRun(t) \/ Recorded(t)
             \/ ErrorRead(t) \/ Throw(t) \/ Abort(t)
    BY <1>2, <2>5, KeepsPassedStep
  <2>6. QED
    BY <1>5, <2>1, <2>2, <2>3, <2>4, <2>5 DEF TickStep, RunStep
<1>6. QED
  BY <1>3, <1>4, <1>5 DEF Next

\* The cap per tick starves nobody, for every number of monitors, overlapping ticks and
\* clients: nobody is claimed twice past a monitor that stays due and is not held by the
\* cooldown.
THEOREM CapIsFair == ASSUME TimelyTicks PROVE Spec => CapNeverStarves
<1> DEFINE Fair ==
       \A t \in Ticks :
         pc[t] = "claimPut" /\ pc'[t] = "verify" =>
            \A x \in Listed \ {tick[t].cur[1]} :
               rec[x].due <= tick[t].at => tick[t].cur[1] \notin passed[x]
<1>1. Init => ClaimInv /\ CapInv
  <2>1. Init => CapInv
    BY DEF Init, CapInv, OnlyListedWait, PassedAreLater, MostOverdueFirst, PassedAreQueued,
           QueuedWith, ClaimPassesNobody, RunPassesNobody, Claimed, Handling, Listed
  <2>2. QED
    BY <2>1, ClaimInit
<1>2. ClaimInv /\ CapInv /\ [Next]_vars => ClaimInv' /\ CapInv'
  BY ClaimInvStep, CapInvStep
<1>3. CapInv => Fair
  BY DEF CapInv, ClaimPassesNobody
<1>4. QED
  BY <1>1, <1>2, <1>3, PTL DEF Spec, CapNeverStarves

(***************************************************************************)
(* A tick comes to its end: each step of one brings it nearer (every list  *)
(* it works through only shrinks, and an item is handled in one direction),*)
(* and no tick is left without a step but for its turn at claimDue.        *)
(***************************************************************************)

\* The order in which a tick handles one item
After(from, to) ==
    LET order == <<"claimGet", "claimPut", "verify", "append", "record", "finish",
                   "errGet", "errPut", "next">>
    IN  \E i, j \in 1 .. 9 : i < j /\ order[i] = from /\ order[j] = to

LEMMA Afters ==
    /\ After("claimGet", "claimPut") /\ After("claimGet", "next") /\ After("claimPut", "verify")
    /\ After("verify", "append") /\ After("append", "record") /\ After("record", "finish")
    /\ After("finish", "next") /\ After("errGet", "errPut") /\ After("errGet", "next")
    /\ After("errPut", "next")
    /\ \A from \in {"claimGet", "claimPut", "verify", "append", "record", "finish"} :
          After(from, "errGet")
<1> DEFINE order == <<"claimGet", "claimPut", "verify", "append", "record", "finish",
                      "errGet", "errPut", "next">>
<1>1. \A i, j \in 1 .. 9 : i < j => After(order[i], order[j])
  BY DEF After
<1>2. /\ order[1] = "claimGet" /\ order[2] = "claimPut" /\ order[3] = "verify"
      /\ order[4] = "append" /\ order[5] = "record" /\ order[6] = "finish"
      /\ order[7] = "errGet" /\ order[8] = "errPut" /\ order[9] = "next"
  OBVIOUS
<1> HIDE DEF order
<1>3. /\ After(order[1], order[2]) /\ After(order[1], order[9]) /\ After(order[2], order[3])
      /\ After(order[3], order[4]) /\ After(order[4], order[5]) /\ After(order[5], order[6])
      /\ After(order[6], order[9]) /\ After(order[7], order[8]) /\ After(order[7], order[9])
      /\ After(order[8], order[9]) /\ After(order[1], order[7]) /\ After(order[2], order[7])
      /\ After(order[3], order[7]) /\ After(order[4], order[7]) /\ After(order[5], order[7])
      /\ After(order[6], order[7])
  BY <1>1
<1>4. QED
  BY <1>2, <1>3

\* What a step may do to a tick: nothing, start it or end it; take it through the expired
\* monitors, each of which leaves the list; through the due ones, each of which leaves the
\* queue when it is taken; and forward through the handling of one.
Evicting(t) ==
    \/ pc[t] = "evict" /\ pc'[t] = "evictRead"
    \/ pc[t] = "evictRead" /\ pc'[t] = "evictWrite" /\ tick'[t].dead = tick[t].dead
    \/ /\ pc[t] = "evictWrite" /\ pc'[t] = "evictRead"
       /\ tick'[t].dead \subseteq tick[t].dead /\ tick'[t].dead # tick[t].dead
    \/ pc[t] = "evictRead" /\ pc'[t] = "next"
Handled(t) ==
    \/ /\ pc[t] = "next" /\ pc'[t] \in {"next", "claimGet"}
       /\ tick'[t].queue \subseteq tick[t].queue /\ tick'[t].queue # tick[t].queue
    \/ After(pc[t], pc'[t]) /\ tick'[t].queue = tick[t].queue
TickNearer(t) ==
    \/ pc'[t] = pc[t] /\ tick'[t] = tick[t]
    \/ pc[t] = "idle" /\ pc'[t] = "evict"
    \/ pc'[t] = "idle"
    \/ Evicting(t) \/ Handled(t)

LEMMA OthersNearer ==
    ASSUME TypeOK, NEW t \in Ticks, TickStep(t), NEW u \in Ticks, u # t PROVE TickNearer(u)
<1>1. DOMAIN pc = Ticks \cup Clients /\ tick \in [Ticks -> TickRec]
  BY DEF TypeOK, PcTypeOK, TickTypeOK
<1>2. pc'[u] = pc[u] /\ tick'[u] = tick[u]
  BY <1>1 DEF TickStep, RunStep, StartTick, EvictList, EvictRead, EvictWrite, ListDue, Defer,
     SkipCooldown, Reserve, EndTick, ClaimRead, ClaimLost, ClaimWrite, Verified, AppendRun,
     Recorded, Finish, ErrorRead, ErrorWrite, Throw, Abort, Goto, Release
<1>3. QED
  BY <1>2 DEF TickNearer

LEMMA OwnNearer == ASSUME TypeOK, NEW t \in Ticks, TickStep(t) PROVE TickNearer(t)
<1>1. DOMAIN pc = Ticks \cup Clients /\ tick \in [Ticks -> TickRec]
  BY DEF TypeOK, PcTypeOK, TickTypeOK
<1>2. CASE StartTick(t) \/ EndTick(t) \/ Abort(t)
  BY <1>1, <1>2 DEF StartTick, EndTick, Abort, Goto, TickNearer
<1>3. CASE EvictList(t) \/ EvictRead(t) \/ ListDue(t)
  BY <1>1, <1>3 DEF EvictList, EvictRead, ListDue, Goto, TickNearer, Evicting, TickRec
<1>4. CASE EvictWrite(t)
  BY <1>1, <1>4 DEF EvictWrite, Goto, TickNearer, Evicting, TickRec
<1>5. CASE Defer(t)
  BY <1>1, <1>5 DEF Defer, TickNearer, Handled, TickRec
<1>6. CASE SkipCooldown(t)
  BY <1>1, <1>6 DEF SkipCooldown, MostOverdue, TickNearer, Handled, TickRec
<1>7. CASE Reserve(t)
  BY <1>1, <1>7 DEF Reserve, MostOverdue, Goto, TickNearer, Handled, TickRec
<1>8. CASE ClaimRead(t) \/ ClaimWrite(t) \/ Verified(t) \/ AppendRun(t) \/ Recorded(t)
  <2>1. tick'[t].queue = tick[t].queue
    BY <1>1, <1>8 DEF ClaimRead, ClaimWrite, Verified, AppendRun, Recorded, TickRec
  <2>2. After(pc[t], pc'[t])
    BY <1>1, <1>8, Afters DEF ClaimRead, ClaimWrite, Verified, AppendRun, Recorded, Goto
  <2>3. QED
    BY <2>1, <2>2 DEF TickNearer, Handled
<1>9. CASE ClaimLost(t) \/ Finish(t) \/ ErrorRead(t) \/ ErrorWrite(t) \/ Throw(t)
  <2>1. tick'[t].queue = tick[t].queue
    BY <1>1, <1>9 DEF ClaimLost, Finish, ErrorRead, ErrorWrite, Throw, Release, TickRec
  <2>2. After(pc[t], pc'[t])
    BY <1>1, <1>9, Afters DEF ClaimLost, Finish, ErrorRead, ErrorWrite, Throw, Goto
  <2>3. QED
    BY <2>1, <2>2 DEF TickNearer, Handled
<1>10. QED
  BY <1>2, <1>3, <1>4, <1>5, <1>6, <1>7, <1>8, <1>9 DEF TickStep, RunStep

\* runLocalTick never goes back: whatever else runs, a tick only shrinks the list of expired
\* monitors and the queue of due ones it took at its start, and takes an item through
\* claimDue, the check, the record and the release in that order (a failure goes to the
\* handler of errors once).  With two finite lists it has finitely many steps.
THEOREM EachStepNearsTheEnd == Spec => [][\A t \in Ticks : TickNearer(t)]_vars
<1>1. TypeOK /\ [Next]_vars => [\A t \in Ticks : TickNearer(t)]_vars
  <2> SUFFICES ASSUME TypeOK, Next, NEW t \in Ticks PROVE TickNearer(t)
    OBVIOUS
  <2>1. CASE \E u \in Ticks : TickStep(u)
    BY <2>1, OthersNearer, OwnNearer
  <2>2. ASSUME NEW c \in Clients, ClientStep(c) PROVE TickNearer(t)
    <3>1. c # t /\ DOMAIN pc = Ticks \cup Clients
      BY ProcessAssumption DEF TypeOK, PcTypeOK
    <3>2. pc'[t] = pc[t] /\ tick' = tick
      BY <2>2, <3>1 DEF ClientStep, RegisterCheck, DeleteRead, RegisterPut, RegisterRead,
         RegisterWrite, DeleteWrite, ClientCrash, Goto
    <3>3. QED
      BY <3>2 DEF TickNearer
  <2>3. CASE CrashScheduler
    BY <2>3 DEF CrashScheduler, TickNearer
  <2>4. CASE Advance \/ Quiet \/ \E h \in Hosts : OnDemandVerify(h)
    BY <2>4 DEF Advance, Quiet, OnDemandVerify, TickNearer, vars
  <2>5. QED
    BY <2>1, <2>2, <2>3, <2>4 DEF Next
<1>2. QED
  BY <1>1, TypeCorrect, PTL DEF Spec

\* A tick that is under way has a step of its own, but for its turn at claimDue; and the tick
\* whose turn it is has one.
TickAble(t) ==
    /\ pc[t] = "evictWrite" => tick[t].dead # {}
    /\ pc[t] = "next" /\ tick[t].queue # {} => MostOverdue(t) # {}
    /\ pc[t] = "claimGet" /\ chain # None => chain \in Ticks \ {t} /\ pc[chain] = "claimPut"

EvictInv == \A t \in Ticks : pc[t] = "evictWrite" => tick[t].dead # {}

LEMMA EvictStep == TypeOK /\ EvictInv /\ [Next]_vars => EvictInv'
<1> SUFFICES ASSUME TypeOK, EvictInv, [Next]_vars, NEW t \in Ticks, pc'[t] = "evictWrite"
             PROVE  tick'[t].dead # {}
  BY DEF EvictInv
<1>1. DOMAIN pc = Ticks \cup Clients /\ tick \in [Ticks -> TickRec]
  BY DEF TypeOK, PcTypeOK, TickTypeOK
<1>2. ASSUME pc'[t] = pc[t], tick'[t] = tick[t] PROVE tick'[t].dead # {}
  BY <1>2 DEF EvictInv
<1>3. CASE EvictRead(t)
  BY <1>1, <1>3 DEF EvictRead, Goto, TickRec
<1>4. ASSUME NEW u \in Ticks, TickStep(u), u # t PROVE tick'[t].dead # {}
  <2>1. pc'[t] = pc[t] /\ tick'[t] = tick[t]
    BY <1>1, <1>4 DEF TickStep, RunStep, StartTick, EvictList, EvictRead, EvictWrite, ListDue, Defer,
       SkipCooldown, Reserve, EndTick, ClaimRead, ClaimLost, ClaimWrite, Verified, AppendRun,
       Recorded, Finish, ErrorRead, ErrorWrite, Throw, Abort, Goto, Release
  <2>2. QED
    BY <1>2, <2>1
<1>5. CASE TickStep(t)
  BY <1>1, <1>3, <1>5 DEF TickStep, RunStep, StartTick, EvictList, EvictWrite, ListDue, Defer,
     SkipCooldown, Reserve, EndTick, ClaimRead, ClaimLost, ClaimWrite, Verified, AppendRun,
     Recorded, Finish, ErrorRead, ErrorWrite, Throw, Abort, Goto
<1>6. ASSUME NEW c \in Clients, ClientStep(c) PROVE tick'[t].dead # {}
  <2>1. c # t
    BY ProcessAssumption
  <2>2. pc'[t] = pc[t] /\ tick' = tick
    BY <1>1, <1>6, <2>1 DEF ClientStep, RegisterCheck, DeleteRead, RegisterPut, RegisterRead,
       RegisterWrite, DeleteWrite, ClientCrash, Goto
  <2>3. QED
    BY <1>2, <2>2
<1>7. CASE CrashScheduler
  BY <1>7 DEF CrashScheduler
<1>8. CASE Advance \/ Quiet \/ UNCHANGED vars \/ \E h \in Hosts : OnDemandVerify(h)
  BY <1>2, <1>8 DEF Advance, Quiet, OnDemandVerify, vars
<1>9. QED
  BY <1>4, <1>5, <1>6, <1>7, <1>8 DEF Next

\* No tick waits on everyone: an eviction has a monitor to evict, a queue that is not empty
\* has a most overdue item to take, and a tick that waits at claimDue waits on the one tick
\* whose claim is between its read and its write, which waits on none (claimChain's tail is
\* a claim under way, and a claim that fails or ends releases it).
THEOREM NoTickIsStuck == Spec => [](\A t \in Ticks : TickAble(t))
<1>1. Init => EvictInv
  BY DEF Init, EvictInv
<1>2. TypeOK /\ EvictInv => \A t \in Ticks : TickAble(t)
  <2> SUFFICES ASSUME TypeOK, EvictInv, NEW t \in Ticks PROVE TickAble(t)
    OBVIOUS
  <2>1. ASSUME tick[t].queue # {} PROVE MostOverdue(t) # {}
    <3> DEFINE T == {q[2].due : q \in tick[t].queue}
    <3>1. \A q \in tick[t].queue : q[2].due \in Nat
      BY DEF TypeOK, TickTypeOK, TickRec, Item, Record
    <3>2. T \subseteq Nat /\ T # {}
      BY <2>1, <3>1
    <3>3. PICK d \in T : \A e \in T : d <= e
      BY <3>2, LeastExists
    <3>4. PICK q \in tick[t].queue : q[2].due = d
      BY <3>3
    <3>5. q \in MostOverdue(t)
      BY <3>3, <3>4 DEF MostOverdue
    <3>6. QED
      BY <3>5
  <2>2. chain # None => chain \in Ticks /\ pc[chain] = "claimPut"
    BY DEF TypeOK, StoreTypeOK, HoldsOK
  <2>3. QED
    BY <2>1, <2>2 DEF TickAble, EvictInv
<1>3. QED
  BY <1>1, <1>2, EvictStep, TypeCorrect, PTL DEF Spec

=============================================================================
