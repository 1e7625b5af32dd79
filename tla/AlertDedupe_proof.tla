--------------------------- MODULE AlertDedupe_proof ---------------------------
(***************************************************************************)
(* Proofs about AlertDedupe: type correctness, that every behaviour of the *)
(* dispatcher is one of NotificationGate, so that the debounce holds for   *)
(* every rule set, every sequence of observations and every failure, that  *)
(* only news is alerted, and that no breach is silenced without a reason.  *)
(***************************************************************************)
EXTENDS AlertDedupe, TLAPS

\* The stored age is the true one, before and after the state is stored.
AgeInv ==
    /\ state.since = quiet
    /\ pc = "put" /\ decision.deliver = None => decision.next.since = quiet
    /\ pc = "put" /\ decision.deliver # None =>
          decision.next.since = 0 /\ (quiet = Never \/ quiet >= opts.debounce)

IInv == TypeOK /\ AgeInv

LEMMA OlderType == ASSUME NEW age \in Never .. Horizon, NEW gap \in Gaps
                   PROVE  Older(age, gap) \in Never .. Horizon
BY AlertAssumption DEF Older, Never

LEMMA DecisionType == ASSUME TypeOK PROVE decideAlert \in AlertDecision
<1>1. state \in State /\ obs \in Obs /\ 0 \in Never .. Horizon
  BY AlertAssumption DEF TypeOK, Never
<1>2. \A f \in BOOLEAN : Keep(f) \in AlertDecision
  BY <1>1 DEF Keep, State, Verdicts, AlertDecision
<1>3. Fire \in AlertDecision
  BY <1>1 DEF Fire, State, Verdicts, AlertDecision
<1>4. Resolve \in AlertDecision
  BY <1>1 DEF Resolve, State, Verdicts, AlertDecision
<1>5. QED
  BY <1>2, <1>3, <1>4 DEF decideAlert

LEMMA InvInit == Init => IInv
<1> SUFFICES ASSUME Init PROVE TypeOK /\ AgeInv
  BY DEF IInv
<1>1. state \in State
  BY AlertAssumption DEF Init, initialAlertState, State, Never
<1>2. obs \in Obs /\ quiet \in Never .. Horizon /\ left \in 0 .. Channels
  BY AlertAssumption DEF Init, Obs, Never
<1>3. TypeOK
  BY <1>1, <1>2 DEF Init, TypeOK, Verdicts
<1>4. AgeInv
  BY DEF Init, AgeInv, initialAlertState
<1>5. QED
  BY <1>3, <1>4

\* What the history says of the last alert keeps its type.
LEMMA NoticesType ==
    ASSUME TypeOK, Store PROVE standing' \in Obs \cup {None} /\ muted' \in BOOLEAN
<1>1. standing' \in {obs, None, standing}
  BY DEF Store
<1>2. QED
  BY <1>1 DEF Store, TypeOK

\* A decision keeps the stored age, or restarts it outside the debounce window.
LEMMA DecisionAge ==
    ASSUME TypeOK
    PROVE  /\ decideAlert.deliver = None => decideAlert.next.since = state.since
           /\ decideAlert.deliver # None =>
                 /\ decideAlert.next.since = 0
                 /\ state.since = Never \/ state.since >= opts.debounce
<1>1. state \in State /\ opts.debounce \in Int /\ state.since \in Int
  BY AlertAssumption DEF TypeOK, State, Never
<1>2. \A f : Keep(f).deliver = None /\ Keep(f).next.since = state.since
  BY <1>1 DEF Keep, State
<1>3. Fire.deliver = "firing" /\ Fire.next.since = 0
  BY DEF Fire
<1>4. Resolve.deliver = "resolved" /\ Resolve.next.since = 0
  BY <1>1 DEF Resolve, State
<1>5. ~Debounced => state.since = Never \/ state.since >= opts.debounce
  BY <1>1 DEF Debounced
<1>6. QED
  BY <1>2, <1>3, <1>4, <1>5, AlertAssumption DEF decideAlert

LEMMA InvStep == IInv /\ [Next]_vars => IInv'
<1> SUFFICES ASSUME IInv, [Next]_vars PROVE IInv'
  OBVIOUS
<1> USE DEF IInv
<1>1. ASSUME NEW gap \in Gaps, NEW o \in Obs, Run(gap, o) PROVE IInv'
  <2>1. /\ state' = [state EXCEPT !.since = Older(state.since, gap)] /\ quiet' = Older(quiet, gap)
        /\ pc' = "get" /\ obs' = o
        /\ UNCHANGED <<rule, opts, prior, decision, left, faults, told, cleared, notices>>
    BY <1>1 DEF Run
  <2>2. state'.since = Older(state.since, gap) /\ state' \in State
    BY <2>1, OlderType DEF TypeOK, State
  <2>3. TypeOK'
    BY <2>1, <2>2, OlderType DEF TypeOK, notices
  <2>4. AgeInv'
    <3>1. state'.since = quiet'
      BY <2>1, <2>2 DEF AgeInv
    <3>2. QED
      BY <2>1, <3>1 DEF AgeInv
  <2>5. QED
    BY <2>3, <2>4
<1>2. CASE Decide
  <2>1. TypeOK'
    <3>1. decision' \in AlertDecision /\ decision' # None
      BY <1>2, DecisionType, AlertAssumption DEF Decide
    <3>2. cleared' \in BOOLEAN
      BY <1>2 DEF Decide, TypeOK
    <3>3. QED
      BY <1>2, <3>1, <3>2 DEF Decide, TypeOK, notices
  <2>2. AgeInv'
    BY <1>2, DecisionAge DEF Decide, AgeInv
  <2>3. QED
    BY <2>1, <2>2
<1>3. CASE Store
  <2>1. decision \in AlertDecision
    BY <1>3 DEF Store, TypeOK
  <2>2. CASE decision.deliver = None
    <3>1. /\ state' = decision.next /\ pc' = "idle" /\ prior' = obs /\ decision' = None /\ left' = 0
          /\ UNCHANGED <<rule, opts, obs, faults, told, quiet, cleared>>
      BY <1>3, <2>2 DEF Store, Done
    <3>2. TypeOK'
      BY <1>3, <2>1, <3>1, NoticesType, AlertAssumption DEF TypeOK, AlertDecision
    <3>3. AgeInv'
      BY <1>3, <2>2, <3>1 DEF Store, AgeInv
    <3>4. QED
      BY <3>2, <3>3
  <2>3. CASE decision.deliver # None
    <3>1. /\ state' = decision.next /\ pc' = "deliver" /\ left' = Channels /\ quiet' = 0
          /\ cleared' \in BOOLEAN
          /\ UNCHANGED <<rule, opts, obs, faults, told, prior, decision>>
      BY <1>3, <2>3 DEF Store
    <3>2. TypeOK'
      BY <1>3, <2>1, <3>1, NoticesType, AlertAssumption DEF TypeOK, Never, AlertDecision
    <3>3. AgeInv'
      BY <1>3, <2>3, <3>1 DEF Store, AgeInv
    <3>4. QED
      BY <3>2, <3>3
  <2>4. QED
    BY <2>2, <2>3
<1>4. ASSUME NEW ok \in BOOLEAN, Deliver(ok) PROVE IInv'
  <2>1. pc = "deliver" /\ UNCHANGED <<rule, opts, obs, state, quiet, cleared, notices>>
    BY <1>4 DEF Deliver
  <2>2. told' \in Verdicts /\ faults' \in Nat
    <3>1. decision \in AlertDecision
      BY <1>4 DEF Deliver, TypeOK
    <3>2. decision.deliver \in Verdicts
      BY <3>1 DEF AlertDecision
    <3>3. QED
      BY <1>4, <3>2 DEF Deliver, TypeOK
  <2>3. CASE left = 1
    <3>1. pc' = "idle" /\ prior' = obs /\ decision' = None /\ left' = 0
      BY <1>4, <2>3 DEF Deliver, Done
    <3>2. QED
      BY <2>1, <2>2, <3>1, AlertAssumption DEF TypeOK, AgeInv, notices
  <2>4. CASE left # 1
    BY <1>4, <2>1, <2>2, <2>4, AlertAssumption DEF Deliver, TypeOK, AgeInv, notices
  <2>5. QED
    BY <2>3, <2>4
<1>5. CASE Fail
  BY <1>5, AlertAssumption DEF Fail, TypeOK, Done, AgeInv, notices
<1>6. CASE UNCHANGED vars
  BY <1>6 DEF vars, TypeOK, AgeInv
<1>7. QED
  BY <1>1, <1>2, <1>3, <1>4, <1>5, <1>6 DEF Next, Dispatch

\* Type correctness of the dispatcher, for every rule set.
THEOREM TypeCorrect == Spec => []TypeOK
<1>1. IInv => TypeOK
  BY DEF IInv
<1>2. QED
  BY <1>1, InvInit, InvStep, PTL DEF Spec

LEMMA GateStep == IInv /\ [Next]_vars => [Gate!Next]_<<opts.debounce, quiet>>
<1> SUFFICES ASSUME IInv, [Next]_vars PROVE [Gate!Next]_<<opts.debounce, quiet>>
  OBVIOUS
<1>1. ASSUME NEW gap \in Gaps, NEW o \in Obs, Run(gap, o) PROVE Gate!Wait(gap)
  BY <1>1 DEF Run, Gate!Wait, Gate!Older, Gate!Never, Older, Never
<1>2. CASE Store
  <2>1. CASE decision.deliver = None
    BY <1>2, <2>1 DEF Store
  <2>2. CASE decision.deliver # None
    BY <1>2, <2>2 DEF Store, IInv, AgeInv, Gate!Next, Gate!Notify, Gate!Never, Never
  <2>3. QED
    BY <2>1, <2>2
<1>3. CASE Decide \/ Fail \/ \E ok \in BOOLEAN : Deliver(ok)
  BY <1>3 DEF Decide, Fail, Deliver
<1>4. CASE UNCHANGED vars
  BY <1>4 DEF vars
<1>5. QED
  BY <1>1, <1>2, <1>3, <1>4 DEF Next, Dispatch, Gate!Next

\* The debounce holds for every rule set, every sequence of observations and every
\* failure: each behaviour of the dispatcher is one of NotificationGate.
THEOREM DispatcherImplementsGate == Spec => ImplementsGate
<1>1. Init => Gate!Init
  BY DEF Init, Gate!Init, Gate!Never, Never
<1>2. IInv /\ [Next]_vars => [Gate!Next]_<<opts.debounce, quiet>>
  BY GateStep
<1>3. QED
  BY <1>1, <1>2, InvInit, InvStep, PTL DEF Spec, ImplementsGate, Gate!Spec

-----------------------------------------------------------------------------
(* Only news is alerted.                                                     *)

\* What makes a firing notification news, before it is decided and after.
News(value) ==
    \/ quiet = Never \/ cleared
    \/ opts.renotify # None /\ quiet >= opts.renotify
    \/ rule \in SeverityRules /\ value > state.value

\* A state that is not firing was never announced, or the rule was clear since.
NewsInv ==
    /\ ~state.firing => quiet = Never \/ cleared
    /\ pc = "put" /\ ~decision.next.firing => cleared
    /\ pc = "put" /\ decision.deliver = "firing" =>
          decision.next.firing /\ News(decision.next.value)

LEMMA NewsInit == Init => NewsInv
BY DEF Init, NewsInv

\* What is decided, and why it was.
LEMMA DecisionNews ==
    ASSUME IInv, NewsInv, pc = "get"
    PROVE  /\ ~decideAlert.next.firing => ~Breached
           /\ decideAlert.deliver = "firing" =>
                 decideAlert.next.firing /\ News(decideAlert.next.value)
<1>1. state \in State /\ state.since = quiet
  BY DEF IInv, TypeOK, AgeInv
<1>2. \A f \in BOOLEAN : Keep(f).deliver = None /\ Keep(f).next.firing = f
  BY <1>1 DEF Keep, State
<1>3. Fire.deliver = "firing" /\ Fire.next.firing /\ Fire.next.value = obs
  BY DEF Fire
<1>4. Resolve.deliver = "resolved" /\ ~Resolve.next.firing
  BY <1>1 DEF Resolve, State
<1>5. CASE Breached /\ (~state.firing \/ RenotifyDue \/ Worsening) /\ ~Debounced
  <2>1. decideAlert = Fire
    BY <1>5 DEF decideAlert
  <2>2. News(obs)
    BY <1>1, <1>5 DEF NewsInv, News, RenotifyDue, Worsening
  <2>3. QED
    BY <2>1, <2>2, <1>3
<1>6. CASE Breached /\ ~((~state.firing \/ RenotifyDue \/ Worsening) /\ ~Debounced)
  <2>1. decideAlert = Keep(TRUE)
    BY <1>6 DEF decideAlert
  <2>2. QED
    BY <2>1, <1>2, AlertAssumption
<1>7. CASE ~Breached
  <2>1. decideAlert = Resolve \/ decideAlert = Keep(FALSE)
    BY <1>7 DEF decideAlert
  <2>2. QED
    BY <2>1, <1>2, <1>4, <1>7, AlertAssumption
<1>8. QED
  BY <1>5, <1>6, <1>7

LEMMA NewsStep == IInv /\ NewsInv /\ [Next]_vars => NewsInv'
<1> SUFFICES ASSUME IInv, NewsInv, [Next]_vars PROVE NewsInv'
  OBVIOUS
<1>1. ASSUME NEW gap \in Gaps, NEW o \in Obs, Run(gap, o) PROVE NewsInv'
  <2>1. state'.firing = state.firing /\ pc' = "get" /\ cleared' = cleared
    BY <1>1 DEF Run, IInv, TypeOK, State
  <2>2. quiet = Never => quiet' = Never
    BY <1>1 DEF Run, Older
  <2>3. QED
    BY <2>1, <2>2 DEF NewsInv
<1>2. CASE Decide
  <2>1. /\ decision' = decideAlert /\ pc = "get" /\ cleared' = (cleared \/ ~Breached)
        /\ UNCHANGED <<state, quiet, opts, rule>>
    BY <1>2 DEF Decide
  <2>2. \A value : News(value) =>
           \/ quiet' = Never \/ cleared'
           \/ opts'.renotify # None /\ quiet' >= opts'.renotify
           \/ rule' \in SeverityRules /\ value > state'.value
    BY <2>1 DEF News
  <2>3. QED
    BY <2>1, <2>2, DecisionNews DEF NewsInv, News
<1>3. CASE Store
  <2>1. state' = decision.next /\ pc = "put" /\ pc' # "put"
    BY <1>3 DEF Store, Done
  <2>2. CASE decision.deliver = None
    BY <1>3, <2>1, <2>2 DEF Store, NewsInv
  <2>3. CASE decision.deliver # None
    <3>1. decision.deliver \in {"firing", "resolved"}
      BY <1>3, <2>3, AlertAssumption DEF Store, IInv, TypeOK, AlertDecision, Verdicts
    <3>2. cleared' = (decision.deliver = "resolved")
      BY <1>3, <2>3 DEF Store
    <3>3. QED
      BY <2>1, <3>1, <3>2 DEF NewsInv
  <2>4. QED
    BY <2>2, <2>3
<1>4. ASSUME NEW ok \in BOOLEAN, Deliver(ok) PROVE NewsInv'
  BY <1>4 DEF Deliver, Done, NewsInv
<1>5. CASE Fail
  BY <1>5 DEF Fail, Done, NewsInv
<1>6. CASE UNCHANGED vars
  BY <1>6 DEF vars, NewsInv, News
<1>7. QED
  BY <1>1, <1>2, <1>3, <1>4, <1>5, <1>6 DEF Next, Dispatch

\* Whatever fails, a firing notification is news: a breach that persists is not alerted
\* again before renotifyMs has passed, unless it has become worse.
THEOREM OnlyNews == Spec => OnlyNewsIsAlerted
<1> DEFINE Announced == pc = "put" /\ pc' = "deliver" /\ decision.deliver = "firing" =>
          \/ quiet = Never \/ cleared
          \/ opts.renotify # None /\ quiet >= opts.renotify
          \/ rule \in SeverityRules /\ decision.next.value > state.value
<1>1. NewsInv => Announced
  BY DEF NewsInv, News
<1>2. QED
  BY <1>1, InvInit, InvStep, NewsInit, NewsStep, PTL DEF Spec, OnlyNewsIsAlerted

-----------------------------------------------------------------------------
(* What stays silent.                                                          *)

\* A state that fires, or has notified, has a value that was alerted.
Alerted(s) == s.firing \/ s.since # Never => s.since # Never /\ s.value # None
AlertedInv ==
    /\ Alerted(state)
    /\ pc = "put" => Alerted(decision.next) /\ decision = decideAlert

LEMMA AlertedInit == Init => AlertedInv
  BY DEF Init, AlertedInv, Alerted, initialAlertState, Never

LEMMA DecisionAlerted == ASSUME TypeOK, Alerted(state) PROVE Alerted(decideAlert.next)
<1>1. state \in State /\ obs \in Obs /\ obs # None
  BY AlertAssumption DEF TypeOK, Obs
<1>2. Alerted(Fire.next)
  BY <1>1 DEF Fire, Alerted, Never
<1>3. state.firing => Alerted(Resolve.next)
  BY <1>1 DEF Resolve, Alerted, State, Never
<1>4. Alerted(Keep(FALSE).next)
  BY <1>1 DEF Keep, Alerted, State
<1>5. state.firing \/ Debounced => Alerted(Keep(TRUE).next)
  BY <1>1 DEF Keep, Alerted, State, Debounced
<1>6. Breached /\ ~((~state.firing \/ RenotifyDue \/ Worsening) /\ ~Debounced)
         => state.firing \/ Debounced
  OBVIOUS
<1>7. QED
  BY <1>2, <1>3, <1>4, <1>5, <1>6 DEF decideAlert

LEMMA AlertedStep == IInv /\ AlertedInv /\ [Next]_vars => AlertedInv'
<1> SUFFICES ASSUME IInv, AlertedInv, [Next]_vars PROVE AlertedInv'
  OBVIOUS
<1>1. TypeOK /\ Alerted(state)
  BY DEF IInv, AlertedInv
<1>2. ASSUME NEW gap \in Gaps, NEW o \in Obs, Run(gap, o) PROVE AlertedInv'
  <2>1. /\ state'.firing = state.firing /\ state'.value = state.value
        /\ state'.since = Older(state.since, gap) /\ pc' = "get"
    BY <1>1, <1>2 DEF Run, TypeOK, State
  <2>2. /\ state.since = Never => Older(state.since, gap) = Never
        /\ state.since # Never => Older(state.since, gap) # Never
    BY <1>1, AlertAssumption DEF Older, Never, TypeOK, State
  <2>3. Alerted(state')
    BY <1>1, <2>1, <2>2 DEF Alerted
  <2>4. QED
    BY <2>1, <2>3 DEF AlertedInv
<1>3. CASE Decide
  <2>1. decision' = decideAlert /\ UNCHANGED <<rule, opts, obs, prior, state>>
    BY <1>3 DEF Decide
  <2>2. decideAlert' = decideAlert
    BY <2>1 DEF decideAlert, Breached, Debounced, RenotifyDue, Worsening, Fire, Resolve, Keep
  <2>3. Alerted(decision'.next)
    BY <1>1, <2>1, DecisionAlerted
  <2>4. QED
    BY <1>1, <2>1, <2>2, <2>3 DEF AlertedInv
<1>4. CASE Store
  BY <1>4 DEF Store, Done, AlertedInv
<1>5. ASSUME pc' # "put", state' = state PROVE AlertedInv'
  BY <1>1, <1>5 DEF AlertedInv
<1>6. ASSUME NEW ok \in BOOLEAN, Deliver(ok) PROVE AlertedInv'
  BY <1>5, <1>6 DEF Deliver, Done
<1>7. CASE Fail
  BY <1>5, <1>7 DEF Fail, Done
<1>8. CASE UNCHANGED vars
  <2>1. decideAlert' = decideAlert
    BY <1>8 DEF vars, decideAlert, Breached, Debounced, RenotifyDue, Worsening, Fire, Resolve, Keep
  <2>2. QED
    BY <1>8, <2>1 DEF vars, AlertedInv
<1>9. QED
  BY <1>2, <1>3, <1>4, <1>6, <1>7, <1>8 DEF Next, Dispatch

\* An alert that stands is the one whose value is stored; a state that fires without one was
\* stored inside the debounce time of the notification that took the last one back.
StandingInv ==
    /\ standing # None => standing = state.value
    /\ state.firing => standing # None \/ muted

LEMMA StandingInit == Init => StandingInv
  BY DEF Init, StandingInv, initialAlertState

LEMMA StandingStep == IInv /\ AlertedInv /\ StandingInv /\ [Next]_vars => StandingInv'
<1> SUFFICES ASSUME IInv, AlertedInv, StandingInv, [Next]_vars PROVE StandingInv'
  OBVIOUS
<1>1. TypeOK
  BY DEF IInv
<1>2. ASSUME state'.firing = state.firing, state'.value = state.value, UNCHANGED notices
      PROVE  StandingInv'
  BY <1>2 DEF StandingInv, notices
<1>3. ASSUME NEW gap \in Gaps, NEW o \in Obs, Run(gap, o) PROVE StandingInv'
  <2>1. state'.firing = state.firing /\ state'.value = state.value /\ UNCHANGED notices
    BY <1>1, <1>3 DEF Run, TypeOK, State
  <2>2. QED
    BY <1>2, <2>1
<1>4. CASE Store
  <2>1. state' = decideAlert.next /\ decision = decideAlert
    BY <1>4 DEF Store, AlertedInv
  <2>2. /\ standing' = CASE decision.deliver = "firing" -> obs
                         [] decision.deliver = "resolved" -> None
                         [] OTHER -> standing
        /\ muted' = (/\ decision.deliver = None /\ decision.next.firing
                     /\ muted \/ (~state.firing /\ standing = None /\ Debounced))
    BY <1>4 DEF Store
  <2>3. state \in State /\ None \notin {"firing", "resolved"}
    BY <1>1, AlertAssumption DEF TypeOK
  <2>4. CASE decideAlert = Fire
    <3>1. decision.deliver = "firing" /\ state'.value = obs
      BY <2>1, <2>4 DEF Fire
    <3>2. standing' = obs /\ obs # None
      BY <1>1, <2>2, <3>1, AlertAssumption DEF TypeOK, Obs
    <3>3. QED
      BY <3>1, <3>2 DEF StandingInv
  <2>5. CASE decideAlert = Resolve
    BY <2>1, <2>2, <2>3, <2>5 DEF Resolve, StandingInv, State
  <2>6. ASSUME NEW firing \in BOOLEAN, decideAlert = Keep(firing),
               firing => state.firing \/ Debounced
        PROVE  StandingInv'
    <3>1. /\ decision.deliver = None /\ decision.next.firing = firing
          /\ state'.firing = firing /\ state'.value = state.value
      BY <2>1, <2>3, <2>6 DEF Keep, State
    <3>2. /\ standing' = standing
          /\ muted' = (firing /\ (muted \/ (~state.firing /\ standing = None /\ Debounced)))
      BY <2>2, <2>3, <3>1
    <3>3. QED
      BY <2>6, <3>1, <3>2 DEF StandingInv
  <2>7. \/ decideAlert = Fire \/ decideAlert = Resolve \/ decideAlert = Keep(FALSE)
        \/ decideAlert = Keep(TRUE) /\ (state.firing \/ Debounced)
    BY DEF decideAlert
  <2>8. QED
    BY <2>4, <2>5, <2>6, <2>7
<1>5. CASE Decide \/ Fail \/ UNCHANGED vars \/ \E ok \in BOOLEAN : Deliver(ok)
  <2>1. state' = state /\ UNCHANGED notices
    BY <1>5 DEF Decide, Fail, Deliver, vars, notices
  <2>2. QED
    BY <1>2, <2>1
<1>6. QED
  BY <1>3, <1>4, <1>5 DEF Next, Dispatch

\* A breach about which nothing is delivered is debounced; or an alert of it stands and is not
\* due again, of a rule with a severity at a level at least as bad; or it came back debounced by
\* its own resolution, is not due again, and no worse than what was resolved.
SilenceIsWarranted ==
    pc = "put" /\ Breached /\ decision.deliver = None =>
        \/ Debounced
        \/ /\ state.firing /\ ~RenotifyDue
           /\ \/ standing # None /\ (rule \in SeverityRules => standing >= obs)
              \/ muted /\ (rule \in SeverityRules => state.value >= obs)

\* decideAlert, whatever was stored, given up or refused before it: outside the debounce window
\* nothing passes in silence but a breach that was already alerted, by an alert that no resolved
\* notification took back, and the one that came back in the debounce time of its resolution;
\* and a worse one than the last that was alerted never does.  (The part of
\* SettledBreachIsAlerted that is an invariant.)
THEOREM NoEscalationIsSwallowed == Spec => []SilenceIsWarranted
<1>1. IInv /\ AlertedInv /\ StandingInv => SilenceIsWarranted
  <2> SUFFICES ASSUME IInv, AlertedInv, StandingInv,
                      pc = "put", Breached, decision.deliver = None, ~Debounced
               PROVE  /\ state.firing /\ ~RenotifyDue
                      /\ \/ standing # None /\ (rule \in SeverityRules => standing >= obs)
                         \/ muted /\ (rule \in SeverityRules => state.value >= obs)
    BY DEF SilenceIsWarranted
  <2>1. Fire.deliver # None
    BY AlertAssumption DEF Fire
  <2>2. state.firing /\ ~RenotifyDue /\ ~Worsening
    BY <2>1 DEF AlertedInv, decideAlert
  <2>3. obs \in Nat /\ (state.value = None \/ state.value \in Nat)
    BY AlertAssumption DEF IInv, TypeOK, State, Obs
  <2>4. state.value # None
    BY <2>2 DEF AlertedInv, Alerted
  <2>5. rule \in SeverityRules => ~(obs > state.value)
    BY <2>2, <2>4 DEF Worsening
  <2>6. rule \in SeverityRules => state.value >= obs
    BY <2>3, <2>4, <2>5
  <2>7. QED
    BY <2>2, <2>6 DEF StandingInv
<1>2. QED
  BY <1>1, InvInit, InvStep, AlertedInit, AlertedStep, StandingInit, StandingStep, PTL DEF Spec

=============================================================================
