------------------------------ MODULE AlertDedupe ------------------------------
(***************************************************************************)
(* The alerts of one monitor and one rule (alerts.ts): every run of the    *)
(* monitor evaluates the rule, decideAlert decides over the stored state,  *)
(* the next state is stored and then each channel is called in turn.       *)
(*                                                                         *)
(* A (monitor, rule) pair has a KV key of its own, so the other rules of a *)
(* dispatch are seen here only as a dispatch that may fail before, between *)
(* or after this rule's own steps.  Time is a run's nowMs: it moves from   *)
(* one run to the next, and ages are kept up to Horizon, beyond which no   *)
(* comparison of the code tells two of them apart.                         *)
(***************************************************************************)
EXTENDS Integers

CONSTANTS
    Gaps,       \* times between two runs of the monitor
    Horizon,    \* ages beyond this are not told apart
    Worst,      \* observations are 0 (best) .. Worst: grade, uptime, latency, errors
    Limit,      \* a windowed metric beyond Limit breaches its threshold
    Channels,   \* number of channels of the rule set
    MaxFaults,  \* bound on dispatches that die and channels that refuse
    None        \* no value, no prior run, no decision

Never == -1

Windowed == {"uptimeBelowPct", "latencyAboveMs", "errorRateAbove"}
Relative == {"gradeRegression", "attestationChange"}
SeverityRules == Windowed \cup {"gradeRegression"}
Obs   == 0 .. Worst
State == [firing : BOOLEAN, since : Never .. Horizon, value : Obs \cup {None}]
Verdicts == {None, "firing", "resolved"}
AlertDecision == [deliver : Verdicts, next : State]

ASSUME AlertAssumption ==
    /\ Gaps \subseteq Nat \ {0} /\ Horizon \in Nat
    /\ Worst \in Nat /\ Limit \in Nat
    /\ Channels \in Nat \ {0} /\ MaxFaults \in Nat
    /\ None \notin Int \cup {"firing", "resolved"} /\ None \notin AlertDecision

VARIABLES
    rule,      \* AlertRuleId
    opts,      \* the AlertRules of the monitor: debounce, renotify, resolveNotify
    obs,       \* this run's fact
    prior,     \* the fact of the prior run
    pc,        \* where the dispatch is
    state,     \* alert:{monitor}:{rule}, with the AGE of lastNotifiedAt
    decision,  \* AlertDecision
    left,      \* channels still to be called
    faults,    \* faults so far, bounded by MaxFaults
    quiet,     \* history: time since a dispatch last turned to its channels
    told,      \* history: what the last channel that accepted a call was told
    cleared,   \* history: the rule was seen clear since then
    standing,  \* history: the value of the last alert, None once it was resolved
    muted      \* history: the breach came back debounced by its own resolution

vars == <<rule, opts, obs, prior, pc, state, decision, left, faults, quiet, told, cleared,
          standing, muted>>
notices == <<standing, muted>>

initialAlertState == [firing |-> FALSE, since |-> Never, value |-> None]

Older(age, gap) == IF age = Never THEN Never
                   ELSE IF age + gap > Horizon THEN Horizon ELSE age + gap

Init ==
    /\ rule \in Windowed \cup Relative
    /\ opts \in [debounce : 0 .. Horizon, renotify : (0 .. Horizon) \cup {None},
                 resolveNotify : BOOLEAN]
    /\ obs = 0 /\ prior = None /\ pc = "idle"
    /\ state = initialAlertState /\ decision = None /\ left = 0 /\ faults = 0
    /\ quiet = Never /\ told = None /\ cleared = TRUE /\ standing = None /\ muted = FALSE

-----------------------------------------------------------------------------
(* evaluateAlertRules and decideAlert                                        *)

\* A windowed metric is held against its threshold; a grade and a verdict against the
\* prior run's, and never breached without one.
Breached ==
    \/ rule \in Windowed /\ obs > Limit
    \/ rule = "gradeRegression" /\ prior # None /\ obs > prior
    \/ rule = "attestationChange" /\ prior # None /\ obs # prior

Debounced == state.since # Never /\ state.since < opts.debounce

RenotifyDue == opts.renotify # None /\ state.since # Never /\ state.since >= opts.renotify

\* Slip: a breach that is as bad as the last alerted one counts as worse.
WorseningOrEqual == state.firing /\ rule \in SeverityRules /\ state.value # None /\ obs >= state.value

\* Slip: a metric that is bad when low is compared as one that is bad when high.
WorseningSwapped ==
    state.firing /\ rule \in SeverityRules /\ state.value # None /\ obs < state.value

Worsening == state.firing /\ rule \in SeverityRules /\ state.value # None /\ obs > state.value

\* Slip: a clear run resets the state.
KeepReset(firing) ==
    [deliver |-> None, next |-> IF firing THEN [state EXCEPT !.firing = TRUE] ELSE initialAlertState]

\* Nothing is delivered: the time and the value of the last notification stay.
Keep(firing) == [deliver |-> None, next |-> [state EXCEPT !.firing = firing]]

Fire    == [deliver |-> "firing", next |-> [firing |-> TRUE, since |-> 0, value |-> obs]]
Resolve == [deliver |-> "resolved", next |-> [state EXCEPT !.firing = FALSE, !.since = 0]]

decideAlert ==
    IF Breached
    THEN IF (~state.firing \/ RenotifyDue \/ Worsening) /\ ~Debounced THEN Fire ELSE Keep(TRUE)
    ELSE IF state.firing /\ opts.resolveNotify /\ ~Debounced THEN Resolve ELSE Keep(FALSE)

-----------------------------------------------------------------------------
(* One run of the monitor: AlertDispatcher.dispatch                          *)

\* A run ends and its dispatch starts; the run before it is the prior one.
Run(gap, o) ==
    /\ pc = "idle" /\ pc' = "get"
    /\ obs' = o
    /\ state' = [state EXCEPT !.since = Older(state.since, gap)]
    /\ quiet' = Older(quiet, gap)
    /\ UNCHANGED <<rule, opts, prior, decision, left, faults, told, cleared, notices>>

\* store.get, and the decision over what it returned
Decide ==
    /\ pc = "get" /\ pc' = "put"
    /\ decision' = decideAlert
    /\ cleared' = (cleared \/ ~Breached)
    /\ UNCHANGED <<rule, opts, obs, prior, state, left, faults, quiet, told, notices>>

\* The dispatch is over: its run is the next one's prior.
Done == pc' = "idle" /\ prior' = obs /\ decision' = None /\ left' = 0

\* store.put comes before any delivery.
Store ==
    /\ pc = "put"
    /\ state' = decision.next
    /\ IF decision.deliver = None
       THEN Done /\ UNCHANGED <<quiet, cleared>>
       ELSE /\ pc' = "deliver" /\ left' = Channels
            /\ quiet' = 0 /\ cleared' = (decision.deliver = "resolved")
            /\ UNCHANGED <<prior, decision>>
    /\ standing' = CASE decision.deliver = "firing" -> obs
                     [] decision.deliver = "resolved" -> None
                     [] OTHER -> standing
    /\ muted' = (/\ decision.deliver = None /\ decision.next.firing
                 /\ muted \/ (~state.firing /\ standing = None /\ Debounced))
    /\ UNCHANGED <<rule, opts, obs, faults, told>>

\* Slip: the loop calls one channel too many.
DeliverOneMore(ok) ==
    /\ pc = "deliver"
    /\ IF ok THEN told' = decision.deliver /\ UNCHANGED faults
       ELSE UNCHANGED told /\ faults < MaxFaults /\ faults' = faults + 1
    /\ IF left < 0 THEN Done
       ELSE left' = left - 1 /\ UNCHANGED <<pc, prior, decision>>
    /\ UNCHANGED <<rule, opts, obs, state, quiet, cleared, notices>>

\* deliver, one channel: an answer, or a refusal that is only reported.
Deliver(ok) ==
    /\ pc = "deliver"
    /\ IF ok THEN told' = decision.deliver /\ UNCHANGED faults
       ELSE UNCHANGED told /\ faults < MaxFaults /\ faults' = faults + 1
    /\ IF left = 1 THEN Done
       ELSE left' = left - 1 /\ UNCHANGED <<pc, prior, decision>>
    /\ UNCHANGED <<rule, opts, obs, state, quiet, cleared, notices>>

\* A KV call throws (dispatch is given up, the tick goes on) or the tick dies.
Fail ==
    /\ pc # "idle" /\ Done
    /\ faults < MaxFaults /\ faults' = faults + 1
    /\ UNCHANGED <<rule, opts, obs, state, quiet, told, cleared, notices>>

Dispatch == Decide \/ Store \/ \E ok \in BOOLEAN : Deliver(ok)

Next == (\E gap \in Gaps, o \in Obs : Run(gap, o)) \/ Dispatch \/ Fail

Spec == Init /\ [][Next]_vars

\* The cron keeps running the monitor and an await that settled is resumed.
FairSpec == Spec /\ WF_vars(\E gap \in Gaps, o \in Obs : Run(gap, o)) /\ WF_vars(Dispatch)

-----------------------------------------------------------------------------
\* Every variable has its type, and a dispatch that delivers has decided to.
TypeOK ==
    /\ rule \in Windowed \cup Relative
    /\ opts \in [debounce : 0 .. Horizon, renotify : (0 .. Horizon) \cup {None},
                 resolveNotify : BOOLEAN]
    /\ obs \in Obs /\ prior \in Obs \cup {None}
    /\ pc \in {"idle", "get", "put", "deliver"}
    /\ state \in State
    /\ decision \in AlertDecision \cup {None}
    /\ pc \in {"put", "deliver"} => decision # None
    /\ pc = "deliver" => left # 0
    /\ left \in 0 .. Channels /\ faults \in Nat /\ cleared \in BOOLEAN
    /\ quiet \in Never .. Horizon /\ told \in Verdicts
    /\ standing \in Obs \cup {None} /\ muted \in BOOLEAN

\* The receiver's view of the debounce: NotificationGate, driven by the runs and by the
\* dispatches that call the channels, whatever fails in between.
Gate == INSTANCE NotificationGate WITH debounce <- opts.debounce
ImplementsGate == Gate!Spec

\* A firing notification is news: the rule was clear since the last one, or the breach is
\* strictly worse than the one last alerted, or renotifyMs has passed; a persisting breach
\* is alerted once.
OnlyNewsIsAlerted ==
    [][pc = "put" /\ pc' = "deliver" /\ decision.deliver = "firing" =>
          \/ quiet = Never \/ cleared
          \/ opts.renotify # None /\ quiet >= opts.renotify
          \/ rule \in SeverityRules /\ decision.next.value > state.value]_vars

\* A windowed metric that settles at a breached level ends up alerted at that level or a
\* worse one, by an alert that no resolved notification has taken back: a breach that worsens
\* or returns inside the debounce window is alerted after it.  The one exception is the code's:
\* a breach that returns, no worse than it was, inside the debounce time of its own resolved
\* notification is stored as firing, and is announced by a renotification or not at all.
SettledBreachIsAlerted ==
    \A v \in Obs : v > Limit /\ rule \in Windowed /\ <>[](obs = v) =>
        \/ <>[](standing # None /\ standing >= v)
        \/ <>[](muted /\ opts.renotify = None /\ state.value >= v)

\* With resolveNotify and channels that answer, a rule that is clear at a run outside the
\* debounce window does not stay announced as firing.
ClearIsResolved ==
    pc = "put" /\ ~decision.next.firing /\ decision.deliver = None
    /\ opts.resolveNotify /\ faults = 0 /\ quiet >= opts.debounce => told # "firing"
=============================================================================
