------------------------------ MODULE RunHistory ------------------------------
(***************************************************************************)
(* The run history of a monitor, runs:{id}.  MonitorStore.appendRun reads  *)
(* it, appends and writes it back with nothing that keeps two ticks apart; *)
(* what does is the claim, which moves the slot on before the run starts.  *)
(* The steps are those of MonitorScheduler; `exposed' only watches them,   *)
(* for what undoes the claim's protection while a run lasts: the monitor   *)
(* is due again, because it was registered anew, because the catch of an   *)
(* older tick wrote an earlier slot, or because the run outlasts the       *)
(* interval.                                                               *)
(***************************************************************************)
EXTENDS MonitorScheduler

VARIABLE exposed  \* history: monitors that fell due again while a run of theirs lasted

historyVars == <<vars, exposed>>

InRun(m)  == \E t \in Ticks : pc[t] \in Claimed /\ tick[t].cur[1] = m
DueNow(m) == rec[m] # None /\ rec[m].due <= now

\* A monitor stays exposed until the last of its overlapping runs is over.
Watch == exposed' = {m \in Monitors : InRun(m)' /\ (m \in exposed \/ DueNow(m)')}

HistoryInit == Init /\ exposed = {}

HistoryNext == Next /\ Watch

HistorySpec == HistoryInit /\ [][HistoryNext]_historyVars

Appends(t) == pc[t] = "append" /\ pc'[t] = "record"

\* The run history is a log: appendRun, which reads it in one step and writes it in another,
\* adds its run and loses none but the oldest beyond the cap, whatever other ticks,
\* registrations, failures and crashes do in between, unless the monitor fell due again while
\* a run of it lasted.
HistoryLosesNoRun ==
    [][\A m \in Monitors \ exposed :
         LET appending == {t \in Ticks : Appends(t) /\ tick[t].cur[1] = m}
         IN  /\ runs'[m] # runs[m] => appending # {}
             /\ \A t \in appending :
                   runs'[m] = Bounded(Append(runs[m], tick[t].at))]_historyVars

=============================================================================
