--------------------------- MODULE NotificationGate ---------------------------
(***************************************************************************)
(* What the debounce of alerts.ts promises the receiver of a rule's alerts:*)
(* two notifications of one rule are at least the rule's debounce apart,   *)
(* whatever the target does in between.                                    *)
(***************************************************************************)
EXTENDS Integers

CONSTANTS
    Gaps,    \* times between two runs of the monitor
    Horizon  \* ages beyond this are not told apart

VARIABLES
    debounce,  \* AlertRules.debounceMs
    quiet      \* time since the last notification, Never before the first

Never == -1

Older(age, gap) == IF age = Never THEN Never
                   ELSE IF age + gap > Horizon THEN Horizon ELSE age + gap

Init == debounce \in 0 .. Horizon /\ quiet = Never

Wait(gap) == quiet' = Older(quiet, gap) /\ UNCHANGED debounce

Notify ==
    /\ quiet = Never \/ quiet >= debounce
    /\ quiet' = 0
    /\ UNCHANGED debounce

Next == Notify \/ \E gap \in Gaps : Wait(gap)

Spec == Init /\ [][Next]_<<debounce, quiet>>
=============================================================================
