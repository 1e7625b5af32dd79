----------------------------- MODULE FetchLimiter -----------------------------
(***************************************************************************)
(* The FIFO semaphore of exec/runner.ts: createFetchLimiter at the parent  *)
(* gateway, and its copy in the entry of every suite isolate.              *)
(***************************************************************************)
EXTENDS Naturals, Sequences

CONSTANT MaxInFlight  \* EXEC_MAX_CONCURRENT_FETCHES

ASSUME MaxAssumption == MaxInFlight \in Nat \ {0}

NewLimiter == [inFlight |-> 0, waiters |-> <<>>]

HasSlot(l) == l.inFlight < MaxInFlight

Acquire(l, who) ==
    IF HasSlot(l) THEN [l EXCEPT !.inFlight = @ + 1]
                  ELSE [l EXCEPT !.waiters = Append(@, who)]

\* The first waiter, if there is one, takes the slot over: inFlight is unchanged.
Heir(l) == IF l.waiters = <<>> THEN {} ELSE {Head(l.waiters)}

\* Slip: the slot is handed over and given back too.
ReleaseTwice(l) ==
    [inFlight |-> l.inFlight - 1,
     waiters  |-> IF l.waiters = <<>> THEN <<>> ELSE Tail(l.waiters)]

Release(l) ==
    IF l.waiters = <<>> THEN [l EXCEPT !.inFlight = @ - 1]
                        ELSE [l EXCEPT !.waiters = Tail(@)]
=============================================================================
