------------------------- MODULE MCMonitorScheduler -------------------------
(* Instances of MonitorScheduler for TLC.                                    *)
EXTENDS MonitorScheduler, TLC

CONSTANTS m1, m2, t1, t2, c1, c2, h1, self

HostsOfTwo == (m1 :> h1) @@ (m2 :> self)
HostsOfOne == m2 :> self

Symmetry == Permutations(Ticks)
ClientSymmetry == Permutations(Clients)
=============================================================================
