----------------------------- MODULE MCRunHistory -----------------------------
(* An instance of RunHistory for TLC.                                        *)
EXTENDS RunHistory, TLC

CONSTANTS m2, t1, t2, t3, c1, self

HostsOfOne == m2 :> self

Symmetry == Permutations(Ticks)
=============================================================================
