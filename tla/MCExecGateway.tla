---------------------------- MODULE MCExecGateway ----------------------------
EXTENDS ExecGateway

CONSTANTS r1, r2, r3

ThreeOfTwo   == {<<r1, 1>>, <<r1, 2>>, <<r2, 1>>}
OneOfThree   == {<<r1, 1>>, <<r2, 1>>, <<r3, 1>>}
SecondOfTwo  == {<<r1, 2>>}
OneOfTwo     == {<<r1, 1>>, <<r2, 1>>}
Symmetry == Permutations(Runs)
=============================================================================
