---------------------------- MODULE MCThreadPool ----------------------------
(* Instances of ThreadPool for TLC.                                        *)
EXTENDS ThreadPool, TLC

CONSTANTS j1, j2, j3, j4, a1, a2

ThreeJobs == {j1, j2, j3}
FourJobs == {j1, j2, j3, j4}
OneAdder == {a1}
TwoAdders == {a1, a2}
OneForever == {j1}
TwoForever == {j1, j2}

\* Adders differ in nothing but their names.
AdderSymmetry == Permutations(TwoAdders)

=============================================================================
