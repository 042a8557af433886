---------------------------- MODULE MCFramework ----------------------------
(* Constant values and symmetry for the runs of Framework. *)
EXTENDS Framework, TLC

CONSTANTS t1, t2, h1, h2, logger, a1, a2, a3, c1, c2

TwoThreads == {t1, t2}
OneHandle  == {h1}
TwoHandles == {h1, h2}
ThreeAddrs == {a1, a2, a3}
TwoConns   == {c1, c2}
OneLogger  == {logger}

AllSymmetry == Permutations(TwoThreads) \cup Permutations(Handles)
               \cup Permutations(Addrs) \cup Permutations(Conns)
=============================================================================
