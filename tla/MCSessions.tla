----------------------------- MODULE MCSessions -----------------------------
(* Two tabs of one browser; the tabs are interchangeable.                  *)
EXTENDS Sessions, TLC

CONSTANTS t1, t2

TabSymmetry == Permutations(Tabs)
=============================================================================
