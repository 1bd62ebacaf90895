------------------------------ MODULE MCLogger ------------------------------
(* Instances of the logger; the threads are interchangeable.                  *)
EXTENDS Logger, TLC

CONSTANTS t1, t2, t3, f1

MCThread == {t1, t2, t3}
Symmetry == Permutations(MCThread)
=============================================================================
