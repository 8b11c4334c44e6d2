---------------------------- MODULE MCThreadPool ----------------------------
(* A small instance of ThreadPool.  Liveness is checked, so no symmetry.   *)
EXTENDS ThreadPool, TLC

CONSTANTS w1, w2, w3, j1, j2, j3

MCWorker == {w1, w2, w3}
MCJob == {j1, j2, j3}
=============================================================================
