---------------------------- MODULE MCThreadPool ----------------------------
(* A small instance of PoolObserver, which is ThreadPool watched, for TLC. *)
EXTENDS PoolObserver

CONSTANTS w1, w2, c1

MCWorkers == {w1, w2}
MCCallers == {c1}
=============================================================================
