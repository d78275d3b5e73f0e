------------------------------- MODULE MC_Bridge -------------------------------
(* Two processes and one restart: enough for a crash, a stale file, a pid  *)
(* that is used again, and two starts that meet.  The bridges are of two   *)
(* kinds, with a lock path each and one project between them.              *)
EXTENDS Bridge

CONSTANTS k1, k2, x1

TwoKinds == {[lock |-> k1, project |-> x1, http |-> TRUE],
             [lock |-> k2, project |-> x1, http |-> FALSE]}
===============================================================================
