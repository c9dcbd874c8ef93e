------------------------------ MODULE MCCortexM ------------------------------
(* Small trees for TLC: which nodes exist, their quanta, and where each may *)
(* be spawned.                                                              *)
EXTENDS CortexM

CONSTANTS t0, t1, t2, top, grp

(* One group next to task 0, its two-tick window over a one-tick and a      *)
(* two-tick child: the window closes both between and inside their turns.   *)
TreeQuantum == [n \in Node |-> IF n \in {grp, t2} THEN 2 ELSE 1]
TreeHome == [n \in Node |-> CASE n \in {top, t0} -> {} [] n = grp -> {top} [] OTHER -> {grp}]
=============================================================================
