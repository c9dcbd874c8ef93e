------------------------------ MODULE MCPorts ------------------------------
(* Two tasks that come and go beside task 0 in the root's ring.             *)
EXTENDS Ports

CONSTANTS t0, t1, t2, top

RingQuantum == [n \in Node |-> 1]
RingHome == [n \in Node |-> IF n \in {top, t0} THEN {} ELSE {top}]
=============================================================================
