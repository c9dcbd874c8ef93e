------------------------------ MODULE MCTiming ------------------------------
(* A second of 27 ns, and slices at and around every limit.                 *)
EXTENDS Timing, TLC

CONSTANTS s1, s2

Asked == [kind : {"Nanos"}, n : {1, 5, 9, 45, 200}]
           \cup [kind : {"Micros", "Millis"}, n : {2}]
           \cup [kind : {"Hertz"}, n : {0, 4}]
           \cup [kind : {"Cycles"}, n : {0, 1, 7, 40}]
           \cup {[kind |-> "Default", n |-> 0]}

\* From a nanosecond to more ticks than the clock has; 29 ms are more than U64 ns.
Lengths == {1, 7, 26, 27, 100, 255, 256, 600, 70000}
Millis == {1, 3, 28, 29, 255}
Nows == {0, 1, 128, 254, 255}

Symmetry == Permutations({s1, s2})
=============================================================================
