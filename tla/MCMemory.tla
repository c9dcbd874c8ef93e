------------------------------ MODULE MCMemory ------------------------------
(* Two tasks and a group that come and go beside task 0.                    *)
EXTENDS Memory, TLC

CONSTANTS a, b, g

\* In words of 4 bytes, of 8 on POSIX; the floors and frames scaled down.
MCAlign == [CortexM |-> 2, RiscV |-> 4, Arm |-> 2, Xtensa |-> 4, Posix |-> 2]
MCFloor == [CortexM |-> 6, RiscV |-> 6, Arm |-> 7, Xtensa |-> 8, Posix |-> 8]
MCFrame == [CortexM |-> 4, RiscV |-> 4, Arm |-> 6, Xtensa |-> 4, Posix |-> 5]

\* A u64 takes two words of the 32-bit ports.  The smaller closure's block is
\* as large as a TCB, the other's as aligned as a stack; Win32, which has no
\* stacks to fill the region with, gets larger TCBs.
MCTcbSize == [CortexM |-> 3, RiscV |-> 3, Arm |-> 3, Xtensa |-> 3, Posix |-> 3, Win32 |-> 9]
MCTcbAlign == [CortexM |-> 2, RiscV |-> 2, Arm |-> 2, Xtensa |-> 2, Posix |-> 1, Win32 |-> 1]
MCClosures == {[size |-> 0, align |-> 1], [size |-> 0, align |-> 2]}

Symmetry == Permutations({a, b})
=============================================================================
