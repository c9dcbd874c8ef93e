------------------------------- MODULE Ports -------------------------------
(***************************************************************************)
(* The kernel on any one of its ports other than Cortex-M: task code, the  *)
(* slice timer and the port's handler.                                     *)
(***************************************************************************)
EXTENDS RiscV, ArmAR, Xtensa, Posix, Win32

Calls == Spawns \/ FailsToSpawn \/ TaskBlocks \/ Wakes \/ TaskExits \/ Shutdown

Handler == RiscVNext \/ ArmNext \/ XtensaNext \/ PosixNext \/ Win32Next

PortsNext == Calls \/ ExitKicks \/ TimerExpires \/ Handler

PortsSpec == PortInit /\ [][PortsNext]_vars

-----------------------------------------------------------------------------
\* Every variable keeps its type.
PortsTypeOK ==
  /\ TreeTypeOK
  /\ arch \in Archs /\ at \in Phases /\ cpu \in Leaf \cup {Null}
  /\ ctx \in [Leaf -> Contexts]
  /\ {kick, due, shutdown, exits} \subseteq BOOLEAN
  /\ cause \in {"None", "Soft", "Timer"} /\ handles \subseteq Leaf

\* The frame a switch restores.  Xtensa has lost two registers of it.
Resumable == IF arch = "Xtensa" THEN {"Entry", "Saved", "Torn"} ELSE {"Entry", "Saved"}

\* Every live task that is not on the CPU has a context a switch can restore,
\* and it is the one of the task's last switch away; this is what adopt_
\* current_task relies on when it leaves task 0's sp null.
OthersSaved ==
  \A l \in Leaf : state[l] \in Live /\ l # cpu => ctx[l] \in Resumable

\* The task on the CPU is KERNEL.current, or it has exited and nothing is
\* current, or (Win32) nothing runs at all.
CpuIsCurrent ==
  at \in {"Task", "Woken"} =>
    \/ cpu = current /\ cpu # Null /\ ctx[cpu] = "Live"
    \/ cpu # Null /\ current = Null /\ state[cpu] \in {"Dead", "Free"}
    \/ cpu = Null /\ arch = "Win32" /\ (current = Null \/ ctx[current] # "Live")

\* No port gives back the stack or the thread its handler or its task is
\* standing on.  (Xtensa does, when the last runnable task has exited.)
StackNotReclaimed == arch # "Xtensa" /\ cpu # Null => state[cpu] # "Free"

\* A blocked task loses the CPU: where parks_synchronously() is true by the
\* time its critical section is over, on Win32 when the tick thread has seen
\* its request.  (Xtensa and POSIX go back to it when no other can run.)
BlockedIsParked ==
  arch \in {"RiscV", "Arm", "Win32"} /\ at = "Task" /\ cpu \in Leaf /\ state[cpu] = "Blocked"
    => kick

\* The code that executes is the code the kernel takes to be executing, and it
\* is code that may execute.
RightCodeRuns == PortsTypeOK /\ CpuIsCurrent /\ BlockedIsParked

\* Win32: exactly one thread is resumed, that of RUNNING_TCB, and none is
\* ever suspended twice (one ResumeThread would not get it going again).
OneThreadRuns ==
  arch = "Win32" /\ at # "Ended" =>
    \A l \in Leaf : /\ ctx[l] = "Live" => l = cpu
                    /\ ctx[l] # "Twice"

\* Win32: a task keeps its thread handle while it lives, and no handle is
\* left open once its TCB is back in the arena.
HandlesFollowTasks ==
  arch = "Win32" =>
    \A l \in Leaf : /\ state[l] \in Live => l \in handles
                    /\ l \in handles => state[l] # "Free"

\* Win32: threads and their handles follow the tasks.
ThreadsFollowTasks == OneThreadRuns /\ HandlesFollowTasks

\* A wait never gets shorter without the slice timer having expired: a
\* requested switch is not a tick.  (On ARM it is one.  A task that executes
\* although it is blocked, which three ports allow, may begin a shorter wait.)
KicksDoNotTick ==
  [][arch # "Arm" /\ (\E l \in Leaf : ~Executes(l) /\ state[l] = "Blocked"
                                   /\ togo[l] > 0 /\ togo'[l] = togo[l] - 1) =>
       due \/ cause = "Timer"]_vars

-----------------------------------------------------------------------------
(* Fairness: a slice is longer than the handler (plan_timer sees to that),  *)
(* so the timer keeps expiring outside it; exit_task reaches               *)
(* request_switch; the handler is entered when something is pending and    *)
(* leaves each of its phases.  The last two are the weak fairness of       *)
(* actions that are enabled exactly when P holds and always falsify it,    *)
(* for each []<>~P.  Nothing is assumed of task code except that at some   *)
(* point it makes no more kernel calls: each that kicks restarts the slice. *)
Fairness ==
  /\ []<>(at = "Ended" \/ (due /\ at \in {"Task", "Idle"}))
  /\ WF_vars(ExitKicks)
  /\ \A here \in {"Task", "Idle"} : []<>~(at = here /\ (kick \/ due))
  /\ \A here \in {"Woken", "Cause", "Reclaim", "Choose", "After"} : []<>(at # here)

BusySpec == PortsSpec /\ Fairness /\ <>[][~Calls]_vars

\* Every runnable task gets the CPU, unless the system is shut down.
ReadyRuns ==
  \A l \in Leaf : (state[l] \in {"Ready", "Running"}) ~> (cpu = l \/ at = "Ended")

Waiting(l) == state[l] = "Blocked" /\ togo[l] # Never

\* A task in a bounded wait gets the CPU again.  RISC-V is left out: see
\* SleeperRuns.
SleeperReturns ==
  \A l \in Leaf : (arch # "RiscV" /\ Waiting(l)) ~> ((cpu = l /\ ~Waiting(l)) \/ at = "Ended")

\* Nobody starves: not the ready, not those whose wait is bounded.
NoneStarves == ReadyRuns /\ SleeperReturns

\* A task in a bounded wait gets the CPU again on every port.
SleeperRuns == \A l \in Leaf : Waiting(l) ~> ((cpu = l /\ ~Waiting(l)) \/ at = "Ended")

\* scheduler::shutdown ends the program, on Win32 through the tick thread.
ShutdownEnds == shutdown ~> (at = "Ended")
=============================================================================
