------------------------------ MODULE PortCore ------------------------------
(***************************************************************************)
(* What the ports other than Cortex-M have in common: a task context saved *)
(* in memory or live on the CPU, a timer that expires, a software request  *)
(* to switch, and one handler that ticks, schedules, switches stacks and   *)
(* reclaims.  The handler runs with the tick masked (or holding the kernel *)
(* lock), so it is a sequence of phases that no task code interleaves with *)
(* but that the timer does.  Each port's own phases are in the modules     *)
(* RiscV, ArmAR, Xtensa, Posix and Win32; Ports puts them together.        *)
(***************************************************************************)
EXTENDS SchedTree

CONSTANT Archs    \* the ports the kernel may be built for

AllArchs == {"RiscV", "Arm", "Xtensa", "Posix", "Win32"}

ASSUME ArchAssumption == Archs \subseteq AllArchs

VARIABLES
  arch,      \* the port this kernel is built for
  at,        \* the phase of the port's handler, "Task" outside it
  cpu,       \* the task whose stack is in use; on Win32 RUNNING_TCB
  ctx,       \* where the context of each task is
  kick,      \* a requested switch is pending: msip, SGI 0, SIGALRM, KICK
  due,       \* the slice timer has expired and was not re-armed since
  cause,     \* why the handler was entered, where it keeps it
  handles,   \* Win32: the tasks whose backend holds an open thread handle
  shutdown,  \* KERNEL.shutdown
  exits      \* the idle policy is ExitWhenAllDead, which Win32 alone reads

port == <<arch, at, cpu, ctx, kick, due, cause, handles, shutdown, exits>>
build == <<arch, exits>>   \* fixed when the kernel starts
vars == <<tree, port>>

\* Woken: the Win32 tick thread, before it has the kernel lock.
Phases == {"Task", "Woken", "Cause", "Reclaim", "Choose", "After", "Idle", "Ended"}

\* Live: in the registers, the copy in memory stale or not there yet.
\* Entry: the frame create_task built.  Saved: the frame of the last switch
\* away.  Torn: that frame, some registers already overwritten.  Twice: a
\* thread suspended when it already was.
Contexts == {"None", "Live", "Entry", "Saved", "Torn", "Twice"}

PortInit ==
  /\ Init
  /\ arch \in Archs
  /\ at = "Task" /\ cpu = Main
  /\ ctx = [l \in Leaf |-> IF l = Main THEN "Live" ELSE "None"]
  /\ kick = FALSE /\ due = FALSE /\ cause = "None" /\ shutdown = FALSE
  /\ exits \in (IF arch = "Win32" THEN BOOLEAN ELSE {FALSE})
  /\ handles = IF arch = "Win32" THEN {Main} ELSE {}

-----------------------------------------------------------------------------
(* Task code.  A request to switch is taken before the next instruction of  *)
(* the task, except on Win32, where the tick thread has to get to it.       *)

Executes(l) ==
  /\ at \in {"Task", "Woken"} /\ cpu = l /\ state[l] \in Live
  /\ kick => arch = "Win32"

TaskRuns == \E l \in Leaf : Executes(l)

\* Ask for a switch as soon as interrupts, or the tick thread, allow it.
request_switch == kick' = TRUE

\* A full slice for whoever runs next.
rearm_timer == due' = FALSE

\* A frame that starts in the trampoline; on Win32 a suspended thread.
create_task(n) ==
  /\ ctx' = [ctx EXCEPT ![n] = "Entry"]
  /\ handles' = IF arch = "Win32" THEN handles \cup {n} ELSE handles

\* spawn_internal, which kicks the switch path, or spawn_group_node.
Spawns ==
  /\ TaskRuns
  /\ \E n \in Node, g \in Group :
       /\ Spawn(n, g)
       /\ IF n \in Leaf THEN create_task(n) /\ request_switch
                        ELSE UNCHANGED <<ctx, handles, kick>>
  /\ UNCHANGED <<build, at, cpu, due, cause, shutdown>>

\* create_task gets no stack from the arena, or no thread from the system.
FailsToSpawn == TaskRuns /\ SpawnFails /\ UNCHANGED port

TaskBlocks ==
  /\ TaskRuns
  /\ \E t \in Sleeps \cup {Never} : mark_blocked_locked(Null, t)
  /\ request_switch
  /\ UNCHANGED <<build, at, cpu, ctx, due, cause, handles, shutdown>>

Wakes ==
  /\ TaskRuns
  /\ \E n \in Leaf : wake_task(n)
  /\ UNCHANGED port

TaskExits == \E l \in Leaf : Executes(l) /\ exit_task(l) /\ UNCHANGED port

\* exit_task after its section: request_switch, then the port's loop.
ExitKicks ==
  /\ at \in {"Task", "Woken"} /\ cpu \in Leaf /\ state[cpu] = "Dead" /\ ~kick
  /\ request_switch
  /\ UNCHANGED <<tree, build, at, cpu, ctx, due, cause, handles, shutdown>>

\* The port's part of a shutdown: everything stops here, but on Win32 the
\* tick thread is asked to do it.
arch_shutdown ==
  IF arch = "Win32" THEN request_switch /\ UNCHANGED at
                    ELSE at' = "Ended" /\ UNCHANGED kick

\* scheduler::shutdown.  On Win32 the task may also go on, as after
\* request_shutdown.
Shutdown ==
  /\ TaskRuns /\ ~shutdown
  /\ shutdown' = TRUE
  /\ arch_shutdown
  /\ UNCHANGED <<tree, build, cpu, ctx, due, cause, handles>>

\* The slice is over.  On POSIX the timer speaks through the same signal as
\* a requested switch.
TimerExpires ==
  /\ ~due /\ at # "Ended"
  /\ due' = TRUE
  /\ kick' = (kick \/ arch = "Posix")
  /\ UNCHANGED <<tree, build, at, cpu, ctx, cause, handles, shutdown>>

-----------------------------------------------------------------------------
(* Pieces of the handlers *)

\* pick_next_leaf, which has one outcome.
Picks == {PickNextLeaf(LinkedCurrent)}

\* Publish sp into the current TCB, if there is one.
Publish(as) == ctx' = IF current = Null THEN ctx ELSE [ctx EXCEPT ![current] = as]

\* The trap is taken: the interrupted context goes to its own stack.
Enter(why, as) ==
  /\ at = "Task" /\ (kick \/ due)
  /\ at' = "Cause"
  /\ cause' = why
  /\ Publish(as)
  /\ UNCHANGED <<tree, build, cpu, kick, due, handles, shutdown>>

\* schedule_next: on to the incoming stack, or none(phase) when there is none.
SwitchStacks(pick, none) ==
  LET next == pick.leaf
  IN  /\ at = "Choose"
      /\ schedule_next(pick, {})
      /\ at' = IF next = Null THEN none ELSE "After"
      /\ cpu' = IF next = Null THEN cpu ELSE next
      /\ ctx' = IF next = Null THEN ctx ELSE [ctx EXCEPT ![next] = "Live"]

Reclaims(freed) ==
  /\ IF freed = {} THEN UNCHANGED tree ELSE reclaim_finished_tasks(freed)
  /\ ctx' = [l \in Leaf |-> IF l \in freed THEN "None" ELSE ctx[l]]

\* rrkernel_after_switch: reclaim, re-arm the slice timer, back to the task.
AfterSwitch ==
  /\ at = "After"
  /\ Reclaims(pending)
  /\ rearm_timer
  /\ at' = "Task" /\ cause' = "None"
  /\ UNCHANGED <<build, cpu, kick, handles, shutdown>>

\* wfi in the handler: anything pending ends it, and the loop looks again.
WaitInHandler ==
  /\ at = "Idle" /\ (kick \/ due)
  /\ at' = "Cause"
  /\ UNCHANGED <<tree, build, cpu, ctx, kick, due, cause, handles, shutdown>>
=============================================================================
