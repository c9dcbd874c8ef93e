------------------------------- MODULE CortexM -------------------------------
(***************************************************************************)
(* The scheduling tree driven by the Cortex-M port (arch/cortex_m.rs):     *)
(* SysTick calls on_tick and pends PendSV, PendSV reclaims, schedules and  *)
(* restarts the slice counter, or waits in the handler when nothing is     *)
(* runnable; tasks and device interrupts call the kernel in between.       *)
(*                                                                         *)
(* Critical sections mask interrupts, so each is one step.  PendSV has the *)
(* lowest priority: interrupts may come before it, task code may not.      *)
(***************************************************************************)
EXTENDS SchedTree

CONSTANTS
  Period,      \* timer cycles per slice
  CanYield     \* whether tasks call yield_now

ASSUME PortAssumption ==
  /\ Period \in Nat \ {0} /\ CanYield \in BOOLEAN
  /\ Leaf \cap {"Idling", "Asleep", "Awake"} = {}

VARIABLES
  cpu,     \* the task whose code executes, or where the idle loop is
  pend,    \* PENDSVSET is up
  phase    \* timer cycles since the counter was last restarted

port == <<cpu, pend, phase>>
vars == <<tree, port>>

\* The idle loop of PendSV: called but not asleep yet; in wfi; past wfi.
Idling == "Idling"
Asleep == "Asleep"
Awake  == "Awake"
IdleLoop == {Idling, Asleep, Awake}

\* A task's code is executing and nothing is about to take the CPU from it.
Executes(l) == cpu = l /\ ~pend /\ state[l] # "Dead"

\* Any interrupt ends wfi.
Interrupted == IF cpu = Asleep THEN Awake ELSE cpu

-----------------------------------------------------------------------------
PortInit == Init /\ cpu = Main /\ pend = FALSE /\ phase = 0

\* The counter counts down towards the next tick.
TimerRuns ==
  /\ phase < Period - 1
  /\ phase' = phase + 1
  /\ UNCHANGED <<tree, cpu, pend>>

SysTick ==
  /\ phase = Period - 1
  /\ on_tick
  /\ pend' = TRUE
  /\ cpu' = Interrupted
  /\ phase' = 0

\* is_pinned is false for every task of this port.
Reclaimable == pending

\* rrkernel_schedule_next and what the assembly does with its result.
Dispatch ==
  LET pick == PickNextLeaf(LinkedCurrent)
  IN  /\ schedule_next(pick, Reclaimable)
      /\ cpu' = IF pick.leaf = Null THEN Idling ELSE pick.leaf
      /\ phase' = IF pick.leaf = Null THEN phase ELSE 0

\* Exception entry clears the pending bit.
PendSV ==
  /\ pend /\ cpu \notin IdleLoop
  /\ Dispatch
  /\ pend' = FALSE

\* The idle loop schedules again inside the handler: a request raised
\* meanwhile stays pending and is taken on return.
IdleResched ==
  /\ cpu = Awake
  /\ Dispatch
  /\ UNCHANGED pend

\* rrkernel_idle_wait: drop the request, then wfi.
IdleWait ==
  /\ cpu = Idling
  /\ cpu' = Asleep
  /\ pend' = FALSE
  /\ UNCHANGED <<tree, phase>>

-----------------------------------------------------------------------------
(* Task code and device interrupts *)

\* A spawn, from task code or from an interrupt.  That of a leaf kicks the
\* switch path, that of a group does not.
Spawns ==
  \E n \in Node, g \in Group :
    /\ Spawn(n, g)
    /\ pend' = (pend \/ n \in Leaf)
    /\ cpu' = Interrupted
    /\ UNCHANGED phase

FailsToSpawn == SpawnFails /\ cpu' = Interrupted /\ UNCHANGED <<pend, phase>>

TaskBlocks ==
  \E l \in Leaf, r \in Resource \cup {Null}, t \in Sleeps \cup {Never} :
    /\ Executes(l)
    /\ r = Null => t # Never
    /\ mark_blocked_locked(r, t)
    /\ pend' = TRUE
    /\ UNCHANGED <<cpu, phase>>

TaskYields ==
  /\ CanYield
  /\ \E l \in Leaf : Executes(l)
  /\ pend' = TRUE
  /\ UNCHANGED <<tree, cpu, phase>>

TaskExits ==
  \E l \in Leaf : Executes(l) /\ exit_task(l) /\ UNCHANGED port

\* exit_task after its section: request_switch, then wfi for ever.
ExitKicks ==
  /\ cpu \in Leaf /\ state[cpu] = "Dead" /\ ~pend
  /\ pend' = TRUE
  /\ UNCHANGED <<tree, cpu, phase>>

\* Wakes come from task code and from device interrupts alike; none of them
\* requests a switch.
WakesTask ==
  \E n \in Leaf : wake_task(n) /\ cpu' = Interrupted /\ UNCHANGED <<pend, phase>>

WakesAll ==
  \E r \in Resource : wake_blocked_on(r) /\ cpu' = Interrupted /\ UNCHANGED <<pend, phase>>

WakesFirst ==
  \E r \in Resource : wake_first_blocked_on(r) /\ cpu' = Interrupted /\ UNCHANGED <<pend, phase>>

PortNext ==
  \/ TimerRuns \/ SysTick \/ PendSV \/ IdleResched \/ IdleWait
  \/ Spawns \/ FailsToSpawn \/ TaskBlocks \/ TaskYields
  \/ TaskExits \/ ExitKicks \/ WakesTask \/ WakesAll \/ WakesFirst

PortSpec == PortInit /\ [][PortNext]_vars

-----------------------------------------------------------------------------
\* Every variable keeps its type.
TypeOK ==
  /\ TreeTypeOK
  /\ cpu \in Leaf \cup IdleLoop /\ pend \in BOOLEAN /\ phase \in 0..Period - 1

\* The code that executes belongs to KERNEL.current, and unless a switch is
\* pending that task is neither blocked nor dead; the one exception is a task
\* between exit_task and its last switch, whose TCB and stack are still there.
RunningIsRunnable ==
  cpu \in Leaf =>
    \/ state[cpu] = "Dead" /\ current = Null
    \/ cpu = current /\ cpu \in CanRun
    \/ cpu = current /\ state[cpu] = "Blocked" /\ pend

\* No task executes past its own quantum or past the window of any group it
\* is nested in.
QuantumLeft == \A l \in Leaf : Executes(l) => \A n \in Path(l) : rem[n] > 0

\* Once the tick on which a bounded wait ends has been handled, the waiter is
\* no longer blocked, at whatever depth it sits.
NoOverdueSleeper == \A n \in Leaf : state[n] = "Blocked" => togo[n] # 0

\* PendSV goes idle only when no task in the whole tree could run.
IdleOnlyWhenNothingRuns ==
  [][cpu' = Idling /\ cpu # Idling => \A l \in Leaf : state'[l] \notin {"Ready", "Running"}]_vars

-----------------------------------------------------------------------------
(* Fairness: the timer counts and its interrupt is taken, a pending PendSV  *)
(* is taken, the handler's loop runs on, and exit_task, once begun, reaches *)
(* its request_switch.  The three formulas []<>~P are the weak fairness of  *)
(* the action that is enabled exactly when P holds and always falsifies it. *)
(* Nothing is assumed of task code and device interrupts.                   *)
Fairness ==
  /\ WF_vars(TimerRuns) /\ WF_vars(SysTick) /\ WF_vars(ExitKicks)
  /\ []<>~(pend /\ cpu \notin IdleLoop)   \* PendSV
  /\ []<>~(cpu = Awake)                    \* IdleResched
  /\ []<>~(cpu = Idling)                   \* IdleWait

FairSpec == PortSpec /\ Fairness

\* The tasks of the program are all spawned at some point.  A chain of tasks
\* that each spawn a successor and exit would keep the CPU for itself: a new
\* child is linked right behind the cursor.
SpawnsEnd == <>[][~Spawns]_vars

\* The tasks stop waiting at some point and compute.
BlocksEnd == <>[][~TaskBlocks]_vars

SettledSpec == FairSpec /\ SpawnsEnd
BusySpec == SettledSpec /\ BlocksEnd

\* Every runnable task gets the CPU.
ReadyRuns == \A l \in Leaf : (state[l] \in {"Ready", "Running"}) ~> (cpu = l)

\* A task in a bounded wait gets the CPU again, even if no one wakes it.
SleeperRuns == \A l \in Leaf : (state[l] = "Blocked" /\ togo[l] # Never) ~> (cpu = l)
=============================================================================
