------------------------------- MODULE Win32 -------------------------------
(***************************************************************************)
(* The Win32 port (arch/win32.rs): tasks are threads, and a tick thread    *)
(* that holds the kernel lock suspends the running one and resumes the     *)
(* next.  Between its wake-up and the lock the running task goes on.       *)
(***************************************************************************)
EXTENDS PortCore

\* SuspendThread and ResumeThread, on the suspend count.
Suspended(c) == IF c = "Live" THEN "Saved" ELSE "Twice"
Resumed(c) == IF c = "Twice" THEN "Saved" ELSE "Live"

\* WaitForMultipleObjects: the timer first; either object is auto-reset.
win32_wait ==
  /\ arch = "Win32" /\ at = "Task" /\ (kick \/ due)
  /\ at' = "Woken"
  /\ cause' = IF due THEN "Timer" ELSE "Soft"
  /\ due' = FALSE
  /\ kick' = (kick /\ due)
  /\ UNCHANGED <<tree, build, cpu, ctx, handles, shutdown>>

\* The process ends from the tick thread.
finish_shutdown == at' = "Ended"

\* critical_enter, and the end if that was asked for.
win32_lock_deaf ==
  /\ arch = "Win32" /\ at = "Woken" /\ at' = "Cause"
  /\ UNCHANGED <<tree, build, cpu, ctx, kick, due, cause, handles, shutdown>>
win32_lock ==
  /\ arch = "Win32" /\ at = "Woken"
  /\ IF shutdown THEN finish_shutdown ELSE at' = "Cause"
  /\ UNCHANGED <<tree, build, cpu, ctx, kick, due, cause, handles, shutdown>>

win32_tick_on_kick ==
  /\ arch = "Win32" /\ at = "Cause" /\ at' = "Reclaim"
  /\ IF cause = "Soft" THEN on_tick ELSE UNCHANGED tree
  /\ UNCHANGED <<build, cpu, ctx, kick, due, cause, handles, shutdown>>
win32_tick ==
  /\ arch = "Win32" /\ at = "Cause" /\ at' = "Reclaim"
  /\ IF cause = "Timer" THEN on_tick ELSE UNCHANGED tree
  /\ UNCHANGED <<build, cpu, ctx, kick, due, cause, handles, shutdown>>

\* is_pinned: RUNNING_TCB is kept back.
Unpinned_none == pending
Unpinned == pending \ {cpu}

\* reclaim_finished_tasks and on_task_reclaimed, which closes the handle.
win32_reclaim ==
  /\ arch = "Win32" /\ at = "Reclaim" /\ at' = "Choose"
  /\ Reclaims(Unpinned)
  /\ handles' = handles \ Unpinned
  /\ UNCHANGED <<build, cpu, kick, due, cause, shutdown>>

\* suspend_and_maybe_close(prev): a dead thread's handle is given up.
suspend_and_maybe_close_skips(prev, next) ==
  /\ ctx' = [l \in Leaf |-> IF l = next THEN Resumed(ctx[l]) ELSE ctx[l]]
  /\ UNCHANGED handles
suspend_and_maybe_close(prev, next) ==
  /\ ctx' = [l \in Leaf |-> CASE l = next -> Resumed(ctx[l])
                              [] l # next /\ l = prev -> Suspended(ctx[l])
                              [] OTHER -> ctx[l]]
  /\ handles' = handles \ (IF prev # next /\ prev \in Leaf /\ state[prev] = "Dead"
                           THEN {prev} ELSE {})

\* The swap of RUNNING_TCB.  With nothing runnable the process ends, or no
\* task runs until the next tick.
win32_switch ==
  \E pick \in Picks :
    LET next == pick.leaf
    IN  /\ arch = "Win32" /\ at = "Choose"
        /\ schedule_next(pick, {})
        /\ IF next = Null /\ exits
           THEN finish_shutdown /\ UNCHANGED <<cpu, ctx, handles, due>>
           ELSE /\ at' = "Task"
                /\ cpu' = next
                /\ suspend_and_maybe_close(cpu, next)
                /\ rearm_timer
        /\ cause' = "None"
        /\ UNCHANGED <<build, kick, shutdown>>

Win32Next == win32_wait \/ win32_lock \/ win32_tick \/ win32_reclaim \/ win32_switch
=============================================================================
