------------------------------- MODULE Xtensa -------------------------------
(***************************************************************************)
(* The Xtensa port (arch/xtensa.rs): a level-1 interrupt serves the timer  *)
(* and the kick together, and with nothing to run it goes back to the      *)
(* interrupted task, whatever state that task is in.                       *)
(***************************************************************************)
EXTENDS PortCore

\* xtensa_exception_handler: a2 and a3 hold EXCCAUSE and a constant by the
\* time the frame is written.
xtensa_exception_handler == arch = "Xtensa" /\ Enter("None", "Torn")

\* Nothing else drops the request.
clear_software_interrupt == kick' = FALSE

\* rrkernel_trap_switch up to schedule_next.
xtensa_trap_pending ==
  /\ arch = "Xtensa" /\ at = "Cause" /\ at' = "Choose"
  /\ IF due THEN on_tick ELSE UNCHANGED tree
  /\ cause' = IF due THEN "Timer" ELSE "None"
  /\ clear_software_interrupt
  /\ UNCHANGED <<build, cpu, ctx, due, handles, shutdown>>

\* ... schedule_next.  The interrupted frame is the one restored when there
\* is no next task, and a tick already counted re-arms the timer.
xtensa_trap_switch ==
  /\ arch = "Xtensa"
  /\ \E pick \in Picks :
       /\ SwitchStacks(pick, "After")
       /\ due' = IF pick.leaf = Null /\ cause = "Timer" THEN FALSE ELSE due
  /\ UNCHANGED <<build, kick, cause, handles, shutdown>>

\* rrkernel_after_switch and the restore, on the incoming stack or, at label
\* .Lxt_noswitch, still on the interrupted one.
xtensa_after_switch ==
  /\ arch = "Xtensa" /\ at = "After"
  /\ IF pending = {} THEN UNCHANGED tree ELSE reclaim_finished_tasks(pending)
  /\ ctx' = [l \in Leaf |-> IF l \in pending THEN "None"
                            ELSE IF l = cpu THEN "Live" ELSE ctx[l]]
  /\ rearm_timer /\ at' = "Task" /\ cause' = "None"
  /\ UNCHANGED <<build, cpu, kick, handles, shutdown>>

XtensaNext ==
  \/ xtensa_exception_handler \/ xtensa_trap_pending
  \/ xtensa_trap_switch \/ xtensa_after_switch
=============================================================================
