------------------------------- MODULE ArmAR -------------------------------
(***************************************************************************)
(* The ARM A/R port (arch/arm_ar.rs): one entry for IRQ and FIQ.  Whatever *)
(* the GIC hands out, the timer or the SGI of a requested switch, counts   *)
(* as a tick.                                                              *)
(***************************************************************************)
EXTENDS PortCore

\* rrkernel_irq_entry up to label 1.
arm_irq_entry_unpublished ==
  /\ arch = "Arm" /\ at = "Task" /\ (kick \/ due)
  /\ at' = "Cause"
  /\ UNCHANGED <<tree, build, cpu, ctx, cause, kick, due, handles, shutdown>>
arm_irq_entry == arch = "Arm" /\ Enter("None", "Saved")

\* Acknowledging takes a pending SGI; the timer's line stays up until it is
\* re-armed.
gic_acknowledge == kick' = FALSE

\* rrkernel_irq_switch up to schedule_next.
arm_irq_tick ==
  /\ arch = "Arm" /\ at = "Cause" /\ at' = "Choose"
  /\ on_tick /\ gic_acknowledge
  /\ UNCHANGED <<build, cpu, ctx, due, cause, handles, shutdown>>

arm_irq_switch ==
  /\ arch = "Arm"
  /\ \E pick \in Picks : SwitchStacks(pick, "Idle")
  /\ UNCHANGED <<build, kick, due, cause, handles, shutdown>>

arm_after_switch == arch = "Arm" /\ AfterSwitch

\* Label 4: wfi, then back to label 1.
arm_idle == arch = "Arm" /\ WaitInHandler

ArmNext ==
  arm_irq_entry \/ arm_irq_tick \/ arm_irq_switch \/ arm_after_switch \/ arm_idle
=============================================================================
