------------------------------- MODULE RiscV -------------------------------
(***************************************************************************)
(* The RISC-V port (arch/riscv.rs): one trap entry for the machine timer   *)
(* and the machine software interrupt, told apart by mcause, which nothing *)
(* rewrites while the handler waits for work.                              *)
(***************************************************************************)
EXTENDS PortCore

\* trap_entry up to label 1.  The software interrupt has the higher priority.
riscv_trap_entry ==
  arch = "RiscV" /\ Enter(IF kick THEN "Soft" ELSE "Timer", "Saved")

\* rrkernel_trap_switch up to schedule_next: acknowledge a kick, count a tick.
riscv_trap_cause_always_ticks ==
  /\ arch = "RiscV" /\ at = "Cause" /\ at' = "Choose"
  /\ on_tick /\ kick' = FALSE
  /\ UNCHANGED <<build, cpu, ctx, due, cause, handles, shutdown>>
riscv_trap_cause ==
  /\ arch = "RiscV" /\ at = "Cause" /\ at' = "Choose"
  /\ \/ cause = "Soft" /\ kick' = FALSE /\ UNCHANGED tree
     \/ cause = "Timer" /\ on_tick /\ UNCHANGED kick
  /\ UNCHANGED <<build, cpu, ctx, due, cause, handles, shutdown>>

\* ... schedule_next, and what the assembly does with the result.
riscv_trap_switch ==
  /\ arch = "RiscV"
  /\ \E pick \in Picks : SwitchStacks(pick, "Idle")
  /\ UNCHANGED <<build, kick, due, cause, handles, shutdown>>

riscv_after_switch == arch = "RiscV" /\ AfterSwitch

\* Label 4: wfi, then back to label 1 with mcause as it was.
riscv_idle == arch = "RiscV" /\ WaitInHandler

RiscVNext ==
  \/ riscv_trap_entry \/ riscv_trap_cause \/ riscv_trap_switch
  \/ riscv_after_switch \/ riscv_idle
=============================================================================
