------------------------------- MODULE Posix -------------------------------
(***************************************************************************)
(* The POSIX port (arch/posix.rs): fibres of one thread switched in the    *)
(* SIGALRM handler, which the timer and raise() reach alike; the clock     *)
(* tells which it was.                                                     *)
(***************************************************************************)
EXTENDS PortCore

\* The signal is delivered, and blocked until the handler returns or a new
\* fibre unblocks it.
posix_signal ==
  /\ arch = "Posix" /\ at = "Task" /\ kick
  /\ kick' = FALSE /\ at' = "Cause"
  /\ UNCHANGED <<tree, build, cpu, ctx, due, cause, handles, shutdown>>

\* alarm_handler: a tick only when NEXT_EXPIRY_NS has passed.
posix_from_timer ==
  /\ arch = "Posix" /\ at = "Cause" /\ at' = "Choose"
  /\ IF due THEN on_tick ELSE UNCHANGED tree
  /\ UNCHANGED <<build, cpu, ctx, kick, due, cause, handles, shutdown>>

\* Stack pointers are swapped; the registers of from stay on its stack.
rrkernel_switch(from, to) ==
  ctx' = [l \in Leaf |-> CASE l = to -> "Live"
                           [] l # to /\ l = from -> "Saved"
                           [] OTHER -> ctx[l]]

\* ... schedule_next and rearm; rrkernel_switch unless the fibre goes on.  A
\* fibre switched away from before comes back in the middle of its handler.
posix_switch_returns_if_null ==
  \E pick \in Picks :
    LET next  == pick.leaf
        stays == next \in {Null, current} \/ current = Null
    IN  /\ arch = "Posix" /\ at = "Choose" /\ at' = "Task"
        /\ schedule_next(pick, {})
        /\ cpu' = IF stays THEN cpu ELSE next
        /\ IF stays THEN UNCHANGED ctx ELSE rrkernel_switch(current, next)
        /\ rearm_timer
        /\ UNCHANGED <<build, kick, cause, handles, shutdown>>
posix_switch ==
  \E pick \in Picks :
    LET next  == pick.leaf
        stays == next \in {Null, current}
    IN  /\ arch = "Posix" /\ at = "Choose"
        /\ schedule_next(pick, {})
        /\ at' = IF ~stays /\ ctx[next] # "Entry" THEN "After" ELSE "Task"
        /\ cpu' = IF stays THEN cpu ELSE next
        /\ IF stays THEN UNCHANGED ctx ELSE rrkernel_switch(current, next)
        /\ rearm_timer
        /\ UNCHANGED <<build, kick, cause, handles, shutdown>>

\* ... reclaim_finished_tasks, once the fibre is back.
posix_back ==
  /\ arch = "Posix" /\ at = "After" /\ at' = "Task"
  /\ Reclaims(pending)
  /\ UNCHANGED <<build, cpu, kick, due, cause, handles, shutdown>>

PosixNext == posix_signal \/ posix_from_timer \/ posix_switch \/ posix_back
=============================================================================
