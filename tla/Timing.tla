------------------------------- MODULE Timing -------------------------------
(***************************************************************************)
(* The time slice: what is asked for (config.rs), what each port's timer   *)
(* can do (plan_timer), how it is installed and changed at run time        *)
(* (scheduler.rs init_with, set_slice), and how quanta, sleeps and lock    *)
(* timeouts are turned into ticks of it.                                   *)
(***************************************************************************)
EXTENDS Integers, FiniteSets

CONSTANTS
  Builds,      \* the ports
  K,           \* 1000: ns in a us, us in a ms, ms in a second
  Unit,        \* 100: ns in a timer unit of the host ports
  U24, U32, U64,  \* the largest values of SysTick's reload + 1, of u32, of u64
  MinCycles,   \* MIN_SLICE_CYCLES of the bare-metal ports
  MinHost,     \* MIN_SLICE_NS of the host ports, low and high resolution
  Cntfrq,      \* CNTFRQ of the ARM generic timer
  Freqs,       \* values given for timer_hz
  Slices,      \* slices asked for
  Durations,   \* lengths of sleeps, in ns, which a Duration has more of than a u64
  Timeouts,    \* lock timeouts, in ms
  Clock,       \* values of KERNEL.ticks when a wait begins
  Caller       \* the tasks that call set_slice

Second == K * K * K
Kinds == {"Nanos", "Micros", "Millis", "Hertz", "Cycles", "Default"}
Bare == {"CortexM", "RiscV", "Arm", "Xtensa"}
Hosts == {"Posix", "Win32"}

\* A core that counts faster than once a nanosecond overflows to_cycles.
ASSUME TimingAssumption ==
  /\ Builds \subseteq Bare \cup Hosts
  /\ K \in Nat \ {0} /\ K > 1
  /\ Unit \in Nat \ {0} /\ Second % Unit = 0
  /\ U24 \in Nat /\ U32 \in Nat /\ U64 \in Nat /\ U24 <= U32 /\ U32 <= U64 /\ U32 * Unit <= U64
  /\ Second <= U64 /\ MinCycles \in Nat /\ MinCycles > 1 /\ MinHost \subseteq Nat \ {0}
  /\ Cntfrq \in 0..Second /\ Freqs \subseteq 0..Second
  /\ Slices \subseteq [kind : Kinds, n : 0..U64]
  /\ \A s \in Slices : s.kind \in {"Hertz", "Cycles"} => s.n <= U32
  /\ Durations \subseteq Nat /\ Timeouts \subseteq 0..U64 /\ Clock \subseteq 0..U64

VARIABLES
  arch,        \* the port
  hires,       \* the minimum of this host's timer
  running,     \* KERNEL.running
  config,      \* slice_cycles and timer_hz of KERNEL.config
  load,        \* SysTick's reload + 1, SLICE_NS / 100, SLICE_UNITS; unused elsewhere
  armed,       \* the slice the timer was last armed with
  pc, plan,    \* per task: how far set_slice is, and its plan
  asked,       \* the slice of the last init_with or set_slice that succeeded
  overlapped   \* two set_slice calls have been under way at once

timing == <<arch, hires, running, config, load, armed, pc, plan, asked, overlapped>>

Lesser(a, b) == IF a <= b THEN a ELSE b
DivCeil(a, b) == (a + b - 1) \div b

-----------------------------------------------------------------------------
(* config.rs *)

as_nanos(s, hz) ==
  CASE s.kind = "Nanos" -> s.n
    [] s.kind = "Micros" -> Lesser(s.n * K, U64)
    [] s.kind = "Millis" -> Lesser(s.n * K * K, U64)
    [] s.kind = "Hertz" -> IF s.n = 0 THEN 0 ELSE Second \div s.n
    [] s.kind = "Cycles" -> IF hz = 0 THEN 0 ELSE Lesser(s.n * Second, U64) \div hz
    [] s.kind = "Default" -> 0

\* To the nearest cycle, and at least one.  The sum is a u128, the result u64.
Nearest_down(ns, hz) == ((ns * hz) \div Second) % (U64 + 1)
Nearest(ns, hz) == ((ns * hz + Second \div 2) \div Second) % (U64 + 1)

to_cycles(s, hz) ==
  IF s.kind = "Default" \/ hz = 0 THEN 0
  ELSE LET cycles == Nearest(as_nanos(s, hz), hz) IN IF cycles = 0 THEN 1 ELSE cycles

-----------------------------------------------------------------------------
(* The ports' plan_timer: the slice in cycles (in 100 ns units on a host),  *)
(* or the reason why there is none.                                         *)

Refused(why) == [ok |-> FALSE, why |-> why, cycles |-> 0, hz |-> 0]
Planned(cycles, hz) == [ok |-> TRUE, why |-> "", cycles |-> cycles, hz |-> hz]

BarePlan(s, hz, max) ==
  LET cycles == IF s.kind = "Cycles" THEN s.n ELSE to_cycles(s, hz)
  IN  CASE hz = 0 -> Refused("TimerClockRequired")
        [] hz # 0 /\ cycles = 0 -> Refused("ZeroSlice")
        [] hz # 0 /\ cycles \in 1..MinCycles - 1 -> Refused("SliceBelowPlatformMinimum")
        [] hz # 0 /\ cycles >= MinCycles /\ cycles > max -> Refused("SliceAboveTimerRange")
        [] OTHER -> Planned(cycles, hz)

cortex_m_plan_timer(s, hz) == BarePlan(s, hz, U24)
riscv_plan_timer(s, hz) == BarePlan(s, hz, U32)
arm_plan_timer(s, hz) == BarePlan(s, IF hz # 0 THEN hz ELSE Cntfrq, U32)
xtensa_plan_timer(s, hz) == BarePlan(s, hz, U32)

HostPlan(s, hz, min) ==
  LET ns == IF s.kind = "Cycles" THEN s.n * Unit ELSE as_nanos(s, hz)
      units == DivCeil(ns, Unit)
  IN  CASE ns = 0 -> Refused("ZeroSlice")
        [] ns \in 1..min - 1 -> Refused("SliceBelowPlatformMinimum")
        [] ns >= min /\ ns > 0 /\ units > U32 -> Refused("SliceAboveTimerRange")
        [] OTHER -> Planned(units, Second \div Unit)

posix_plan_timer(s, hz) == HostPlan(s, hz, hires)
win32_plan_timer(s, hz) == HostPlan(s, hz, hires)

plan_timer(s, hz) ==
  CASE arch = "CortexM" -> cortex_m_plan_timer(s, hz)
    [] arch = "RiscV" -> riscv_plan_timer(s, hz)
    [] arch = "Arm" -> arm_plan_timer(s, hz)
    [] arch = "Xtensa" -> xtensa_plan_timer(s, hz)
    [] arch = "Posix" -> posix_plan_timer(s, hz)
    [] arch = "Win32" -> win32_plan_timer(s, hz)

-----------------------------------------------------------------------------
(* cycles_to_ns and what is computed from it: one tick, in ns rounded down. *)

bare_cycles_to_ns(cycles, hz) == IF hz = 0 THEN 0 ELSE (cycles * Second) \div hz
host_cycles_to_ns(cycles) == cycles * Unit
tick_ns == IF arch \in Hosts THEN host_cycles_to_ns(config.cycles)
                             ELSE bare_cycles_to_ns(config.cycles, config.hz)

\* time.rs, for a duration in ns, a u128.
ticks_for_down(d) == IF d \div tick_ns = 0 THEN 1 ELSE d \div tick_ns
ticks_for(d) ==
  LET n == DivCeil(d, tick_ns)
  IN  IF tick_ns = 0 \/ n = 0 THEN 1 ELSE Lesser(n, U64)

\* sync.rs, for a timeout in ms.
ms_to_ticks(ms) == IF tick_ns = 0 THEN ms ELSE DivCeil(Lesser(ms * K * K, U64), tick_ns)

\* scheduler.rs: the deadline so many ticks after now, in a u64 that wraps, and
\* the ticks a wait for it takes (sleep_until_tick, try_lock_for, exec::sleep).
deadline_after_ticks(now, n) == (now + n) % (U64 + 1)
TicksUntil(now, deadline) == IF deadline > now THEN deadline - now ELSE 0

\* sleep_ticks blocks without a deadline when the sum comes out as 0.
Forever == -1
block_for_ticks(now, n) ==
  LET deadline == deadline_after_ticks(now, n)
  IN  IF deadline = 0 THEN Forever ELSE TicksUntil(now, deadline)

\* scheduler.rs: the quantum of spawn_in and spawn_group_in; 0 stands for an error.
quantum_ticks_for(s) ==
  LET ns == as_nanos(s, config.hz)
  IN  CASE s.kind = "Default" -> 1
        [] s.kind # "Default" /\ tick_ns # 0 /\ ns >= tick_ns /\ ns % tick_ns = 0
             /\ ns \div tick_ns <= U32 -> ns \div tick_ns
        [] OTHER -> 0

-----------------------------------------------------------------------------
(* start_timer and retune_timer, with the cycles of the plan and those in   *)
(* KERNEL.config at the time.  Some ports keep the slice in a register or a  *)
(* static of their own; the others re-arm from KERNEL.config, which          *)
(* set_slice has not written yet when it calls retune_timer.                 *)

OwnCopy == {"CortexM", "Posix", "Win32"}

cortex_m_timer(cycles, slice) == load' = cycles /\ armed' = cycles
riscv_timer(cycles, slice) == armed' = slice /\ UNCHANGED load
arm_timer(cycles, slice) == armed' = slice /\ UNCHANGED load
xtensa_timer(cycles, slice) == armed' = slice /\ UNCHANGED load
posix_timer(cycles, slice) == load' = cycles /\ armed' = cycles
win32_timer(cycles, slice) == load' = cycles /\ armed' = cycles

SetsTimer(cycles, slice) ==
  \/ arch = "CortexM" /\ cortex_m_timer(cycles, slice)
  \/ arch = "RiscV" /\ riscv_timer(cycles, slice)
  \/ arch = "Arm" /\ arm_timer(cycles, slice)
  \/ arch = "Xtensa" /\ xtensa_timer(cycles, slice)
  \/ arch = "Posix" /\ posix_timer(cycles, slice)
  \/ arch = "Win32" /\ win32_timer(cycles, slice)

Unasked == [kind |-> "Default", n |-> 0]
NoPlan == [cycles |-> 0, hz |-> 0, slice |-> Unasked]

\* SysTick_Handler's reload, or the rearm of a switch.
SliceStarts ==
  /\ running
  /\ armed' = IF arch \in OwnCopy THEN load ELSE config.cycles
  /\ UNCHANGED <<arch, hires, running, config, load, pc, plan, asked, overlapped>>

\* init_with up to start_timer: config is written, then the root, task 0 or
\* the timer may still fail.
init_with(s, hz) ==
  LET p == plan_timer(s, hz)
  IN  /\ p.ok /\ ~running
      /\ config' = [cycles |-> p.cycles, hz |-> p.hz]
      /\ \/ running' = TRUE /\ SetsTimer(p.cycles, p.cycles) /\ asked' = s
         \/ UNCHANGED <<running, load, armed, asked>>
      /\ UNCHANGED <<arch, hires, pc, plan, overlapped>>

\* set_slice: the plan is made from timer_hz, outside any critical section ...
set_slice(t, s) ==
  LET p == plan_timer(s, config.hz)
  IN  /\ running /\ pc[t] = "idle" /\ p.ok
      /\ pc' = [pc EXCEPT ![t] = "planned"]
      /\ plan' = [plan EXCEPT ![t] = [cycles |-> p.cycles, hz |-> p.hz, slice |-> s]]
      /\ overlapped' = (overlapped \/ \E u \in Caller : pc[u] # "idle")
      /\ UNCHANGED <<arch, hires, running, config, load, armed, asked>>

\* ... retune_timer ...
retune_timer_keeps(t) ==
  /\ pc[t] = "planned"
  /\ pc' = [pc EXCEPT ![t] = "retuned"]
  /\ armed' = IF arch \in OwnCopy THEN plan[t].cycles ELSE config.cycles
  /\ UNCHANGED <<arch, hires, running, config, load, plan, asked, overlapped>>
retune_timer(t) ==
  /\ pc[t] = "planned"
  /\ pc' = [pc EXCEPT ![t] = "retuned"]
  /\ SetsTimer(plan[t].cycles, config.cycles)
  /\ UNCHANGED <<arch, hires, running, config, plan, asked, overlapped>>

\* ... and the configuration, last.
set_slice_stores(t) ==
  /\ pc[t] = "retuned"
  /\ pc' = [pc EXCEPT ![t] = "idle"]
  /\ config' = [cycles |-> plan[t].cycles, hz |-> plan[t].hz]
  /\ asked' = plan[t].slice
  /\ plan' = [plan EXCEPT ![t] = NoPlan]
  /\ UNCHANGED <<arch, hires, running, load, armed, overlapped>>

TimingInit ==
  /\ arch \in Builds /\ hires \in MinHost
  /\ running = FALSE /\ config = [cycles |-> 0, hz |-> 0]
  /\ load = 0 /\ armed = 0 /\ asked = Unasked /\ overlapped = FALSE
  /\ pc = [t \in Caller |-> "idle"]
  /\ plan = [t \in Caller |-> NoPlan]

TimingNext ==
  \/ SliceStarts
  \/ \E s \in Slices, hz \in Freqs : init_with(s, hz)
  \/ \E t \in Caller, s \in Slices : set_slice(t, s)
  \/ \E t \in Caller : retune_timer(t) \/ set_slice_stores(t)

TimingSpec == TimingInit /\ [][TimingNext]_timing

-----------------------------------------------------------------------------
\* slice_cycles is a u32.
Setting == [cycles : 0..U32, hz : Nat]

\* Every variable keeps its type.
TimingTypeOK ==
  /\ arch \in Builds /\ hires \in MinHost /\ running \in BOOLEAN
  /\ config \in Setting /\ load \in 0..U32 /\ armed \in 0..U32
  /\ pc \in [Caller -> {"idle", "planned", "retuned"}]
  /\ plan \in [Caller -> [cycles : 0..U32, hz : Nat, slice : Slices \cup {Unasked}]]
  /\ asked \in Slices \cup {Unasked} /\ overlapped \in BOOLEAN

\* The slice c, in cycles at hz, is the one asked for: within half a cycle on
\* bare metal, less than a timer unit longer on a host, and inside the limits
\* of the port; a clamped slice is refused instead.
Honours(c, hz, s) ==
  IF arch \in Hosts
  THEN LET ns == IF s.kind = "Cycles" THEN s.n * Unit ELSE as_nanos(s, hz)
       IN  /\ ns <= c * Unit /\ c * Unit < ns + Unit /\ hires <= ns
           /\ c \in 1..U32
  ELSE /\ IF s.kind = "Cycles" THEN c = s.n
          ELSE 2 * (as_nanos(s, hz) * hz - c * Second) \in -Second..Second
       /\ MinCycles <= c /\ c <= IF arch = "CortexM" THEN U24 ELSE U32

\* The slice in force is the one asked for last.
SliceHonoured == TimingTypeOK /\ (running => Honours(config.cycles, config.hz, asked))

\* When no set_slice is under way, the timer of a port that keeps the slice to
\* itself runs at the slice the kernel reckons with.  (Two calls that overlap
\* can leave it at the one and the kernel at the other.)
TimerFollowsConfig ==
  running /\ arch \in OwnCopy /\ ~overlapped /\ (\A t \in Caller : pc[t] = "idle") =>
    load = config.cycles /\ armed = config.cycles

\* n ticks last at least ns, counted in cycles; fewer ticks by the kernel's
\* reckoning do not.
Covers(n, ns) ==
  /\ ns * config.hz <= n * config.cycles * Second
  /\ (n - 1) * tick_ns < ns

\* A wait of w ticks begun at now is not short of ns, if the clock has as many
\* ticks left as ns take.  If it has not, the deadline wraps (the count of ticks
\* saturates, the sum with now does not): the wait is over at once, or never.
WaitKept(now, w, ns) ==
  IF now + DivCeil(ns, tick_ns) <= U64 THEN Covers(w, ns)
  ELSE now > 0 => w \in {0, Forever}

\* A sleep lasts what was asked for as long as the clock can show its end,
\* whatever cycles_to_ns and the division cut off, and so does a lock timeout,
\* up to the U64 nanoseconds at which it saturates.
WaitsCovered ==
  running => \A now \in Clock :
    /\ \A ns \in Durations \ {0} :
         LET n == ticks_for(ns)
         IN  /\ WaitKept(now, block_for_ticks(now, n), ns)
             /\ WaitKept(now, TicksUntil(now, deadline_after_ticks(now, n)), ns)
    /\ \A ms \in Timeouts \ {0} :
         LET n == ms_to_ticks(ms)
         IN  WaitKept(now, TicksUntil(now, deadline_after_ticks(now, n)), Lesser(ms * K * K, U64))

\* A quantum that is accepted lasts what was asked for: not shorter, and
\* longer by less than a nanosecond per tick.
QuantumKept ==
  running => \A s \in Slices :
    LET ns == as_nanos(s, config.hz)
        n  == quantum_ticks_for(s)
        d  == n * config.cycles * Second - ns * config.hz
    IN  s.kind # "Default" /\ n > 0 => 0 <= d /\ d < n * config.hz

\* What the kernel counts in ticks lasts as long as was asked for, within what
\* its clock can count.
DurationsKept == WaitsCovered /\ QuantumKept
=============================================================================
