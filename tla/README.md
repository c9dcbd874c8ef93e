# rrkernel: a TLA+ verification project

rrkernel is a small preemptive round-robin kernel for microcontrollers, with
ports that simulate it on a PC. Tasks and groups of tasks form a tree; every
node has a quantum in ticks; the CPU goes round each ring of the tree. There are
no priorities: fairness of the tree walk is the kernel's central promise. Around
it this project models the six ports' ways of switching, the memory and the time
slice under them, and the waits, locks, pipe and executor above.

    SchedTree            the tree: tick, choice of the next leaf, spawn, block, wake, exit
      ^   ^    \
      |   |     RingLemmas, SchedTree_proofs     proofs about it
      |   |
      |   CortexM        SchedTree under the Cortex-M port (SysTick, PendSV, idle loop)
      |     ^     \  CortexM_proofs
      |     MCCortexM    small trees for TLC
      PortCore           what the other ports have in common
        ^
        RiscV  ArmAR  Xtensa  Posix  Win32       their handlers
          ^
          Ports          all of them under task code (Ports_proofs, MCPorts)

    Ring                 next/prev links of ring.rs, shown to implement SchedTree's rings
                         (RingLemmas, Ring_proofs)
    Arena <- Memory      the allocator, and what spawn, exit and reclaim do with it
                         (MCMemory; proofs in Holding_proofs)
    Timing               slices, timer planning, set_slice, durations to ticks (MCTiming;
                         proofs in Event_proofs)
    Event                park/wake, Signal, WaitQueue, the sleeps (Event_proofs)
    Channel <- Streams   the byte pipe as a FIFO; its blocking and async transfers, and the
                         executor under the async ones (MCStreams, Streams_proofs)
    Mutex                the sleeping lock as it is compiled (Holding_proofs)

`tlc -config X.cfg M` runs a configuration, `tlapm M.tla` checks the proofs of a
module. `PROJECT.json` has the map from definitions to source lines, the runs, a
mutant of the code for every property, the findings, the hazards and the theorems.


## 1. Inventory

### The scheduling tree (`scheduler.rs`, `tcb.rs`)

State. One TCB per node: kind (leaf or group), `next`/`prev` in the parent's
child ring, `parent`, `children_head`, `current_child` (the group's cursor),
`slice_cycles` (quantum in ticks), `remaining_cycles`, `state`, `blocked_on`,
`block_deadline`. Globally `KERNEL.current`, `ring_head`, `root`,
`active_threads`, `nodes`, `ticks` and the deferred-free list.

Operations. `init_with` builds the root and task 0. `on_tick` drains the running
path by one tick and wakes expired sleepers. `schedule_next` calls
`pick_next_leaf`: the leaf keeps the CPU while no node on its path is spent,
otherwise the turn passes on in the ring of the outermost spent node's parent;
spent nodes below it lose their place; entering a subtree arms what is at zero.
`spawn_internal` and `spawn_group_node` link a new node right after the cursor.
`mark_blocked_locked` and the `wake_*` functions change states;
`reclaim_finished_tasks` frees what `exit_task` has put on the deferred list.

Hard. Ordering of two expiries on one tick; the double meaning of zero (spent, not
armed); cursors to nodes that are blocked, dead or gone; walks whose step budget is
a global counter; memory of a dead task freed by someone else. Correct when: no
reference outlives its TCB, every live TCB is reachable, quanta are spent and re-armed
exactly, nobody runs out of turn, nobody starves.

### Child rings (`ring.rs`)

State: the links; in a dead TCB `prev` links the deferred-free list. Operations: `insert_after`, `unlink`, `next_runnable`,
`first_runnable_from`, `len`, `check`. Hard: first, last, only node; cursor and head
on the node that leaves. Correct when: the links are inverse, close around
exactly the live children, and each operation is the sequence operation it stands for.

### Task exit (`trampoline.rs`)

`exit_task` runs on the dying task's own stack: it unlinks the TCB, moves head,
cursor and `ring_head` off it, puts it on the deferred list, requests a switch,
and waits for it. The window between the section and the switch is the hard part.

### Cortex-M port (`arch/cortex_m.rs`)

State: the pending bit of PendSV, the SysTick counter, which stack executes.
Operations: `SysTick_Handler`, `PendSV_Handler` with `rrkernel_schedule_next`, its
idle loop with `rrkernel_idle_wait`, `request_switch`. Interrupts are masked in
critical sections; PendSV has the lowest priority, SysTick the next, device
interrupts preempt both. Correct when: the executing code belongs to `KERNEL.current`,
nobody executes beyond a quantum, the CPU idles only without work.

### Events and sleeps (`event.rs`, `time.rs`, the blocking half of `scheduler.rs`)

State: a wake flag per task, `Signal.set` and `Signal.waiter`, the deadlines.
Operations: `park`, `wake`, `Signal::{set, wait, try_take}`, `WaitQueue::{wait,
wake_one, wake_all}`, `sleep_ticks`, `sleep_until_tick`. Hard: the gap
between a condition and the block, wakes that race deadlines, early wakes. Correct
when: no wake flag and no signal is left lying before a task that waits for it, no
deadline is lost or moved, a wait that timed out had neither.

### Mutex (`sync.rs`)

State: owner word per lock, `held_locks` per task, a registry of locks, waiters as
blocked tasks. Operations: `lock`, `try_lock`, `try_lock_for`, `unlock`, guard drop, an ordering
rule on lock ids, back-off recovery (`release_all_held_locks`). Correct when: one guard
at a time, records in locking order, and in step with the guards of a task that leaves
releasing to them.

### The other ports (`arch/{riscv,arm_ar,xtensa,posix,win32}.rs`)

State: where each task's context is (registers, saved frame, first frame, suspended
thread), what is pending (a requested switch, the slice timer), where the handler is.
Operations: trap or signal entry, finding out the cause, `schedule_next`, the switch of
stacks, reclamation and re-arming after it, idling, shutdown. Hard: a context read before
it is written, a stack freed by its user, a kick taken for a tick, a loop that
waits for what it has itself masked. Correct when: the code that executes is
`KERNEL.current`'s, every other live task can be resumed, nobody starves.

### Memory (`arena.rs`, spawn and reclaim in `scheduler.rs`, the ports' `create_task`)

State: bump pointer, free list, block headers; per TCB `closure_block`, `stack_base`,
`sp`. Operations: first-fit `alloc`, `free`, `stats`; three allocations per spawn, undone
when a later one fails; deferred frees in one section. Correct when: blocks never overlap,
nothing leaks on any failure path, endless spawning does not use memory up.

### Time slice (`config.rs`, `time.rs`, `plan_timer` and `retune_timer` of the ports)

State: `slice_cycles`, `timer_hz`, the timer's own copy. Operations: planning, `init_with`,
`set_slice` (plan, retune, store: three steps), conversions of quanta, sleeps and lock
timeouts to ticks. Hard: three roundings, saturation, clamping, the steps of `set_slice`.
Correct when: a slice is honoured or refused, and no duration comes out short while the
clock has room for its end.

### Pipe and executor (`io.rs`, `exec.rs`)

State: `buf`, `head`, `tail`, two Signals; the task's wake flag and `block_deadline`, which
the executor shares with every blocking call. Operations: `push_from_isr`,
`write_from_isr`, `pop_into`, blocking and async reads and writes; `block_on`, the
waker, `Sleep`, `SignalWait`. Correct when: the pipe is a FIFO, nobody sleeps over
bytes, room, a wake or a timer.

### The rest

Spinlock and cores (`smp.rs`, `critical.rs`): more than one core is refused today.
`hal.rs`, `closure.rs`, `app_support.rs`, macros, firmware: no scheduling state (the sizes closure.rs asks for are in Memory).

Interaction: every port calls `on_tick` and `schedule_next`; events and locks are
blocked states and wakes of the scheduler; the executor is a client of events; spawn
and exit tie arena, rings and scheduler together inside one critical section.


## 2. How modules and code correspond

**SchedTree.** One variable per TCB or KERNEL field, named after it (`kids` is the ring
as a sequence from `children_head`, `togo` the ticks until `block_deadline`). One action
per critical section: sections mask interrupts, so each is one step. `pick_next_leaf` is
Rust code that walks and assigns as it goes; here it is a function of the state
(`PickNextLeaf`) returning the leaf and the cursors and quanta it leaves; no node gets
two different values on one pass, so collecting the assignments is exact. `Walk` keeps
the step budget of `walk_tree`. `nodes` only grows in the code; it is capped at twice the
number of TCBs, above which the budget cannot bind. The root's `u32::MAX` quantum is not
drained when `RootDrains = FALSE` (a horizon of less than 2^32 ticks) and is a
small number, drained, when it is `TRUE`. Which TCB `alloc_tcb` returns is
nondeterministic, so memory is reused in every possible way. A wake of a task
that is not blocked changes nothing here (its flag is Event's).

**CortexM.** `cpu` is the task whose code executes or the place in the idle loop, `pend`
PENDSVSET, `phase` the SysTick counter. Task code is nondeterministic: a task that
executes may spawn, block, yield, wake or exit at any instant. Device interrupts may wake
and spawn at any instant, also between exit and its switch or inside the idle loop.
`on_tick` runs in SysTick without masking, so a device interrupt can fall inside it; wakes
set what the sweep would set and spawns only add links, so a tick is one step
here (see the plan).

**Ring.** The two links per TCB, the heads, cursors, `ring_head` and `pending_free` under
`insert_child`, `exit_task`, `push_pending_free`, reclamation, cursor moves and blocking. `prev`
has a second use: in a TCB that has left its ring it leads to the next dead one on the
deferred-free list. `Kids` reads the sequences off the links, and
`Tree == INSTANCE SchedTree WITH kids <- Kids ...` is the refinement.

**Event.** `call` is the blocking call a task is in, `due` the time left to the
deadline it was given. A caller may pass no deadline, tick 0 or a later tick; 0 is no deadline
in `block_deadline`, so `Some(0)` waits for ever, as does a plain sleep whose deadline comes
out as 0. Each critical section of a call is a step; anything may come
between two. `Signal::set` is two sections and two steps. The scheduler below is
abstract: a ready task may take its turn at any time, the tick reaches every blocked task.
Three facts of the code make the model larger than it looks: `wake_blocked_on` sets no
wake flag, `Signal::wait` leaves its registration behind when it times out, and lock ids
and task ids are the same numbers, so an unlock can wake a task parked under its own id.
`Signal` has one waiter, as its documentation requires.

**Mutex.** In `try_acquire` and `release_shim` the store of the owner word is part of a
`//` comment line (a literal `\n` in the source), so it is not compiled: `owner_store` and
`owner_clear` leave `owner` unchanged. A release is one step: with the owner word
never set its sections have nothing to race. `Release` is the drop of a guard, `unlock` the
public `Mutex::unlock`, which takes `&self` and leaves a guard alive. `release_all_held_locks` is the section that
copies and clears the records, then one step per lock; the guards stay with
their owner. `bypassed` is a history variable: the tasks that have used either way past a guard.
A bounded wait can end at any time, as can any wait whose task's id is woken.

**PortCore, RiscV, ArmAR, Xtensa, Posix, Win32, Ports.** `at` is the phase of the port's
handler, `ctx` where each task's context is, `kick` a requested switch (msip, SGI 0,
SIGALRM, the KICK event), `due` the slice timer, `cause` what the handler has read. The
handler masks what would preempt it, so its phases interleave with the timer and with
nothing else, except on Win32, where the task's thread goes on until the tick thread has the
kernel lock. A phase is a piece of the assembly or of the Rust half between two points
where something outside is read: the cause, the choice, the stack switched to, what follows
on the new stack. Device interrupts are not modelled here (CortexM has them). A switch
requested by a task is taken before its next instruction on all ports but Win32.

**Arena, Memory.** An address is a number of words. `total`, `size` and `slot` are the
block headers and the back pointer below each payload; `alloc`
and `free` are functions from one arena to the next, as in the code. `Memory` calls
them the way `spawn_internal`, `spawn_group_node`, the ports' `create_task` and
`reclaim_finished_tasks` do, each of these being one critical section. TCBs, closures and stacks
ask for their own alignments; `block_size_for` and `block_align_for` of closure.rs make the
size and alignment of a closure's block. `most` is a history variable.

**Timing.** The conversions are translated with their widths (u32, u64 saturating, u128
sums) and their order of operations, with `K` for 1000 and small maxima. A count of ticks
saturates at u64, its sum with the clock wraps (`deadline_after_ticks`), and a sleep whose sum is
0 has no deadline (`Forever`). `set_slice` is three steps, as in the code. `asked` and `overlapped` are history variables.

**Channel, Streams.** `Channel` is the promise: a bounded queue. `Streams` has the buffer
with its free-running indices, the two signals, and one program counter per context (reader,
writer, interrupt); each section of pipe, signal, scheduler and executor is a step. The
`program` fixes which contexts produce and which futures are run, so that one run covers
five small applications. `want` is the length of the buffer a read fills: a transfer that moves
no byte waits, also because its buffer is empty, except that a blocking write of nothing
returns at once. `Streams` models waits anew rather than through
Event because its tasks sit in both kinds at once; the sections are the same lines.


## 3. Runs

What holds:

| run | instance | what it shows |
|---|---|---|
| `tree_safety` | task 0 and a group (window 2) over tasks with quanta 1 and 2; one resource, waits of 2 ticks; 188k states | `TreeInv`: no dangling or lost TCB. `ActiveCountsLeaves`. `RunningIsRunnable`, `QuantumLeft`: the right code executes, within every quantum of its path. `NoOverdueSleeper`: the tick finds sleepers at depth. `IdleOnlyWhenNothingRuns`. `LeftoverKept`, `CursorKeepsPreempted`: a preempted child keeps its rest, and its group's cursor until the turn of the child that has it is over. |
| `tree_liveness` | same tree, two timer cycles per slice; tasks spawn and exit; 17k | `ReadyRuns`, `SleeperRuns` once spawning and blocking have stopped |
| `rings` | four TCBs, two rings; 30k | `LinkInv` (the links of the rings, and the list of the dead that `prev` also threads), `RingsComplete`, `WalksAgree`, `ImplementsTree` (refinement of SchedTree) |
| `waits` | two tasks, one setter, no deadline, tick 0, waits of 0 and 2 ticks, a lock whose id is a task's; 40k | `FlagsAndSignalsKept`, `DeadlineKept`, `TimeoutMeansClear`, and `BoundedWaitReturns`, whose hypotheses are that ticks go on and the task gets its turns |
| `ports` | two tasks in the root's ring, five ports, waits of 1 and 2 ticks; 34k | `OthersSaved`, `RightCodeRuns`, `StackNotReclaimed`, `ThreadsFollowTasks`, `KicksDoNotTick`; `NoneStarves` and `ShutdownEnds` under fairness |
| `memory` | task 0, two tasks and a group over 68 words, six ports, closures of two alignments; 54k | `HoldsApart`, `MemoryAccounted`, `CarvingEnds`, with spawns that fail at each step |
| `timing` | six ports, frequencies 0, 8 and 27, fourteen slices, sleeps and lock timeouts up to and beyond what u64 holds, at five values of the clock, two tasks calling `set_slice`; 118k | `SliceHonoured`, `TimerFollowsConfig`, `DurationsKept` |
| `streams` | capacity 2, indices modulo 4, three bytes written or none, reads of 0, 1 and 2, deadlines of 2 ticks or none; 364k | `NoneStranded`, `NoWakeSlept`, `TimerServesAll`, `PipeIsChannel` (refinement of Channel), and `ReadDelivered`, whose hypothesis is that ticks and turns go on |
| `locks` | two tasks, three locks, records for two, one registry slot, bare `unlock`; 803k | `HeldInOrder`, `RecordsAgree` |

Documented behaviour the code does not have (each run checks one property and TLC
refutes it):

| run | property | what happens |
|---|---|---|
| `mutual_exclusion` | `MutualExclusion` | two guards of one lock |
| `idle_hang` | `SleeperRuns` | RISC-V: with nothing left to run, the handler a switch request entered waits with its old `mcause`, so it never counts another tick and a sleeping task sleeps for ever |
| `async_timer` | `SleepResolves` | a Sleep joined to a future whose poll blocks: the block overwrites the deadline the Sleep armed, its wake clears it, and `block_on` parks without one |

**Bounds.** The tree instance is the smallest in which a group's window closes both
between and inside its children's turns (window 2 over 1 and 2), leaf and group meet in
one ring, a ring becomes empty, has its only, first or last node removed, and TCB memory is
reused. Two levels are enough for a walk to go down, sideways and up; deeper nesting is
covered by the proofs, which leave the tree arbitrary. The number of nodes stays below
what makes the walk budget bind (section 5). `Period = 1` makes every instant a possible tick;
in `tree_liveness` (`Period = 2`) a switch can put one off. Waits of two ticks see a tick
that does not end them. Ring's four TCBs make rings of three beside a second ring of one,
and all splits in between. The two tasks of `waits` meet each other and the interrupt in
every order; nothing in that layer counts beyond "another task".

`ports` needs a task to leave, one to come and memory to be reused; what the tree does
with more is the other runs' subject, and `Ports_proofs` carries `TreeInv` over for any tree.
In `memory` headers take 3 words, TCBs 3 (9 on Win32), stacks 7 or more by port, closure
blocks what `block_size_for` gives, at alignments 1 and 2, TCBs the one of a u64: 68 words hold
both tasks on the ports with small stacks and not on RISC-V and Xtensa, so allocations fail
at each step, and blocks are reused by other kinds of object. In `timing` a second is 27 ns
(`K = 3`), u32 ends at 63, u64 at 255; slices lie at and around each limit (zero, below the
minimum, inexact, above the range, saturating), and 8 does not divide the second, so cycles and nanoseconds never
convert exactly. Of the durations 70000 ns are more ticks than u64 has at every tick length, and 29 of the
timeouts are the first milliseconds that saturate in nanoseconds; the clock begins at either end, in the
middle and next to the end. In `streams` a deadline of two ticks is not the next tick, a Sleep of
two or three may end before or after it, and three bytes through two places wrap the buffer and, at a usize of two bits, the indices.
`MaxGuards = 2` lets a task hold two guards of one lock, which it can after the recovery or a bare `unlock`;
two records and one slot make both tables overflow. Tasks are symmetric in `memory` and
`timing`, whose properties are invariants that name none.

**Fairness.** CortexM and Ports assume hardware only: the timer counts, a pending interrupt
is taken, the handler's phases go on, and `exit_task` reaches its `request_switch`
(straight-line code). The larger of these actions are enabled exactly in
the states named in `Fairness` and always leave them, so their weak fairness is written as
`[]<>` of the negation, which spares TLC the ENABLED of a large action. Tasks and devices
owe nothing. `SpawnsEnd` is needed because a child is linked right behind the cursor:
a chain of tasks that spawn a successor and exit keeps the CPU. `BlocksEnd` is
needed on a tree with a group, and where switches put ticks off (section 5). In `Ports`
every call that kicks restarts the slice, so `BusySpec` asks that calls stop some time.
Event and Streams check their runs without fairness, because the layer below does not promise
any: tasks that ask for a switch before every slice ends put the tick off, and a group
may starve a child (section 5). `BoundedWaitReturns` and `ReadDelivered` are
implications instead: *if* ticks go on and the task gets its turns (in Streams `Runs`: also the
other contexts finish the wake they have begun), the wait ends. When ticks and turns do go on
is what `ReadyRuns`, `SleeperRuns` and `NoneStarves` show of the ports, under the conditions
there. Of the violations, `idle_hang` is under the ports' fairness with calls that stop, and
`async_timer` under `FairSpec` (`Runs` assumed), so that neither blames the code for a
scheduler that stopped. `ports` and `idle_hang` do not check deadlock: a system that has shut
down, or on Win32 has no task left and is to exit, stops.


## 4. Proofs

| theorem | statement |
|---|---|
| `SchedTree_proofs!TreeSafe` | `Spec => [](TreeTypeOK /\ TreeInv)` |
| `SchedTree_proofs!ActiveIsExact` | `Spec => []ActiveCountsLeaves` |
| `SchedTree_proofs!LeftoversSurvive` | `Spec => LeftoverKept` |
| `CortexM_proofs!PortImplementsTree` | `PortSpec => Spec`: the port drives the tree only through its sections |
| `CortexM_proofs!PortTreeSafe` | `PortSpec => []TreeInv` |
| `CortexM_proofs!RunningSafe`, `PortTyped` | `PortSpec => [](TypeOK /\ RunningIsRunnable)`, `[]TypeOK` |
| `CortexM_proofs!QuantumIsLeft` | `PortSpec => [](PathsLeft /\ (~RootDrains => QuantumLeft))` |
| `CortexM_proofs!IdleMeansIdle` | `ASSUME TwoLevel PROVE PortSpec => IdleOnlyWhenNothingRuns` |
| `SchedTree_proofs!PlacesKept` | `ASSUME TwoLevel, ~RootDrains PROVE Spec => CursorKeepsPreempted` |
| `CortexM_proofs!SleepersAreSwept` | `PortSpec /\ []BudgetSuffices => []NoOverdueSleeper` |
| `Ports_proofs!PortsImplementTree` | `PortsSpec => Spec`, for the five other ports |
| `Ports_proofs!PortsTreeSafe` | `PortsSpec => []TreeInv` |
| `Ports_proofs!OthersResumable`, `CodeIsCurrent` | `PortsSpec => []OthersSaved`, `[]RightCodeRuns` |
| `Ports_proofs!StackStays`, `ThreadsFollow` | `PortsSpec => []StackNotReclaimed`, `[]ThreadsFollowTasks` |
| `Ports_proofs!OnlyTheTimerTicks` | `PortsSpec => KicksDoNotTick` |
| `Ring_proofs!LinksSafe`, `RingsAreComplete` | `Spec => []LinkInv`, `[]RingsComplete` |
| `Ring_proofs!RingsImplementTree` | `Spec => ImplementsTree`: the links refine SchedTree's rings |
| `Ring_proofs!WalksAreRight` | `Spec => []WalksAgree` |
| `Event_proofs!WaitTypes`, `FlagsAndSignalsAreKept`, `DeadlinesKept` | `Spec => []TypeOK`, `[]FlagsAndSignalsKept`, `[]DeadlineKept` |
| `Event_proofs!TimeoutsMeanClear`, `SleepsFull` | `Spec => TimeoutMeansClear`, `SleepUntilNotEarly` |
| `Event_proofs!SliceIsHonoured`, `TimerIsConfigured`, `DurationsAreKept` | `TimingSpec => []SliceHonoured`, `[]TimerFollowsConfig`, `[]DurationsKept` |
| `Streams_proofs!PipeImplementsChannel` | `Spec => PipeIsChannel`: the pipe refines Channel |
| `Streams_proofs!TransfersWake`, `ParkSeesWakes` | `Spec => []NoneStranded`, `[]NoWakeSlept` |
| `Streams_proofs!TimerServes` | `ASSUME PollsNeverBlock PROVE Spec => []TimerServesAll` |
| `Holding_proofs!LocksInOrder`, `RecordsMatchGuards` | `Spec => []HeldInOrder`, `[]RecordsAgree` |
| `Holding_proofs!MemoryHolds`, `MemoryHoldsApart`, `MemoryIsAccounted` | `MemorySpec => []MemInv`, `[]HoldsApart`, `[]MemoryAccounted` |
| `Holding_proofs!MemoryIsSteady` | `MemorySpec => []CarvingEnds` |

Those that say `ASSUME` ask for what it names. They hold for any numbers of tasks, groups, resources, setters, locks and TCBs, any nesting,
quanta and waits, any clocks and register widths, any pipe. Assumptions: `TreeAssumption` (leaves and groups are disjoint, finitely
many leaves, quanta positive after `.max(1)`, task 0's is one tick), `PortAssumption`,
`ArchAssumption`, `RingAssumption`, `WaitAssumption` (identifiers are distinct),
`LockAssumption` (lock ids are numbers, table sizes positive), `TimingAssumption` (a second
fits u64, no port plans a slice of one cycle or none, requests are u32 or u64 as their types
say), `PipeAssumption` (the capacity divides the number of indices, as a power of two does; a
context's programs are made of the operations io.rs has), `ArenaAssumption` and
`MemoryAssumption` (sizes and alignments are positive, of two alignments the larger is a
multiple of the smaller, as powers of two are, a first frame fits the smallest stack a port
accepts, nodes are distinct).

*The tree.* `TreeInv` is inductive together with the types. Its parts need one another:
that a spawn keeps rings free of duplicates needs "linked exactly while alive" and that a
fresh TCB is not alive; that exit moves every reference needs "cursor and `ring_head` are
in the ring they belong to"; that reclamation frees nothing in use needs "the pending list
is exactly the dead TCBs" and "current is alive". The choice of the next leaf enters
by one lemma, `PickNextLeafOK`: whatever it touches, cursors stay in their rings, quanta
stay natural numbers, and what it returns is a runnable leaf. That lemma treats the recursive
walks as unknown functions whose results are filtered through `CanRun`, so it does not
depend on the depth of the tree. `RingLemmas` has the facts on sequences (insertion
after a position, removal of one) that the ring operations rest on.

*The ports.* `PortInv` adds to it `RunningIsRunnable`, whose third case (blocked, with the
switch pending) is what makes it inductive across wakes and interrupts. The other
ports are shown to implement the tree phase by phase: a phase makes one call into
`scheduler.rs` or none. `PortsInv` is what their own properties need: whose context is where
(`OthersSaved`, `OneResumed`), what may execute on the CPU in each phase of each handler
(`OnCpu`: the current task, the one that has just exited, or on Win32 nobody's thread), that the task
just chosen can run (`ChosenRuns`), and that a blocked task has its switch coming
(`BlockedIsParked`). No part is inductive alone: a context is saved by the phase that trusts `OnCpu` to say whose it
is, and `OnCpu` after a switch is `OthersSaved` of the task switched to.

*Two levels.* Three results are about more than the shape of one state. That `pick_next_leaf`
finds a task whenever one can run is true where groups hang below the root only (`TwoLevel`,
a condition on where the program spawns; section 5 has what a group inside a group can do).
There a live leaf is a child of the root or of a child of the root (`LeafAbove`),
`resume_child` finds a runnable child if there is one (`ResumeChildRuns`), so some child of
the root serves (`RootServes`), and every advance passes the root (`StartsBelowRoot`). For the
cursors the inductive fact is `CursorFollows`: below the root, the cursor of the running task's
group is that task. It is why a window that closes does not cost the child its place: the
only node of the path in that group is the cursor's, and it is passed over only when it is
spent itself. `PickKeeps` is then a case analysis of the three ways a cursor is assigned. It
needs `~RootDrains`, the horizon before the root's quantum is spent. `SleepersAreSwept` has a
temporal hypothesis, that the step budget of `walk_tree` reaches every live leaf; small
trees satisfy it, larger ones do not (section 5). The theorem says that this is the only way a
sleeper can be overdue.

*Links.* `LinksInverse` is inductive because exactly the live nodes are linked: the
neighbours that an insertion or an unlinking writes to are themselves live. The `prev` of a dead
TCB is another matter, and `DeadListed` says what: the dead are one list from `pending_free`,
each linked to once. Its head is a dead TCB (`ListHead`), a step that leaves the dead and
their `prev` alone keeps it (`ListKept`), and the TCB that exits goes before them (`ExitListed`).
This says nothing of
which ring a node is in, so `RingsInv` adds for each group a sequence: without
repetition, the links closing around it, starting at `children_head`, with `current_child` in it, and
made of exactly the linked TCBs whose parent the group is. `AroundRing` shows that the walk
of `ring::len` reads such a sequence back; it is unique, so what the links hold after a step can be
given outright: the old sequence with the newcomer inserted behind the cursor
(`InsertCloses`), or with the one that left removed (`RemoveCloses`). The refinement is then
an equation between sequences. For the walks, `next_runnable` is a recursive function over
one ring; `WalkFinds` shows that it has a value there and, backwards from the place where it
stops, that the value is the first runnable node of the lap.

*Waits.* `WaitInv` adds to the type invariant, `NoLostFlag` and `DeadlineKept` two facts:
a task blocked in `Signal::wait` is the registered waiter of an unset signal or one a setter has taken
and not woken yet (`SignalWaiter`), and at most one task is in `Signal::wait`
(`OneWaiter`, the documented use). `NoLostSignal` follows from the first; the second is
what keeps a later wait from overwriting a registration that still counts. The two action
properties follow from it by one lemma on which steps end a wait. None of this is about a wake
without the flag: `wake_all` ends no `WaitQueue::wait`, and a waiter it reaches may report
`Timeout` (section 5).

*Time slice.* `PlanSound` says of each port's `plan_timer` that what it accepts honours the
request: the widths enter here, and a plan that would not fit is refused. `TimingInv` carries that
from the plan to the configuration through the three steps of `set_slice`, whose plan belongs
to a request made earlier than the moment it takes effect. That the timer follows the
configuration needs that calls have not overlapped (`OneRetunes`); section 5 has what happens
when they do. `DurationsKept` rests on `tick_ns` being the floor of a tick and on each conversion
to ticks rounding up against that floor, so that the two errors have the same sign. Where the
clock has room for the end of the wait, the saturation and the wrapping sum change nothing
(`DeadlineIs`, `WaitIsKept`); where it has not, the theorem says what they make of the wait: it is over at
once, or never. It is
proved in Event_proofs because that module holds what is proved about deadlines.

*Pipe and executor.* The refinement maps the bytes between the two indices to Channel's queue.
`RingInv` says that the indices differ by no more than the capacity modulo the word; that
positions modulo the capacity then agree is arithmetic, and needs the capacity to divide the word.
`StreamInv` has what the wakes need: where each context is and whom it is about to wake
(`Placed`), that a side that waits although it could go on has a set coming (`Signalled`), that a
blocked waiter is registered or taken to be woken (`Registered`), and that no task blocks in `park` over a raised
flag (`WakeKept`). `TimerServes` has a hypothesis: no future makes a blocking call in its
poll. It is what the run `async_timer` violates, and the theorem says that nothing else does.

*Locks.* `LockInv` is both invariants, types, and `DropsAfterRecovery` (locks left to drop belong
to a task in `bypassed`, for which records need not follow guards). The two need each
other: that an acquired lock is not recorded already follows from the order (its id is
above the last record, which is the highest), and that a removal takes the only record of a
lock follows from the same fact (`WithoutRemoves`). Nothing in it uses the owner word, so
it holds with the two stores restored too.

*Memory.* `MemInv` is `ArenaInv` of the arena and of the pointers the nodes hold, with which
node holds what (`OwnInv`, `StackLaid`), a pending list without repetition made of dead tasks,
and `most` as a bound. `ArenaInv` has four parts: blocks lie one behind the other in the
carved space (`BlocksInv`); each is on the free list once or belongs to one allocation
(`SharedOut`); an allocation lies in its block behind header and pointer slot (`Lodged`); and
the figures of `stats` are right (`Counted`). None is inductive alone: `free` finds the block
through the word below the payload, which is intact because of `Lodged` and because blocks are
disjoint, and that the block is not free already is `SharedOut`. The fold that sums `live` is
compared with a function on subsets that is shown to exist, and the loop of
`reclaim_finished_tasks` with a function on positions; both equations are proved by a minimal
counterexample, in place of the induction the provers cannot instantiate. `CarvingEnds` needs
`Steady` beside it: of each size and alignment asked for, at most `most` blocks are carved, because
one is carved only while every block that suits the request is held. Which blocks suit is not
a matter of size alone: a TCB, a closure and a stack of one size may ask for different
alignments, and a free block of the size may sit badly. `BlocksFor` are the blocks of a size
that serve an alignment (`Serves`) and no stronger one asked for with it; that a block which serves an alignment
serves the weaker ones (`ServesWeaker`) is where alignments being powers of two enters.

Only model-checked:

* liveness (`ReadyRuns`, `SleeperRuns`, `NoneStarves`, `ShutdownEnds`, `BoundedWaitReturns`,
  `ReadDelivered`), which is out of the prover's reach;
* `NoOverdueSleeper` without its hypothesis, and `IdleOnlyWhenNothingRuns` and
  `CursorKeepsPreempted` for trees with groups inside groups. The first is false of larger trees and
  the second of some with an empty inner group (section 5), so neither can be proved for every
  value of the constants.


## 5. Observations beyond the runs

Scheduling:

* `walk_tree` spends two steps of its budget per node and `walk_limit` grants one and two
  more: with five tasks in the flat ring the last one's sleep never ends.
* In a group, a task that always blocks with quantum left and is ready again in time keeps
  the cursor; its sibling starves (README.md promises that none can).
* The root's `u32::MAX` quantum does run out and stays at zero; from then on the turn moves
  two places at a time.
* An empty group that is its parent group's cursor makes a descent end without a leaf, so
  the CPU can go idle while a sibling leaf is ready (docs/NESTED_SCHEDULING.md says that
  an empty group is skipped).
* After `exit_task` there is no current path: the next leaf is found from the
  root's cursor without advancing it, so one task can get two slices in a row.
* On such an exit the root's cursor stays where it was, even when another child is entered. If it lies
  on a blocked child that is woken in the meantime, that child loses its place with quantum left
  when the one that does run is spent. So "a cursor leaves only a child that is spent or cannot run" is
  false of a flat ring of three tasks; `CursorKeepsPreempted` says what does hold there.
* A blocked current task goes on paying ticks while the CPU idles.
* `ring::check` follows `next` to find predecessors, so it can miss a broken `prev`.
  `blocked_threads` and the diagnostics count one ring only.

Ports:

* On Cortex-M each switch restarts SysTick, so a task that yields often enough stops time;
  the other ports re-arm on every switch too. A wake or a spawn between the idle loop's
  decision and its `wfi` has its switch request cleared and waits for the next interrupt.
* ARM counts a requested switch as a tick (waits and quanta run short), and the ARM and
  RISC-V idle loops never re-arm the timer, so an expired one makes every turn of the
  loop a tick.
* Xtensa's handler tests EXCCAUSE in `a2` and `a3` before it saves them, so the interrupted
  task loses both. With nothing left to run it reclaims tasks while on the stack of the one that
  has just exited. `USE_SOFTWARE_KICK` is true where the documentation has false.
* POSIX and Xtensa go back to the interrupted task when nothing is runnable, even if it is
  blocked (DESIGN.md 8.4 knows this of POSIX).
* Win32's `on_task_reclaimed` compares a thread handle with `RUNNING_TCB`, a TCB's address.

Memory and time:

* First fit lets a closure block take a freed stack, so a respawn can fail in a steady
  state that arena.rs:36-39 says cannot.
* The count of ticks saturates, its sum with the clock wraps: `sleep(Duration::MAX)` returns at once,
  and when the sum is 0 never, where scheduler.rs:1314 says "at least". `deadline_after` and
  the lock timeouts use the same sum.
* A timer faster than 1 GHz makes `to_cycles` exceed what the later casts keep. Two
  overlapping `set_slice` calls can leave timer and configuration apart. On the ports that
  re-arm from the configuration the first slice after `set_slice` is still an old one.

Waits, locks and streams:

* `wake_all` sets no wake flag, so a waiter of `WaitQueue::wait` it reaches blocks again and may
  report `Timeout`; event.rs:228 says the wait lasts "until wake_one or wake_all reaches this task".
* `park(Some(0))` and the waits with `Some(0)`, or with a deadline whose sum has wrapped to 0, wait
  for ever (`unwrap_or(0)`, event.rs:51, 166, 233).
* A `Signal::set` after its waiter has timed out ends that task's next plain sleep early.
* `Mutex::unlock` removes the record while the caller's guard lives on: the order rule then lets
  the task lock the same or a lower lock again, and its guards release twice.
* Taking a lock one holds is reported as an ordering violation, since the owner
  word never names the caller. `release_all_held_locks` clears the records of locks that are
  not registered without releasing them, and guards kept across `lock_with_backoff` release a
  second time when they drop. `held_remove` runs outside the lock's section.
* With a deadline, `SignalWait` notices a signal only when the deadline
  comes (exec.rs:213-217); its comment (exec.rs:208-212) says on the next tick at the latest. The
  async reads and writes always pass the default deadline, so a task that has nothing
  else to wake it notices bytes only then.
* A read into an empty buffer waits with bytes in the pipe (io.rs:189-196), and so does an async
  read or write of nothing; a blocking write of nothing returns at once (io.rs:202).
* `write_blocking` that times out does not report the bytes it has written.


## 6. Plan

Done in order: tree, rings, Cortex-M, waits; then locks, memory, timing, the other ports,
pipe and executor. Left, in order:

1. The tick step by step: the sweep of `wake_expired` interleaved with device interrupts.
2. The lock protocol as written in the comment lines (exclusion, hand-over on release).
3. Several cores: `SpinLock`'s interlock and mask, inter-core kicks.
4. The Xtensa window handlers as a model of the register file.

Proofs: a bound on the number of nodes in place of the hypothesis `BudgetSuffices`.

## 7. Not modelled

Register layout and pure assembly (frames, window handlers), how a closure is moved into its block and called, statistics,
diagnostics and logging, start-up, firmware and examples, the HAL adapters (one call
each), and several cores, which the kernel refuses to enable. `wait_until` is a
poll loop over `yield_now`. The two-word accesses to RISC-V's `mtime` and `mtimecmp` are one
access each. In `Ports` the interrupted task's registers are one value, saved or not.
