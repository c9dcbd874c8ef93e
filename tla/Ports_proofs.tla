---------------------------- MODULE Ports_proofs ----------------------------
(***************************************************************************)
(* Proofs about the other five ports: each drives the tree only through    *)
(* the kernel's own sections, so what is proved of the tree holds there.   *)
(***************************************************************************)
EXTENDS Ports, SchedTree_proofs

\* Every step of a port is a step of the kernel or leaves the tree alone.
LEMMA PortsStep ==
  ASSUME [PortsNext]_vars
  PROVE  [Next]_tree
<1>1. CASE Calls
  <2>1. Spawns => [Next]_tree
    BY DEF Spawns, Next
  <2>2. TaskBlocks => [Next]_tree
    BY DEF TaskBlocks, Next
  <2>3. Wakes \/ TaskExits => [Next]_tree
    BY DEF Wakes, TaskExits, Next
  <2>4. FailsToSpawn \/ Shutdown => [Next]_tree
    BY DEF FailsToSpawn, Shutdown, Next
  <2> QED BY <1>1, <2>1, <2>2, <2>3, <2>4 DEF Calls
<1>2. ASSUME NEW freed, freed = pending \/ freed = Unpinned, Reclaims(freed)
      PROVE  [Next]_tree
  <2>1. freed \in SUBSET pending
    BY <1>2 DEF Unpinned
  <2> QED BY <1>2, <2>1 DEF Reclaims, Next
<1>3. riscv_trap_switch \/ arm_irq_switch \/ xtensa_trap_switch \/ posix_switch \/ win32_switch
        => [Next]_tree
  <2>1. ASSUME NEW pick \in Picks, schedule_next(pick, {}) PROVE [Next]_tree
    <3>1. pick = PickNextLeaf(LinkedCurrent)
      BY DEF Picks
    <3>2. {} \in SUBSET pending
      OBVIOUS
    <3> QED BY <2>1, <3>1, <3>2 DEF Next
  <2>2. riscv_trap_switch \/ arm_irq_switch \/ xtensa_trap_switch => [Next]_tree
    BY <2>1 DEF riscv_trap_switch, arm_irq_switch, xtensa_trap_switch, SwitchStacks
  <2>3. posix_switch \/ win32_switch => [Next]_tree
    BY <2>1 DEF posix_switch, win32_switch
  <2> QED BY <2>2, <2>3
<1>4. CASE RiscVNext \/ ArmNext
  <2>1. on_tick => [Next]_tree
    BY DEF Next
  <2> QED BY <1>2, <1>3, <1>4, <2>1
       DEF RiscVNext, riscv_trap_entry, riscv_trap_cause, riscv_after_switch,
           riscv_idle, ArmNext, arm_irq_entry, arm_irq_tick, arm_after_switch,
           arm_idle, Enter, AfterSwitch, WaitInHandler
<1>5. CASE XtensaNext
  <2>1. on_tick \/ (\E freed \in SUBSET pending : reclaim_finished_tasks(freed)) => [Next]_tree
    BY DEF Next
  <2>2. pending \in SUBSET pending
    OBVIOUS
  <2> QED BY <1>3, <1>5, <2>1, <2>2
       DEF XtensaNext, xtensa_exception_handler, xtensa_trap_pending,
           xtensa_after_switch, Enter
<1>6. CASE PosixNext \/ Win32Next
  <2>1. on_tick => [Next]_tree
    BY DEF Next
  <2> QED BY <1>2, <1>3, <1>6, <2>1
       DEF PosixNext, posix_signal, posix_from_timer, posix_back,
           Win32Next, win32_wait, win32_lock, win32_tick, win32_reclaim
<1>7. CASE ExitKicks \/ TimerExpires \/ UNCHANGED vars
  BY <1>7 DEF ExitKicks, TimerExpires, vars
<1> QED BY <1>1, <1>4, <1>5, <1>6, <1>7 DEF PortsNext, Handler

\* Whichever port it is built for, the kernel does what SchedTree allows.
THEOREM PortsImplementTree == PortsSpec => Spec
<1>1. PortInit => Init
  BY DEF PortInit
<1>2. [PortsNext]_vars => [Next]_tree
  BY PortsStep
<1> QED BY <1>1, <1>2, PTL DEF PortsSpec, Spec

\* On no port does a reference of the tree outlive its TCB.
THEOREM PortsTreeSafe == PortsSpec => []TreeInv
BY PortsImplementTree, TreeSafe, PTL

-----------------------------------------------------------------------------
(* Who is on the CPU, and in what state everyone else was left *)

\* A handler that publishes the interrupted context keeps it in memory until
\* the switch is decided; POSIX and Win32 leave it in the registers.
Published == arch \in {"RiscV", "Arm", "Xtensa"} /\ at \in {"Cause", "Choose", "Idle"}

\* The CPU stands on the stack of the current task, or on that of a task that
\* has exited, or (Win32) on that of nobody.
OnCpu ==
  \/ /\ cpu # Null /\ cpu = current
     /\ IF Published THEN ctx[cpu] \in Resumable
        ELSE IF arch = "Xtensa" /\ at = "After" THEN ctx[cpu] \in Resumable \cup {"Live"}
        ELSE ctx[cpu] = "Live"
  \/ /\ cpu # Null /\ current = Null
     /\ state[cpu] \in {"Dead"} \cup (IF arch = "Xtensa" THEN {"Free"} ELSE {})
     /\ arch = "Win32" => ctx[cpu] = "Live"
  \/ cpu = Null /\ arch = "Win32"

\* The task a switch has just chosen can run.
ChosenRuns ==
  at = "After" /\ arch # "Xtensa" =>
    cpu # Null /\ cpu = current /\ state[cpu] \in {"Ready", "Running"}

OneResumed ==
  arch = "Win32" =>
    \A l \in Leaf : (ctx[l] = "Live" => l = cpu) /\ ctx[l] # "Twice"

PortsInv ==
  /\ Inv /\ PortsTypeOK
  /\ OthersSaved /\ OnCpu /\ ChosenRuns /\ BlockedIsParked
  /\ OneResumed /\ HandlesFollowTasks

\* What a step of the kernel that starts and ends no task leaves of the states.
Alike ==
  \A l \in Leaf : /\ (state'[l] \in Live) = (state[l] \in Live)
                  /\ state'[l] \notin Live => state'[l] = state[l]
                  /\ state'[l] = "Blocked" => state[l] = "Blocked"

\* A tick readies the tasks whose time has come, and no more.
LEMMA TickAlike ==
  ASSUME Inv, on_tick
  PROVE  Alike /\ current' = current
<1>1. state' = [n \in Node |-> IF n \in Expired THEN "Ready" ELSE state[n]] /\ current' = current
  BY DEF on_tick, MakeReady
<1>2. \A n \in Expired : state[n] = "Blocked"
  BY DEF Expired
<1> QED BY <1>1, <1>2 DEF Alike, Live, Node

\* A switch marks who runs and who no longer does.
LEMMA ScheduleAlike ==
  ASSUME Inv, NEW pick \in Picks, schedule_next(pick, {})
  PROVE  /\ pick.leaf \in (Leaf \cap CanRun) \cup {Null}
         /\ current' = IF pick.leaf = Null THEN current ELSE pick.leaf
         /\ pick.leaf # Null => state'[pick.leaf] \in {"Ready", "Running"}
         /\ Alike /\ togo' = togo
<1> DEFINE next == pick.leaf
<1>1. LinkedCurrent = current /\ current \in Leaf \cup {Null}
  <2>1. current \in Leaf \cup {Null}
    BY DEF Inv, TreeTypeOK
  <2>2. current # Null => current \in Node \ {Root} /\ state[current] \in Live
    BY <2>1, TreeAssumption DEF Inv, TreeInv, CurrentIsLive, Node
  <2>3. current # Null => IsLinked(current)
    BY <2>2 DEF IsLinked, Inv, TreeInv, LinkedIffLive
  <2> QED BY <2>1, <2>3 DEF LinkedCurrent
<1>2. next \in (Leaf \cap CanRun) \cup {Null}
  BY <1>1, PickNextLeafOK DEF PickOK, Picks
<1>3. /\ current' = IF next = Null THEN current ELSE next
      /\ togo' = togo
      /\ state' = [n \in Node |->
                     CASE n = next /\ next # current -> "Running"
                       [] n = current /\ next \notin {current, Null} /\ state[n] = "Running" -> "Ready"
                       [] OTHER -> state[n]]
  <2> HIDE DEF next
  <2>1. state' = [n \in Node |->
                     CASE n \in {} -> "Free"
                       [] n \notin {} /\ n = next /\ next # current -> "Running"
                       [] n \notin {} /\ n = current /\ next \notin {current, Null}
                            /\ state[n] = "Running" -> "Ready"
                       [] OTHER -> state[n]]
    BY <1>1 DEF schedule_next, next
  <2>2. \A n \in Node : state'[n] =
                     CASE n = next /\ next # current -> "Running"
                       [] n = current /\ next \notin {current, Null} /\ state[n] = "Running" -> "Ready"
                       [] OTHER -> state[n]
    BY <2>1
  <2> QED BY <1>1, <2>1, <2>2 DEF schedule_next, next
<1>4. next # Null => next \in Leaf /\ state[next] \in {"Ready", "Running"}
  BY <1>2 DEF CanRun
<1> HIDE DEF next
<1>5. \A l \in Leaf : l \in Node
  BY DEF Node
<1>6. next # Null => state'[next] \in {"Ready", "Running"}
  BY <1>3, <1>4, <1>5
<1>7. Alike
  <2> SUFFICES ASSUME NEW l \in Leaf
               PROVE  state'[l] = state[l] \/ {state[l], state'[l]} \subseteq {"Ready", "Running"}
    BY DEF Alike, Live
  <2>1. CASE l = next /\ next # current
    BY <1>3, <1>4, <1>5, <1>2, <2>1, TreeAssumption DEF Node
  <2>2. CASE l # next \/ next = current
    BY <1>3, <1>5, <2>2
  <2> QED BY <2>1, <2>2
<1> QED BY <1>2, <1>3, <1>6, <1>7 DEF next

\* Only the dead are reclaimed.
LEMMA ReclaimsDead ==
  ASSUME Inv, NEW freed \in SUBSET pending, Reclaims(freed)
  PROVE  /\ \A l \in freed : l \in Leaf /\ state[l] = "Dead"
         /\ \A l \in Leaf : state'[l] = IF l \in freed THEN "Free" ELSE state[l]
         /\ current' = current /\ current \notin freed /\ togo' = togo
<1>1. \A l \in freed : l \in Leaf /\ state[l] = "Dead"
  BY DEF Inv, TreeInv, PendingIsDead, TreeTypeOK
<1>2. \A l \in Leaf : l \in Node
  BY DEF Node
<1>3. current \notin freed
  BY <1>1, TreeAssumption DEF Inv, TreeInv, CurrentIsLive, Live, Node
<1>4. CASE freed = {}
  BY <1>1, <1>3, <1>4 DEF Reclaims, tree
<1>5. CASE freed # {}
  BY <1>1, <1>2, <1>3, <1>5 DEF Reclaims, reclaim_finished_tasks
<1> QED BY <1>4, <1>5

-----------------------------------------------------------------------------
(* The port's invariant, step by step *)

\* The types the steps below rely on.
LEMMA PortsFacts ==
  ASSUME PortsInv
  PROVE  /\ Null \notin Leaf /\ Leaf \subseteq Node
         /\ cpu \in Leaf \cup {Null} /\ current \in Leaf \cup {Null}
         /\ current # Null => state[current] \in Live
         /\ ctx \in [Leaf -> Contexts] /\ handles \subseteq Leaf /\ at \in Phases
         /\ state \in [Node -> Live \cup {"Dead", "Free"}]
         /\ kick \in BOOLEAN /\ due \in BOOLEAN /\ shutdown \in BOOLEAN /\ exits \in BOOLEAN
BY TreeAssumption DEF PortsInv, Inv, TreeTypeOK, TreeInv, CurrentIsLive, PortsTypeOK, Node

\* A step that leaves every context where it is and starts or ends no task.
LEMMA QuietInv ==
  ASSUME PortsInv, Inv', PortsTypeOK', Alike, UNCHANGED <<arch, cpu, ctx, handles, current>>,
         at' = at \/ (at' \notin {"Task", "After"} /\ at # "After" /\ Published' = Published),
         at' = "Task" /\ kick => kick'
  PROVE  PortsInv'
<1>0. Null \notin Leaf /\ cpu \in Leaf \cup {Null}
  BY PortsFacts
<1>1. OthersSaved'
  BY DEF PortsInv, OthersSaved, Alike, Resumable
<1>2. Published' = Published
  BY DEF Published
<1>3. at' = "After" <=> at = "After"
  OBVIOUS
<1>4. OnCpu'
  <2>1. cpu # Null /\ state[cpu] \in {"Dead"} \cup (IF arch = "Xtensa" THEN {"Free"} ELSE {})
          => state'[cpu] = state[cpu]
    BY <1>0 DEF Alike, Live
  <2> QED BY <1>2, <1>3, <2>1 DEF PortsInv, OnCpu, Resumable
<1>5. ChosenRuns'
  BY <1>0, <1>3 DEF PortsInv, ChosenRuns, Alike, Live
<1>6. BlockedIsParked'
  BY DEF PortsInv, BlockedIsParked, Alike
<1>7. OneResumed'
  BY DEF PortsInv, OneResumed
<1>8. HandlesFollowTasks'
  BY DEF PortsInv, HandlesFollowTasks, Alike, Live
<1> QED BY <1>1, <1>4, <1>5, <1>6, <1>7, <1>8 DEF PortsInv

\* The task on the CPU of a port whose task code runs is the current one.
LEMMA ExecutesCurrent ==
  ASSUME PortsInv, NEW l \in Leaf, Executes(l)
  PROVE  cpu = l /\ current = l /\ ctx[l] = "Live" /\ state[l] \in Live /\ at \in {"Task", "Woken"}
BY PortsFacts DEF Executes, PortsInv, OnCpu, Published, Live

LEMMA SpawnsInv ==
  ASSUME PortsInv, Inv', Spawns
  PROVE  PortsInv'
<1>0. /\ Null \notin Leaf /\ Leaf \subseteq Node /\ ctx \in [Leaf -> Contexts] /\ handles \subseteq Leaf
      /\ state \in [Node -> Live \cup {"Dead", "Free"}]
  BY PortsFacts
<1>1. PICK l \in Leaf : cpu = l /\ current = l /\ ctx[l] = "Live" /\ state[l] \in Live /\ at \in {"Task", "Woken"}
  BY ExecutesCurrent DEF Spawns, TaskRuns
<1>2. PICK n \in Node :
        /\ state[n] = "Free" /\ state' = [state EXCEPT ![n] = "Ready"] /\ current' = current
        /\ IF n \in Leaf THEN create_task(n) /\ request_switch
                         ELSE UNCHANGED <<ctx, handles, kick>>
        /\ UNCHANGED <<build, at, cpu, due, cause, shutdown>>
  BY DEF Spawns, Spawn
<1>3. /\ ctx' = IF n \in Leaf THEN [ctx EXCEPT ![n] = "Entry"] ELSE ctx
      /\ handles' = IF n \in Leaf /\ arch = "Win32" THEN handles \cup {n} ELSE handles
      /\ kick' = IF n \in Leaf THEN TRUE ELSE kick
      /\ UNCHANGED <<arch, at, cpu, exits>>
  BY <1>2 DEF create_task, request_switch, build
<1>4. n # l
  BY <1>1, <1>2 DEF Live
<1>5. PortsTypeOK'
  BY <1>0, <1>2, <1>3 DEF PortsInv, PortsTypeOK, Inv, Contexts, build
<1>6. OthersSaved'
  BY <1>0, <1>1, <1>2, <1>3 DEF PortsInv, OthersSaved, Resumable
<1>7. OnCpu'
  BY <1>0, <1>1, <1>2, <1>3, <1>4 DEF PortsInv, OnCpu, Published
<1>8. ChosenRuns' /\ BlockedIsParked'
  BY <1>0, <1>1, <1>2, <1>3, <1>4 DEF PortsInv, ChosenRuns, BlockedIsParked
<1>9. OneResumed'
  BY <1>0, <1>1, <1>2, <1>3, <1>4 DEF PortsInv, OneResumed
<1>10. HandlesFollowTasks'
  BY <1>0, <1>1, <1>2, <1>3, <1>4 DEF PortsInv, HandlesFollowTasks, Live
<1> QED BY <1>5, <1>6, <1>7, <1>8, <1>9, <1>10 DEF PortsInv

LEMMA BlocksAndExitsInv ==
  ASSUME PortsInv, Inv', TaskBlocks \/ TaskExits
  PROVE  PortsInv'
<1>0. /\ Null \notin Leaf /\ Leaf \subseteq Node /\ state \in [Node -> Live \cup {"Dead", "Free"}]
  BY PortsFacts
<1>1. PICK l \in Leaf : /\ cpu = l /\ current = l /\ ctx[l] = "Live"
                        /\ state[l] \in Live /\ at \in {"Task", "Woken"}
  BY ExecutesCurrent DEF TaskBlocks, TaskExits, TaskRuns
<1>2. \/ state' = [state EXCEPT ![l] = "Blocked"] /\ current' = l /\ kick' = TRUE
      \/ state' = [state EXCEPT ![l] = "Dead"] /\ current' = Null /\ kick' = kick
  BY <1>1 DEF TaskBlocks, TaskExits, mark_blocked_locked, exit_task, request_switch, port
<1>3. UNCHANGED <<arch, exits, at, cpu, ctx, due, cause, handles, shutdown>>
  BY DEF TaskBlocks, TaskExits, build, port
<1>4. PortsTypeOK'
  BY <1>2, <1>3 DEF PortsInv, PortsTypeOK, Inv
<1>5. OthersSaved'
  BY <1>0, <1>1, <1>2, <1>3 DEF PortsInv, OthersSaved, Resumable
<1>6. OnCpu'
  BY <1>0, <1>1, <1>2, <1>3 DEF PortsInv, OnCpu, Published
<1>7. ChosenRuns' /\ BlockedIsParked'
  BY <1>0, <1>1, <1>2, <1>3 DEF PortsInv, ChosenRuns, BlockedIsParked
<1>8. OneResumed'
  BY <1>3 DEF PortsInv, OneResumed
<1>9. HandlesFollowTasks'
  BY <1>0, <1>1, <1>2, <1>3 DEF PortsInv, HandlesFollowTasks, Live
<1> QED BY <1>4, <1>5, <1>6, <1>7, <1>8, <1>9 DEF PortsInv

\* Entering a handler that publishes the interrupted context.
LEMMA EnterInv ==
  ASSUME PortsInv, Inv', NEW why \in {"None", "Soft", "Timer"}, NEW as \in Resumable, Enter(why, as),
         arch \in {"RiscV", "Arm", "Xtensa"}
  PROVE  PortsInv'
<1>0. /\ Null \notin Leaf /\ cpu \in Leaf \cup {Null} /\ current \in Leaf \cup {Null}
      /\ ctx \in [Leaf -> Contexts] /\ Resumable \subseteq Contexts
  BY PortsFacts DEF Resumable, Contexts
<1>1. /\ at = "Task" /\ at' = "Cause" /\ cause' = why
      /\ ctx' = IF current = Null THEN ctx ELSE [ctx EXCEPT ![current] = as]
      /\ UNCHANGED <<arch, exits, cpu, kick, due, handles, shutdown>>
      /\ UNCHANGED state /\ UNCHANGED current
  BY DEF Enter, Publish, build, tree
<1>2. PortsTypeOK'
  BY <1>0, <1>1 DEF PortsInv, PortsTypeOK, Inv, Phases
<1>3. OthersSaved'
  BY <1>0, <1>1 DEF PortsInv, OthersSaved, Resumable
<1>4. OnCpu'
  BY <1>0, <1>1 DEF PortsInv, OnCpu, Published, Resumable
<1>5. ChosenRuns' /\ BlockedIsParked'
  BY <1>1 DEF ChosenRuns, BlockedIsParked
<1>6. OneResumed' /\ HandlesFollowTasks'
  BY <1>1 DEF PortsInv, OneResumed, HandlesFollowTasks
<1> QED BY <1>2, <1>3, <1>4, <1>5, <1>6 DEF PortsInv

\* Switching stacks on the ports that publish.
LEMMA SwitchStacksInv ==
  ASSUME PortsInv, Inv', NEW pick \in Picks, NEW none \in Phases, SwitchStacks(pick, none),
         (arch \in {"RiscV", "Arm"} /\ none = "Idle") \/ (arch = "Xtensa" /\ none = "After"),
         UNCHANGED <<build, kick, cause, handles, shutdown>>, due' \in {due, FALSE}
  PROVE  PortsInv'
<1> DEFINE next == pick.leaf
<1>0. /\ Null \notin Leaf /\ Leaf \subseteq Node /\ cpu \in Leaf \cup {Null}
      /\ current \in Leaf \cup {Null} /\ ctx \in [Leaf -> Contexts]
      /\ current # Null => state[current] \in Live
      /\ due \in BOOLEAN
  BY PortsFacts
<1>1. /\ at = "Choose" /\ at' = IF next = Null THEN none ELSE "After"
      /\ cpu' = IF next = Null THEN cpu ELSE next
      /\ ctx' = IF next = Null THEN ctx ELSE [ctx EXCEPT ![next] = "Live"]
      /\ UNCHANGED <<arch, exits>>
  BY DEF SwitchStacks, build
<1>2. /\ next \in (Leaf \cap CanRun) \cup {Null}
      /\ current' = IF next = Null THEN current ELSE next
      /\ next # Null => state'[next] \in {"Ready", "Running"}
      /\ Alike
  BY ScheduleAlike DEF SwitchStacks, PortsInv
<1>3. PortsTypeOK'
  BY <1>0, <1>1, <1>2 DEF PortsInv, PortsTypeOK, Inv, Phases, Contexts
<1>4. OthersSaved'
  <2> SUFFICES ASSUME NEW l \in Leaf, state'[l] \in Live, l # cpu' PROVE ctx'[l] \in Resumable
    BY <1>1 DEF OthersSaved, Resumable
  <2>1. state[l] \in Live /\ ctx'[l] = ctx[l]
    BY <1>0, <1>1, <1>2 DEF Alike
  <2>2. CASE l # cpu
    BY <2>1, <2>2 DEF PortsInv, OthersSaved
  <2>3. CASE l = cpu
    <3>1. cpu = current
      BY <1>0, <2>1, <2>3 DEF PortsInv, OnCpu, Live
    <3> QED BY <1>0, <1>1, <2>1, <2>3, <3>1 DEF PortsInv, OnCpu, Published
  <2> QED BY <2>2, <2>3
<1>5. OnCpu'
  <2>1. CASE next # Null
    BY <1>0, <1>1, <1>2, <2>1 DEF OnCpu, Published
  <2>2. CASE next = Null
    <3>1. cpu' = cpu /\ current' = current /\ ctx' = ctx /\ arch' = arch /\ at' = none
      BY <1>1, <1>2, <2>2
    <3>2. cpu # Null /\ state[cpu] \in {"Dead"} \cup (IF arch = "Xtensa" THEN {"Free"} ELSE {})
          => state'[cpu] = state[cpu]
      BY <1>0, <1>2 DEF Alike, Live
    <3> QED BY <1>1, <3>1, <3>2 DEF PortsInv, OnCpu, Published, Resumable
  <2> QED BY <2>1, <2>2
<1>6. ChosenRuns' /\ BlockedIsParked'
  BY <1>0, <1>1, <1>2 DEF ChosenRuns, BlockedIsParked
<1>7. OneResumed' /\ HandlesFollowTasks'
  BY <1>1 DEF OneResumed, HandlesFollowTasks
<1> QED BY <1>3, <1>4, <1>5, <1>6, <1>7 DEF PortsInv

\* Reclaiming on the incoming stack, and the way back to the task.
LEMMA AfterInv ==
  ASSUME PortsInv, Inv', at = "After", at' = "Task", arch # "Win32",
         \/ arch # "Xtensa" /\ Reclaims(pending)
         \/ xtensa_after_switch,
         cause' \in {cause, "None"}, due' \in {due, FALSE},
         UNCHANGED <<build, cpu, kick, handles, shutdown>>
  PROVE  PortsInv'
<1>0. /\ Null \notin Leaf /\ Leaf \subseteq Node /\ cpu \in Leaf \cup {Null}
      /\ current \in Leaf \cup {Null} /\ ctx \in [Leaf -> Contexts]
      /\ current # Null => state[current] \in Live
      /\ due \in BOOLEAN
  BY PortsFacts
<1>1. UNCHANGED <<arch, exits, cpu, kick, handles, shutdown>>
  BY DEF build
<1>2. /\ \A l \in pending : l \in Leaf /\ state[l] = "Dead"
      /\ \A l \in Leaf : state'[l] = IF l \in pending THEN "Free" ELSE state[l]
      /\ current' = current /\ current \notin pending
  <2>1. CASE arch # "Xtensa" /\ Reclaims(pending)
    BY <2>1, ReclaimsDead DEF PortsInv
  <2>2. CASE xtensa_after_switch
    <3>1. \A l \in pending : l \in Leaf /\ state[l] = "Dead"
      BY DEF PortsInv, Inv, TreeInv, PendingIsDead, TreeTypeOK
    <3>2. current \notin pending
      BY <1>0, <3>1 DEF Live
    <3>3. CASE pending = {}
      BY <2>2, <3>1, <3>2, <3>3 DEF xtensa_after_switch, tree
    <3>4. CASE pending # {}
      BY <1>0, <2>2, <3>1, <3>2, <3>4 DEF xtensa_after_switch, reclaim_finished_tasks
    <3> QED BY <3>3, <3>4
  <2> QED BY <2>1, <2>2
<1>3. ctx' = [l \in Leaf |-> IF l \in pending THEN "None"
                             ELSE IF arch = "Xtensa" /\ l = cpu THEN "Live" ELSE ctx[l]]
  <2>1. CASE arch # "Xtensa" /\ Reclaims(pending)
    BY <2>1 DEF Reclaims
  <2>2. CASE xtensa_after_switch
    BY <2>2 DEF xtensa_after_switch
  <2> QED BY <2>1, <2>2
<1>4. PortsTypeOK'
  BY <1>0, <1>1, <1>3 DEF PortsInv, PortsTypeOK, Inv, Phases, Contexts
<1>5. OthersSaved'
  BY <1>0, <1>1, <1>2, <1>3 DEF PortsInv, OthersSaved, Resumable, Live
<1>6. OnCpu'
  <2>1. CASE cpu # Null /\ cpu = current
    BY <1>0, <1>1, <1>2, <1>3, <2>1 DEF PortsInv, OnCpu, Published, Live
  <2>2. CASE cpu # Null /\ current = Null
    <3>1. arch = "Xtensa"
      BY <2>2 DEF PortsInv, ChosenRuns
    <3>2. cpu \in Leaf /\ state[cpu] \in {"Dead", "Free"}
      BY <1>0, <2>2 DEF PortsInv, OnCpu
    <3>3. state'[cpu] \in {"Dead", "Free"}
      BY <1>2, <3>2
    <3> QED BY <1>1, <1>2, <2>2, <3>1, <3>3 DEF OnCpu
  <2> QED BY <2>1, <2>2 DEF PortsInv, OnCpu
<1>7. ChosenRuns'
  BY DEF ChosenRuns
<1>8. BlockedIsParked'
  BY <1>0, <1>1, <1>2 DEF PortsInv, ChosenRuns, BlockedIsParked
<1>9. OneResumed' /\ HandlesFollowTasks'
  BY <1>1 DEF OneResumed, HandlesFollowTasks
<1> QED BY <1>4, <1>5, <1>6, <1>7, <1>8, <1>9 DEF PortsInv

\* The POSIX switch saves whom it leaves, unless that one has exited.
LEMMA PosixSwitchInv ==
  ASSUME PortsInv, Inv', posix_switch
  PROVE  PortsInv'
<1>0. /\ Null \notin Leaf /\ Leaf \subseteq Node /\ cpu \in Leaf \cup {Null}
      /\ current \in Leaf \cup {Null} /\ ctx \in [Leaf -> Contexts]
  BY PortsFacts
<1>a. PICK pick \in Picks :
        LET next  == pick.leaf
            stays == next \in {Null, current}
        IN  /\ arch = "Posix" /\ at = "Choose"
            /\ schedule_next(pick, {})
            /\ at' = IF ~stays /\ ctx[next] # "Entry" THEN "After" ELSE "Task"
            /\ cpu' = IF stays THEN cpu ELSE next
            /\ IF stays THEN UNCHANGED ctx ELSE rrkernel_switch(current, next)
            /\ rearm_timer
            /\ UNCHANGED <<build, kick, cause, handles, shutdown>>
  BY DEF posix_switch
<1> DEFINE next  == pick.leaf
           stays == next \in {Null, current}
<1>1. /\ arch = "Posix" /\ at = "Choose"
      /\ at' = IF ~stays /\ ctx[next] # "Entry" THEN "After" ELSE "Task"
      /\ cpu' = IF stays THEN cpu ELSE next
      /\ stays => ctx' = ctx
      /\ ~stays => ctx' = [l \in Leaf |-> CASE l = next -> "Live"
                                            [] l # next /\ l = current -> "Saved"
                                            [] OTHER -> ctx[l]]
      /\ due' = FALSE
      /\ UNCHANGED <<arch, exits, kick, cause, handles, shutdown>>
  BY <1>a DEF rearm_timer, build, rrkernel_switch
<1>2. /\ next \in (Leaf \cap CanRun) \cup {Null}
      /\ current' = IF next = Null THEN current ELSE next
      /\ next # Null => state'[next] \in {"Ready", "Running"}
      /\ Alike
  BY <1>a, ScheduleAlike DEF PortsInv
<1> HIDE DEF next
<1>3. PortsTypeOK'
  <2>1. ctx' \in [Leaf -> Contexts]
    BY <1>0, <1>1 DEF Contexts
  <2>2. cpu' \in Leaf \cup {Null} /\ at' \in Phases
    BY <1>0, <1>1, <1>2 DEF Phases
  <2> QED BY <1>1, <2>1, <2>2 DEF PortsInv, PortsTypeOK, Inv
<1>4. cpu # Null /\ (current = Null \/ (cpu = current /\ ctx[cpu] = "Live"))
  <2>1. arch = "Posix"
    BY <1>1
  <2> QED BY <2>1 DEF PortsInv, OnCpu, Published
<1>5. OthersSaved'
  <2> SUFFICES ASSUME NEW l \in Leaf, state'[l] \in Live, l # cpu' PROVE ctx'[l] \in Resumable
    BY <1>1 DEF OthersSaved, Resumable
  <2>1. state[l] \in Live
    BY <1>2 DEF Alike
  <2>2. CASE l # cpu
    BY <1>1, <2>1, <2>2 DEF PortsInv, OthersSaved, Resumable
  <2>3. CASE l = cpu
    <3>1. cpu = current
      BY <1>0, <1>1, <2>1, <2>3 DEF PortsInv, OnCpu, Live
    <3> QED BY <1>0, <1>1, <2>3, <3>1 DEF Resumable
  <2> QED BY <2>2, <2>3
<1>6. OnCpu'
  <2>1. CASE ~stays
    BY <1>0, <1>1, <1>2, <2>1 DEF OnCpu, Published
  <2>2. CASE stays
    <3>1. cpu' = cpu /\ ctx' = ctx /\ current' = current
      BY <1>1, <1>2, <2>2
    <3>2. current = Null => state'[cpu] = state[cpu]
      BY <1>0, <1>1, <1>2, <1>4 DEF PortsInv, OnCpu, Alike, Live
    <3> QED BY <1>1, <1>4, <3>1, <3>2 DEF PortsInv, OnCpu, Published
  <2> QED BY <2>1, <2>2
<1>7. ChosenRuns' /\ BlockedIsParked'
  BY <1>0, <1>1, <1>2 DEF ChosenRuns, BlockedIsParked
<1>8. OneResumed' /\ HandlesFollowTasks'
  BY <1>1 DEF OneResumed, HandlesFollowTasks
<1> QED BY <1>3, <1>5, <1>6, <1>7, <1>8 DEF PortsInv

\* Win32 reclaims all but the task whose thread is the running one.
LEMMA Win32ReclaimInv ==
  ASSUME PortsInv, Inv', win32_reclaim
  PROVE  PortsInv'
<1>0. /\ Null \notin Leaf /\ cpu \in Leaf \cup {Null} /\ current \in Leaf \cup {Null}
      /\ ctx \in [Leaf -> Contexts] /\ handles \subseteq Leaf
  BY PortsFacts
<1>1. /\ arch = "Win32" /\ at = "Reclaim" /\ at' = "Choose"
      /\ ctx' = [l \in Leaf |-> IF l \in Unpinned THEN "None" ELSE ctx[l]]
      /\ handles' = handles \ Unpinned
      /\ UNCHANGED <<arch, exits, cpu, kick, due, cause, shutdown>>
  BY DEF win32_reclaim, Reclaims, build
<1>2. /\ \A l \in Unpinned : l \in Leaf /\ state[l] = "Dead"
      /\ \A l \in Leaf : state'[l] = IF l \in Unpinned THEN "Free" ELSE state[l]
      /\ current' = current /\ cpu \notin Unpinned
  <2>1. Unpinned \in SUBSET pending /\ cpu \notin Unpinned
    BY DEF Unpinned
  <2> QED BY <2>1, ReclaimsDead DEF win32_reclaim, PortsInv
<1>3. PortsTypeOK'
  BY <1>0, <1>1 DEF PortsInv, PortsTypeOK, Inv, Phases, Contexts
<1>4. OthersSaved'
  BY <1>0, <1>1, <1>2 DEF PortsInv, OthersSaved, Resumable, Live
<1>5. OnCpu'
  BY <1>0, <1>1, <1>2 DEF PortsInv, OnCpu, Published
<1>6. ChosenRuns' /\ BlockedIsParked'
  BY <1>1 DEF ChosenRuns, BlockedIsParked
<1>7. OneResumed' /\ HandlesFollowTasks'
  BY <1>0, <1>1, <1>2 DEF PortsInv, OneResumed, HandlesFollowTasks, Live
<1> QED BY <1>3, <1>4, <1>5, <1>6, <1>7 DEF PortsInv

\* Win32 suspends one thread and resumes one; when nothing can run it leaves
\* all suspended.
LEMMA Win32SwitchInv ==
  ASSUME PortsInv, Inv', win32_switch
  PROVE  PortsInv'
<1>0. /\ Null \notin Leaf /\ Leaf \subseteq Node /\ cpu \in Leaf \cup {Null}
      /\ current \in Leaf \cup {Null} /\ ctx \in [Leaf -> Contexts] /\ handles \subseteq Leaf
      /\ current # Null => state[current] \in Live
  BY PortsFacts
<1>a. PICK pick \in Picks :
        LET next == pick.leaf
        IN  /\ arch = "Win32" /\ at = "Choose"
            /\ schedule_next(pick, {})
            /\ IF next = Null /\ exits
               THEN finish_shutdown /\ UNCHANGED <<cpu, ctx, handles, due>>
               ELSE /\ at' = "Task"
                    /\ cpu' = next
                    /\ suspend_and_maybe_close(cpu, next)
                    /\ rearm_timer
            /\ cause' = "None"
            /\ UNCHANGED <<build, kick, shutdown>>
  BY DEF win32_switch
<1> DEFINE next == pick.leaf
           gone == IF cpu # next /\ cpu \in Leaf /\ state[cpu] = "Dead" THEN {cpu} ELSE {}
<1>1. /\ arch = "Win32" /\ at = "Choose" /\ cause' = "None"
      /\ UNCHANGED <<arch, exits, kick, shutdown>>
      /\ \/ next = Null /\ at' = "Ended" /\ UNCHANGED <<cpu, ctx, handles, due>>
         \/ /\ at' = "Task" /\ cpu' = next /\ due' = FALSE
            /\ ctx' = [l \in Leaf |-> CASE l = next -> Resumed(ctx[l])
                                        [] l # next /\ l = cpu -> Suspended(ctx[l])
                                        [] OTHER -> ctx[l]]
            /\ handles' = handles \ gone
  BY <1>a DEF rearm_timer, build, finish_shutdown, suspend_and_maybe_close
<1>2. /\ next \in (Leaf \cap CanRun) \cup {Null}
      /\ current' = IF next = Null THEN current ELSE next
      /\ next # Null => state'[next] \in {"Ready", "Running"}
      /\ Alike
  BY <1>a, ScheduleAlike DEF PortsInv
<1> HIDE DEF next
<1>3. \A l \in Leaf : (ctx[l] = "Live" => l = cpu) /\ ctx[l] # "Twice"
  BY <1>1 DEF PortsInv, OneResumed
<1>4. cpu # Null => ctx[cpu] = "Live"
  BY <1>1 DEF PortsInv, OnCpu, Published
<1>5. CASE at' = "Ended"
  <2>1. /\ next = Null /\ current' = current
        /\ UNCHANGED <<arch, exits, kick, shutdown, cpu, ctx, handles, due>>
    BY <1>1, <1>2, <1>5
  <2>2. PortsTypeOK'
    BY <1>1, <1>5, <2>1 DEF PortsInv, PortsTypeOK, Inv, Phases
  <2>3. Published' = Published
    BY <1>1, <2>1 DEF Published
  <2> QED BY <1>1, <1>2, <1>5, <2>1, <2>2, <2>3, QuietInv
<1>6. CASE at' = "Task"
  <2>1. /\ cpu' = next /\ due' = FALSE /\ handles' = handles \ gone
        /\ ctx' = [l \in Leaf |-> CASE l = next -> Resumed(ctx[l])
                                    [] l # next /\ l = cpu -> Suspended(ctx[l])
                                    [] OTHER -> ctx[l]]
    BY <1>1, <1>6
  <2>2. /\ next # Null => ctx'[next] = "Live"
        /\ \A l \in Leaf \ {next} : ctx'[l] = IF l = cpu THEN "Saved" ELSE ctx[l]
    BY <1>0, <1>2, <1>3, <1>4, <2>1 DEF Resumed, Suspended
  <2>3. PortsTypeOK'
    <3>1. ctx' \in [Leaf -> Contexts]
      BY <1>0, <2>1 DEF Contexts, Resumed, Suspended
    <3>2. cpu' \in Leaf \cup {Null} /\ at' \in Phases /\ handles' \subseteq Leaf
      BY <1>0, <1>2, <1>6, <2>1 DEF Phases
    <3> QED BY <1>1, <2>1, <3>1, <3>2 DEF PortsInv, PortsTypeOK, Inv
  <2>4. OthersSaved'
    BY <1>1, <1>2, <2>1, <2>2 DEF PortsInv, OthersSaved, Resumable, Alike
  <2>5. OnCpu'
    BY <1>1, <1>2, <1>6, <2>1, <2>2 DEF OnCpu, Published
  <2>6. ChosenRuns' /\ BlockedIsParked'
    BY <1>0, <1>2, <1>6, <2>1 DEF ChosenRuns, BlockedIsParked
  <2>7. OneResumed'
    BY <1>0, <1>3, <2>1, <2>2 DEF OneResumed
  <2>8. HandlesFollowTasks'
    BY <1>1, <1>2, <2>1 DEF PortsInv, HandlesFollowTasks, Alike, Live
  <2> QED BY <2>3, <2>4, <2>5, <2>6, <2>7, <2>8 DEF PortsInv
<1> QED BY <1>1, <1>5, <1>6

\* The steps that only ask, count, wait or look.
LEMMA QuietStepInv ==
  ASSUME PortsInv, Inv',
         \/ FailsToSpawn \/ Wakes \/ Shutdown \/ ExitKicks \/ TimerExpires
         \/ riscv_trap_cause \/ riscv_idle \/ arm_irq_tick \/ arm_idle
         \/ xtensa_trap_pending \/ posix_signal \/ posix_from_timer
         \/ win32_wait \/ win32_lock \/ win32_tick \/ UNCHANGED vars
  PROVE  PortsInv'
<1> DEFINE Quiet == Alike /\ UNCHANGED <<arch, exits, cpu, ctx, handles, current>>
           Still == at' = at /\ kick' \in {kick, TRUE} /\ UNCHANGED cause
                    /\ due' \in BOOLEAN /\ shutdown' \in BOOLEAN
           Moves == /\ at' \notin {"Task", "After"} /\ at # "After" /\ Published' = Published
                    /\ at' \in Phases /\ cause' \in {"None", "Soft", "Timer"}
                    /\ kick' \in BOOLEAN /\ due' \in BOOLEAN /\ shutdown' \in BOOLEAN
<1>0. /\ kick \in BOOLEAN /\ due \in BOOLEAN /\ shutdown \in BOOLEAN /\ at \in Phases
      /\ cause \in {"None", "Soft", "Timer"}
  BY PortsFacts DEF PortsInv, PortsTypeOK
<1>1. UNCHANGED tree => Alike /\ UNCHANGED current
  BY DEF Alike, tree
<1>2. on_tick => Alike /\ UNCHANGED current
  BY TickAlike DEF PortsInv
<1>3. FailsToSpawn => Quiet /\ Still
  BY <1>0 DEF FailsToSpawn, SpawnFails, Alike, port
<1>4. Wakes => Quiet /\ Still
  <2> SUFFICES ASSUME NEW n \in Leaf, wake_task(n), UNCHANGED port PROVE Quiet /\ Still
    BY DEF Wakes
  <2>1. state[n] = "Blocked" /\ current' = current
        /\ state' = [m \in Node |-> IF m \in {n} THEN "Ready" ELSE state[m]]
    BY DEF wake_task, Wake, MakeReady
  <2>2. Alike
    BY <2>1 DEF Alike, Live, Node
  <2> QED BY <1>0, <2>1, <2>2 DEF port
<1>5. Shutdown \/ ExitKicks \/ TimerExpires =>
        /\ Quiet
        /\ Still \/ Moves
  <2>1. Shutdown \/ ExitKicks \/ TimerExpires => Quiet
    BY <1>1 DEF Shutdown, ExitKicks, TimerExpires, build
  <2>2. ExitKicks \/ TimerExpires => Still
    BY <1>0 DEF ExitKicks, TimerExpires, request_switch
  <2>3. Shutdown => at \in {"Task", "Woken"}
    BY DEF Shutdown, TaskRuns, Executes
  <2>4. Shutdown /\ arch = "Win32" => Still
    BY <1>0 DEF Shutdown, arch_shutdown, request_switch
  <2>5. Shutdown /\ arch # "Win32" => Moves
    BY <1>0, <2>3 DEF Shutdown, arch_shutdown, Published, Phases, build
  <2> QED BY <2>1, <2>2, <2>4, <2>5
<1>6. riscv_trap_cause \/ riscv_idle \/ arm_irq_tick \/ arm_idle => Quiet /\ Moves
  BY <1>0, <1>1, <1>2 DEF riscv_trap_cause, riscv_idle, arm_irq_tick, arm_idle, WaitInHandler,
       gic_acknowledge, build, Published, Phases
<1>7. xtensa_trap_pending \/ posix_signal \/ posix_from_timer => Quiet /\ Moves
  BY <1>0, <1>1, <1>2 DEF xtensa_trap_pending, clear_software_interrupt, posix_signal,
       posix_from_timer, build, Published, Phases
<1>8. win32_wait \/ win32_lock \/ win32_tick => Quiet /\ Moves
  BY <1>0, <1>1, <1>2 DEF win32_wait, win32_lock, win32_tick, finish_shutdown, build, Published, Phases
<1>9. UNCHANGED vars => Quiet /\ Still
  BY <1>0, <1>1 DEF vars, port
<1>10. Quiet /\ (Still \/ Moves)
  BY <1>3, <1>4, <1>5, <1>6, <1>7, <1>8, <1>9
<1>11. PortsTypeOK'
  BY <1>0, <1>10 DEF PortsInv, PortsTypeOK, Inv
<1>12. at' = "Task" /\ kick => kick'
  BY <1>0, <1>10
<1>13. at' = at \/ (at' \notin {"Task", "After"} /\ at # "After" /\ Published' = Published)
  BY <1>10
<1>14. Alike /\ UNCHANGED <<arch, cpu, ctx, handles, current>>
  BY <1>10
<1> QED BY <1>11, <1>12, <1>13, <1>14, QuietInv

\* Every step keeps the port's invariant.
LEMMA PortsNextInv ==
  ASSUME PortsInv, [PortsNext]_vars
  PROVE  PortsInv'
<1>0. Inv'
  BY PortsStep, NextInv DEF PortsInv
<1>1. CASE Calls
  BY <1>0, <1>1, SpawnsInv, BlocksAndExitsInv, QuietStepInv DEF Calls
<1>2. CASE RiscVNext
  <2>1. CASE riscv_trap_entry
    BY <1>0, <2>1, EnterInv DEF riscv_trap_entry, Resumable
  <2>2. CASE riscv_trap_switch
    BY <1>0, <2>2, SwitchStacksInv DEF riscv_trap_switch, Phases
  <2>3. CASE riscv_after_switch
    BY <1>0, <2>3, AfterInv DEF riscv_after_switch, AfterSwitch, rearm_timer
  <2> QED BY <1>0, <1>2, <2>1, <2>2, <2>3, QuietStepInv DEF RiscVNext
<1>3. CASE ArmNext
  <2>1. CASE arm_irq_entry
    BY <1>0, <2>1, EnterInv DEF arm_irq_entry, Resumable
  <2>2. CASE arm_irq_switch
    BY <1>0, <2>2, SwitchStacksInv DEF arm_irq_switch, Phases
  <2>3. CASE arm_after_switch
    BY <1>0, <2>3, AfterInv DEF arm_after_switch, AfterSwitch, rearm_timer
  <2> QED BY <1>0, <1>3, <2>1, <2>2, <2>3, QuietStepInv DEF ArmNext
<1>4. CASE XtensaNext
  <2>1. CASE xtensa_exception_handler
    BY <1>0, <2>1, EnterInv DEF xtensa_exception_handler, Resumable
  <2>2. CASE xtensa_trap_switch
    BY <1>0, <2>2, SwitchStacksInv DEF xtensa_trap_switch, Phases
  <2>3. CASE xtensa_after_switch
    BY <1>0, <2>3, AfterInv DEF xtensa_after_switch, rearm_timer
  <2> QED BY <1>0, <1>4, <2>1, <2>2, <2>3, QuietStepInv DEF XtensaNext
<1>5. CASE PosixNext
  <2>1. CASE posix_back
    BY <1>0, <2>1, AfterInv DEF posix_back
  <2> QED BY <1>0, <1>5, <2>1, PosixSwitchInv, QuietStepInv DEF PosixNext
<1>6. CASE Win32Next
  BY <1>0, <1>6, Win32ReclaimInv, Win32SwitchInv, QuietStepInv DEF Win32Next
<1>7. CASE ExitKicks \/ TimerExpires \/ UNCHANGED vars
  BY <1>0, <1>7, QuietStepInv
<1> QED BY <1>1, <1>2, <1>3, <1>4, <1>5, <1>6, <1>7 DEF PortsNext, Handler

LEMMA PortsInitInv ==
  ASSUME PortInit
  PROVE  PortsInv
<1>1. Inv
  BY InitInv DEF PortInit
<1>2. Main \in Leaf /\ Main # Null /\ Null \notin Leaf /\ Leaf \subseteq Node /\ Root \notin Leaf
  BY TreeAssumption DEF Node
<1>3. /\ current = Main /\ state[Main] = "Running"
      /\ \A l \in Leaf \ {Main} : state[l] = "Free"
  BY <1>2 DEF PortInit, Init
<1>4. PortsTypeOK
  BY <1>1, <1>2 DEF PortInit, PortsTypeOK, Inv, Phases, Contexts
<1>5. OthersSaved /\ ChosenRuns /\ BlockedIsParked /\ OneResumed
  BY <1>2, <1>3 DEF PortInit, OthersSaved, ChosenRuns, BlockedIsParked, OneResumed, Live
<1>6. OnCpu
  BY <1>2, <1>3 DEF PortInit, OnCpu, Published
<1>7. HandlesFollowTasks
  BY <1>2, <1>3 DEF PortInit, HandlesFollowTasks, Live
<1> QED BY <1>1, <1>4, <1>5, <1>6, <1>7 DEF PortsInv

\* The port's invariant is one.
LEMMA PortsInvariant == PortsSpec => []PortsInv
<1>1. PortInit => PortsInv
  BY PortsInitInv
<1>2. PortsInv /\ [PortsNext]_vars => PortsInv'
  BY PortsNextInv
<1> QED BY <1>1, <1>2, PTL DEF PortsSpec

\* Every live task off the CPU can be switched to, on every port.
THEOREM OthersResumable == PortsSpec => []OthersSaved
<1>1. PortsInv => OthersSaved
  BY DEF PortsInv
<1> QED BY <1>1, PortsInvariant, PTL

\* The code that executes is that of KERNEL.current or of a task on its way
\* out, and a blocked task goes on only until its switch is taken.
THEOREM CodeIsCurrent == PortsSpec => []RightCodeRuns
<1>1. ASSUME PortsInv PROVE RightCodeRuns
  <2>1. CpuIsCurrent
    <3> SUFFICES ASSUME at \in {"Task", "Woken"} PROVE CpuIsCurrent
      BY DEF CpuIsCurrent
    <3>1. ~Published /\ at # "After"
      BY DEF Published
    <3>2. OnCpu /\ OneResumed /\ Null \notin Leaf /\ current \in Leaf \cup {Null}
      BY <1>1, PortsFacts DEF PortsInv
    <3>3. CASE cpu # Null
      BY <3>1, <3>2, <3>3 DEF OnCpu, CpuIsCurrent
    <3>4. CASE cpu = Null
      BY <3>2, <3>4 DEF OnCpu, OneResumed, CpuIsCurrent
    <3> QED BY <3>3, <3>4
  <2> QED BY <1>1, <2>1 DEF PortsInv, RightCodeRuns
<1> QED BY <1>1, PortsInvariant, PTL

\* No port but Xtensa's gives back the stack, or the thread, it stands on.
THEOREM StackStays == PortsSpec => []StackNotReclaimed
<1>1. PortsInv => StackNotReclaimed
  BY PortsFacts DEF PortsInv, OnCpu, StackNotReclaimed, Live
<1> QED BY <1>1, PortsInvariant, PTL

\* On Win32 one thread is resumed, none is suspended twice, and the handles
\* are those of the tasks that are there.
THEOREM ThreadsFollow == PortsSpec => []ThreadsFollowTasks
<1>1. PortsInv => ThreadsFollowTasks
  BY DEF PortsInv, OneResumed, OneThreadRuns, HandlesFollowTasks, ThreadsFollowTasks
<1> QED BY <1>1, PortsInvariant, PTL

\* Except on ARM, where a requested switch counts as a tick, only the slice
\* timer brings a deadline nearer.
THEOREM OnlyTheTimerTicks == PortsSpec => KicksDoNotTick
<1> DEFINE Nearer == \E l \in Leaf : ~Executes(l) /\ state[l] = "Blocked"
                                   /\ togo[l] > 0 /\ togo'[l] = togo[l] - 1
           Timed == due \/ cause = "Timer"
<1>1. ASSUME PortsInv, [PortsNext]_vars, arch # "Arm", Nearer
      PROVE  Timed
  <2>0. PICK l \in Leaf : /\ ~Executes(l) /\ state[l] = "Blocked" /\ l \in Node
                          /\ togo[l] \in Int /\ togo[l] > 0 /\ togo'[l] = togo[l] - 1
    <3>1. togo \in [Node -> Nat \cup {Never}] /\ Leaf \subseteq Node
      BY <1>1 DEF PortsInv, Inv, TreeTypeOK, Node
    <3>2. \A l \in Leaf : l \in Node /\ togo[l] \in Int
      BY <3>1 DEF Never
    <3> QED BY <1>1, <3>2
  <2>1. togo' # togo
    BY <2>0
  <2>2. ~Spawns
    <3>1. ASSUME NEW n \in Node, NEW g \in Group, Spawn(n, g) PROVE FALSE
      <4>1. n # l /\ togo' = [togo EXCEPT ![n] = Never]
        BY <2>0, <3>1 DEF Spawn
      <4> QED BY <2>0, <4>1
    <3> QED BY <3>1 DEF Spawns
  <2>3. ~TaskBlocks
    <3> SUFFICES ASSUME TaskBlocks PROVE FALSE
      OBVIOUS
    <3>1. current # l
      BY <1>1, <2>0, ExecutesCurrent DEF TaskBlocks, TaskRuns
    <3>2. PICK t \in Sleeps \cup {Never} : togo' = [togo EXCEPT ![current] = t]
      BY DEF TaskBlocks, mark_blocked_locked
    <3> QED BY <2>0, <3>1, <3>2
  <2>4. ~Wakes
    <3> SUFFICES ASSUME NEW n \in Leaf, wake_task(n) PROVE FALSE
      BY DEF Wakes
    <3>1. togo' = [m \in Node |-> IF m \in {n} THEN Never ELSE togo[m]]
      BY DEF wake_task, Wake
    <3>2. CASE l = n
      BY <2>0, <3>1, <3>2 DEF Never
    <3>3. CASE l # n
      BY <2>0, <3>1, <3>3
    <3> QED BY <3>2, <3>3
  <2>5. ~(FailsToSpawn \/ TaskExits \/ Shutdown \/ ExitKicks \/ TimerExpires \/ UNCHANGED vars)
    BY <2>1 DEF FailsToSpawn, SpawnFails, TaskExits, exit_task, Shutdown, ExitKicks, TimerExpires,
                vars, tree
  <2>6. ASSUME NEW pick \in Picks PROVE ~schedule_next(pick, {})
    BY <1>1, <2>1, <2>6, ScheduleAlike DEF PortsInv
  <2>7. ASSUME NEW freed \in SUBSET pending PROVE ~Reclaims(freed)
    BY <1>1, <2>1, <2>7, ReclaimsDead DEF PortsInv
  <2>8. Unpinned \in SUBSET pending /\ pending \in SUBSET pending
    BY DEF Unpinned
  <2>9. CASE RiscVNext
    BY <2>1, <2>6, <2>7, <2>8, <2>9
       DEF RiscVNext, riscv_trap_entry, riscv_trap_cause, riscv_trap_switch, riscv_after_switch,
           riscv_idle, Enter, SwitchStacks, AfterSwitch, WaitInHandler, tree
  <2>10. CASE XtensaNext
    BY <2>1, <2>6, <2>10
       DEF XtensaNext, xtensa_exception_handler, xtensa_trap_pending, xtensa_trap_switch,
           xtensa_after_switch, reclaim_finished_tasks, Enter, SwitchStacks, tree
  <2>11. CASE PosixNext
    BY <2>1, <2>6, <2>7, <2>8, <2>11
       DEF PosixNext, posix_signal, posix_from_timer, posix_switch, posix_back, tree
  <2>12. CASE Win32Next
    BY <2>1, <2>6, <2>7, <2>8, <2>12
       DEF Win32Next, win32_wait, win32_lock, win32_tick, win32_reclaim, win32_switch, tree
  <2>13. ~ArmNext
    BY <1>1 DEF ArmNext, arm_irq_entry, arm_irq_tick, arm_irq_switch, arm_after_switch, arm_idle
  <2> QED BY <1>1, <2>2, <2>3, <2>4, <2>5, <2>9, <2>10, <2>11, <2>12, <2>13
          DEF PortsNext, Calls, Handler
<1>2. PortsInv /\ [PortsNext]_vars => [arch # "Arm" /\ Nearer => Timed]_vars
  BY <1>1
<1> QED BY <1>2, PortsInvariant, PTL DEF PortsSpec, KicksDoNotTick
=============================================================================
