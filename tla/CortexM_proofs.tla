---------------------------- MODULE CortexM_proofs ----------------------------
(***************************************************************************)
(* Proofs about the Cortex-M port: it drives the tree only through the     *)
(* kernel's own sections, so all that is proved of the tree holds on the   *)
(* port, the code that executes is always that of a live current task, and *)
(* where groups hang below the root only it idles when nothing can run.    *)
(* A sleeper is overdue only if the walk of the tree did not reach it.     *)
(***************************************************************************)
EXTENDS CortexM, SchedTree_proofs

\* Every step of the port is a step of the kernel or leaves the tree alone.
LEMMA PortStep ==
  ASSUME [PortNext]_vars
  PROVE  [Next]_tree
<1>1. CASE SysTick
  BY <1>1 DEF SysTick, Next
<1>2. CASE Dispatch
  BY <1>2 DEF Dispatch, Reclaimable, Next
<1>3. CASE Spawns \/ FailsToSpawn
  BY <1>3 DEF Spawns, FailsToSpawn, Next
<1>4. CASE TaskBlocks
  BY <1>4 DEF TaskBlocks, Next
<1>5. CASE TaskExits
  BY <1>5 DEF TaskExits, Next
<1>6. CASE WakesTask \/ WakesAll \/ WakesFirst
  BY <1>6 DEF WakesTask, WakesAll, WakesFirst, Next
<1>7. CASE TimerRuns \/ IdleWait \/ TaskYields \/ ExitKicks \/ UNCHANGED vars
  BY <1>7 DEF TimerRuns, IdleWait, TaskYields, ExitKicks, vars, tree
<1> QED BY <1>1, <1>2, <1>3, <1>4, <1>5, <1>6, <1>7 DEF PortNext, PendSV, IdleResched

\* The port implements the kernel: what any port may do covers what SysTick,
\* PendSV, the idle loop, the tasks and the device interrupts do.
THEOREM PortImplementsTree == PortSpec => Spec
<1>1. PortInit => Init
  BY DEF PortInit
<1>2. [PortNext]_vars => [Next]_tree
  BY PortStep
<1> QED BY <1>1, <1>2, PTL DEF PortSpec, Spec

\* On the port no reference of the tree outlives its TCB.
THEOREM PortTreeSafe == PortSpec => []TreeInv
BY PortImplementsTree, TreeSafe, PTL

-----------------------------------------------------------------------------
PortInv == Inv /\ TypeOK /\ RunningIsRunnable

\* What Dispatch leaves on the CPU.
LEMMA DispatchRuns ==
  ASSUME Inv, Dispatch
  PROVE  /\ cpu' \in Leaf \cup {Idling}
         /\ cpu' \in Leaf => cpu' = current' /\ cpu' \in CanRun'
         /\ phase' \in {0, phase}
<1> DEFINE cur  == LinkedCurrent
           next == PickNextLeaf(cur).leaf
<1>1. cur \in Leaf \cup {Null}
  BY DEF LinkedCurrent, Inv, TreeTypeOK
<1>2. next \in (Leaf \cap CanRun) \cup {Null}
  BY <1>1, PickNextLeafOK DEF PickOK
<1>3. /\ cpu' = IF next = Null THEN Idling ELSE next
      /\ current' = IF next = Null THEN cur ELSE next
      /\ phase' \in {0, phase}
      /\ state' = [n \in Node |->
                     CASE n \in Reclaimable -> "Free"
                       [] n \notin Reclaimable /\ n = next /\ next # cur -> "Running"
                       [] n \notin Reclaimable /\ n = cur /\ next \notin {cur, Null}
                            /\ state[n] = "Running" -> "Ready"
                       [] OTHER -> state[n]]
  BY DEF Dispatch, schedule_next
<1>4. \A n \in Reclaimable : state[n] = "Dead"
  BY DEF Reclaimable, Inv, TreeInv, PendingIsDead
<1> HIDE DEF cur, next
<1>5. ASSUME next \in Leaf PROVE state'[next] \in {"Ready", "Running"}
  <2>1. next \in Node /\ next # Null /\ state[next] \in {"Ready", "Running"}
    BY <1>2, <1>5, TreeAssumption DEF CanRun, Node
  <2>2. next \notin Reclaimable
    BY <1>4, <2>1
  <2>3. CASE next # cur
    BY <1>3, <2>1, <2>2, <2>3
  <2>4. CASE next = cur
    BY <1>3, <2>1, <2>2, <2>4
  <2> QED BY <2>3, <2>4
<1>6. Null \notin Leaf /\ Idling \notin Leaf
  BY TreeAssumption, PortAssumption DEF Node, Idling
<1> QED BY <1>2, <1>3, <1>5, <1>6 DEF CanRun, Node

\* A step keeps the port's invariant.
LEMMA PortNextInv ==
  ASSUME PortInv, [PortNext]_vars
  PROVE  PortInv'
<1>0. Inv /\ Inv'
  BY PortStep, NextInv DEF PortInv
<1>a. TreeTypeOK'
  BY <1>0 DEF Inv
<1>b. /\ cpu \in Leaf \cup IdleLoop /\ pend \in BOOLEAN /\ phase \in 0..Period - 1
      /\ Period \in Nat \ {0} /\ Leaf \cap IdleLoop = {} /\ Null \notin Leaf
  BY PortAssumption, TreeAssumption DEF PortInv, TypeOK, IdleLoop, Idling, Asleep, Awake, Node
<1>c. /\ state \in [Node -> Live \cup {"Dead", "Free"}] /\ Leaf \subseteq Node
  BY DEF PortInv, TypeOK, TreeTypeOK, Node
<1>d. \A l \in Leaf : Executes(l) => l = cpu /\ l = current /\ l \in CanRun /\ ~pend
  BY DEF Executes, PortInv, RunningIsRunnable
<1>1. CASE TimerRuns
  BY <1>0, <1>a, <1>b, <1>1 DEF TimerRuns, PortInv, TypeOK, RunningIsRunnable, CanRun, tree
<1>2. CASE SysTick
  <2>1. /\ phase' = 0 /\ pend' = TRUE /\ cpu' = Interrupted /\ current' = current
        /\ state' = [n \in Node |-> IF n \in Expired THEN "Ready" ELSE state[n]]
    BY <1>2 DEF SysTick, on_tick, MakeReady
  <2>2. \A n \in Expired : state[n] = "Blocked"
    BY DEF Expired
  <2>3. TypeOK'
    BY <1>a, <1>b, <2>1 DEF TypeOK, Interrupted, IdleLoop
  <2>4. cpu' \in Leaf => cpu' = cpu
    BY <1>b, <2>1 DEF Interrupted, IdleLoop
  <2>5. RunningIsRunnable'
    BY <1>c, <2>1, <2>2, <2>4 DEF PortInv, RunningIsRunnable, CanRun
  <2> QED BY <1>0, <2>3, <2>5 DEF PortInv
<1>3. CASE PendSV \/ IdleResched
  <2>1. Dispatch /\ pend' \in BOOLEAN
    BY <1>b, <1>3 DEF PendSV, IdleResched
  <2>2. TypeOK'
    BY <1>0, <1>a, <1>b, <2>1, DispatchRuns DEF TypeOK, IdleLoop
  <2>3. RunningIsRunnable'
    BY <1>0, <2>1, DispatchRuns DEF RunningIsRunnable
  <2> QED BY <1>0, <2>2, <2>3 DEF PortInv
<1>4. CASE IdleWait
  BY <1>0, <1>a, <1>b, <1>4 DEF IdleWait, PortInv, TypeOK, RunningIsRunnable, IdleLoop
<1>5. CASE Spawns
  <2>1. PICK n \in Node : /\ state[n] = "Free"
                         /\ state' = [state EXCEPT ![n] = "Ready"]
                         /\ pend' = (pend \/ n \in Leaf)
                         /\ cpu' = Interrupted
                         /\ UNCHANGED <<phase, current>>
    BY <1>5 DEF Spawns, Spawn
  <2>2. TypeOK'
    BY <1>a, <1>b, <2>1 DEF TypeOK, Interrupted, IdleLoop
  <2>3. cpu' \in Leaf => cpu' = cpu
    BY <1>b, <2>1 DEF Interrupted, IdleLoop
  <2>4. RunningIsRunnable'
    <3> SUFFICES ASSUME cpu' \in Leaf PROVE RunningIsRunnable'
      BY DEF RunningIsRunnable
    <3>1. cpu' = cpu /\ cpu \in Leaf /\ cpu \in Node
      BY <1>c, <2>3
    <3>2. CASE cpu = n
      BY <1>c, <2>1, <3>1, <3>2 DEF PortInv, RunningIsRunnable, CanRun
    <3>3. CASE cpu # n
      <4>1. state'[cpu] = state[cpu]
        BY <1>c, <2>1, <3>1, <3>3
      <4> QED BY <1>b, <2>1, <3>1, <4>1 DEF PortInv, RunningIsRunnable, CanRun
    <3> QED BY <3>2, <3>3
  <2> QED BY <1>0, <2>2, <2>4 DEF PortInv
<1>6. CASE FailsToSpawn
  <2>1. cpu' = Interrupted /\ UNCHANGED <<pend, phase, current, state>>
    BY <1>6 DEF FailsToSpawn, SpawnFails
  <2>2. TypeOK'
    BY <1>a, <1>b, <2>1 DEF TypeOK, Interrupted, IdleLoop
  <2>3. cpu' \in Leaf => cpu' = cpu
    BY <1>b, <2>1 DEF Interrupted, IdleLoop
  <2>4. RunningIsRunnable'
    BY <2>1, <2>3 DEF PortInv, RunningIsRunnable, CanRun
  <2> QED BY <1>0, <2>2, <2>4 DEF PortInv
<1>7. CASE TaskBlocks
  <2>1. PICK l \in Leaf : /\ Executes(l)
                          /\ state' = [state EXCEPT ![current] = "Blocked"]
                          /\ pend' = TRUE
                          /\ UNCHANGED <<cpu, phase, current>>
    BY <1>7 DEF TaskBlocks, mark_blocked_locked
  <2>2. TypeOK'
    BY <1>a, <1>b, <2>1 DEF TypeOK
  <2>3. RunningIsRunnable'
    BY <1>c, <1>d, <2>1 DEF RunningIsRunnable
  <2> QED BY <1>0, <2>2, <2>3 DEF PortInv
<1>8. CASE TaskYields \/ ExitKicks
  BY <1>0, <1>a, <1>b, <1>8 DEF TaskYields, ExitKicks, PortInv, TypeOK, RunningIsRunnable, CanRun, tree
<1>9. CASE TaskExits
  <2>1. PICK l \in Leaf : /\ Executes(l)
                          /\ state' = [state EXCEPT ![l] = "Dead"]
                          /\ current' = Null
                          /\ UNCHANGED <<cpu, pend, phase>>
    BY <1>9 DEF TaskExits, exit_task, port
  <2>2. TypeOK'
    BY <1>a, <1>b, <2>1 DEF TypeOK
  <2>3. RunningIsRunnable'
    BY <1>c, <1>d, <2>1 DEF RunningIsRunnable
  <2> QED BY <1>0, <2>2, <2>3 DEF PortInv
<1>10. ASSUME NEW S, Wake(S), \A n \in S : state[n] = "Blocked",
              cpu' = Interrupted, UNCHANGED <<pend, phase>>
       PROVE  PortInv'
  <2>1. current' = current /\ state' = [n \in Node |-> IF n \in S THEN "Ready" ELSE state[n]]
    BY <1>10 DEF Wake, MakeReady
  <2>2. TypeOK'
    BY <1>a, <1>b, <1>10 DEF TypeOK, Interrupted, IdleLoop
  <2>3. cpu' \in Leaf => cpu' = cpu
    BY <1>b, <1>10 DEF Interrupted, IdleLoop
  <2>4. RunningIsRunnable'
    BY <1>c, <1>10, <2>1, <2>3 DEF PortInv, RunningIsRunnable, CanRun
  <2> QED BY <1>0, <2>2, <2>4 DEF PortInv
<1>11. CASE WakesTask
  <2>1. PICK n \in Leaf : wake_task(n) /\ cpu' = Interrupted /\ UNCHANGED <<pend, phase>>
    BY <1>11 DEF WakesTask
  <2>2. Wake({n}) /\ \A x \in {n} : state[x] = "Blocked"
    BY <2>1 DEF wake_task
  <2> QED BY <1>10, <2>1, <2>2
<1>12. CASE WakesAll
  <2>1. PICK r \in Resource : wake_blocked_on(r) /\ cpu' = Interrupted /\ UNCHANGED <<pend, phase>>
    BY <1>12 DEF WakesAll
  <2>2. Wake(BlockedOn(r) \cap Walked) /\ \A x \in BlockedOn(r) \cap Walked : state[x] = "Blocked"
    BY <2>1 DEF wake_blocked_on, BlockedOn
  <2> QED BY <1>10, <2>1, <2>2
<1>13. CASE WakesFirst
  <2>1. PICK r \in Resource : wake_first_blocked_on(r) /\ cpu' = Interrupted /\ UNCHANGED <<pend, phase>>
    BY <1>13 DEF WakesFirst
  <2>2. PICK i \in DOMAIN Walk : Walk[i] \in BlockedOn(r) /\ Wake({Walk[i]})
    BY <2>1 DEF wake_first_blocked_on
  <2>3. \A x \in {Walk[i]} : state[x] = "Blocked"
    BY <2>2 DEF BlockedOn
  <2> QED BY <1>10, <2>1, <2>2, <2>3
<1>14. CASE UNCHANGED vars
  BY <1>0, <1>a, <1>b, <1>14 DEF vars, tree, port, PortInv, TypeOK, RunningIsRunnable, CanRun
<1> QED BY <1>1, <1>2, <1>3, <1>4, <1>5, <1>6, <1>7, <1>8, <1>9, <1>11, <1>12, <1>13, <1>14
        DEF PortNext

\* The port starts with task 0 on the CPU.
LEMMA InitPort == PortInit => PortInv
<1> SUFFICES ASSUME PortInit PROVE TypeOK /\ RunningIsRunnable
  BY InitInv DEF PortInit, PortInv
<1>1. Inv
  BY InitInv DEF PortInit
<1>2. Main \in Leaf /\ Main \in Node /\ Main # Root /\ 0 \in 0..Period - 1
  BY TreeAssumption, PortAssumption DEF Node
<1>3. TypeOK
  BY <1>1, <1>2 DEF PortInit, Inv, TypeOK
<1>4. state[Main] = "Running" /\ current = Main /\ cpu = Main
  BY <1>2 DEF PortInit, Init
<1> QED BY <1>2, <1>3, <1>4 DEF RunningIsRunnable, CanRun

\* The port's state is well typed, and the code that executes is that of
\* KERNEL.current, blocked only while its switch is pending, dead only between
\* exit_task and its last switch.
THEOREM RunningSafe == PortSpec => [](TypeOK /\ RunningIsRunnable)
<1>1. PortInit => PortInv
  BY InitPort
<1>2. PortInv /\ [PortNext]_vars => PortInv'
  BY PortNextInv
<1> QED BY <1>1, <1>2, PTL DEF PortSpec, PortInv

\* Every variable of the port, and of the tree it drives, keeps its type.
THEOREM PortTyped == PortSpec => []TypeOK
BY RunningSafe, PTL

-----------------------------------------------------------------------------
(* Quanta *)

\* No path of an executing task has run out of time, except at the root.
PathsLeft == \A l \in Leaf : Executes(l) => PathLeft(l, rem)

TimeInv == PortInv /\ PathInv /\ PathsLeft

\* Steps of the kernel that move no parent and take no time, made while the
\* same task executes.
LEMMA SameTime ==
  ASSUME TimeInv, PathInv', PortInv', UNCHANGED <<parent, rem>>,
         \A l \in Leaf : Executes(l)' => Executes(l)
  PROVE  PathsLeft'
<1>1. PICK none \in SUBSET Node : none = {}
  OBVIOUS
<1>2. \A x \in Node \ none : Path(x)' = Path(x)
  <2>1. \A x \in Node \ none : parent'[x] = parent[x] /\ parent[x] \notin none
    BY <1>1
  <2> QED BY <2>1, SamePaths DEF TimeInv, PortInv
<1>3. \A l \in Leaf : Executes(l)' => \A x \in Path(l)' : x = Root \/ rem'[x] > 0
  <2> TAKE l \in Leaf
  <2> HAVE Executes(l)'
  <2>1. Path(l)' = Path(l)
    BY <1>1, <1>2 DEF Node
  <2>2. PathLeft(l, rem) /\ rem' = rem
    BY DEF TimeInv, PathsLeft
  <2> QED BY <2>1, <2>2 DEF PathLeft
<1> QED BY <1>3 DEF PathsLeft, PathLeft

\* A new node is armed, and the executing task is another.
LEMMA SpawnTime ==
  ASSUME TimeInv, PathInv', PortInv', NEW n \in Node, NEW g \in Group, Spawn(n, g),
         NEW l \in Leaf, Executes(l), l # n
  PROVE  \A x \in Path(l)' : x = Root \/ rem'[x] > 0
<1>1. /\ parent' = [parent EXCEPT ![n] = g] /\ rem' = [rem EXCEPT ![n] = Quantum[n]]
      /\ state[n] = "Free"
  BY DEF Spawn
<1>2. /\ parent \in [Node -> Group \cup {Null}] /\ rem \in [Node -> Nat] /\ Quantum[n] > 0
      /\ Leaf \subseteq Node /\ Null \notin Node
  <2>1. Quantum[n] > 0 /\ Null \notin Node
    BY TreeAssumption
  <2>2. Leaf \subseteq Node
    BY DEF Node
  <2> QED BY <2>1, <2>2 DEF TimeInv, PortInv, Inv, TreeTypeOK
<1>3. \A x \in Node \ {n} : parent'[x] = parent[x] /\ parent[x] \notin {n}
  BY <1>1, <1>2 DEF TimeInv, PathInv, GroupsReady
<1>4. Path(l)' = Path(l)
  <2>1. {n} \in SUBSET Node /\ l \in Node \ {n}
    BY <1>2
  <2> QED BY <1>3, <2>1, SamePaths DEF TimeInv, PortInv
<1>5. \A x \in Path(l) : x \in Node /\ (x = Root \/ rem[x] > 0)
  BY DEF TimeInv, PathsLeft, PathLeft, Path
<1> QED BY <1>1, <1>2, <1>4, <1>5

\* What the switch section puts on the CPU has time on its whole path.
LEMMA DispatchTime ==
  ASSUME TimeInv, PathInv', PortInv', Dispatch, NEW l \in Leaf, cpu' = l
  PROVE  \A x \in Path(l)' : x = Root \/ rem'[x] > 0
<1> DEFINE cur  == LinkedCurrent
           pick == PickNextLeaf(cur)
           freed == Reclaimable
<1>1. cur \in Leaf \cup {Null}
  BY DEF LinkedCurrent, TimeInv, PortInv, Inv, TreeTypeOK
<1>2. pick.leaf \in (Leaf \cap CanRun) \cup {Null}
  BY <1>1, PickNextLeafOK DEF PickOK, TimeInv, PortInv
<1>3. /\ cpu' = IF pick.leaf = Null THEN Idling ELSE pick.leaf
      /\ parent' = Forget(parent, freed, Null) /\ rem' = Forget(pick.rem, freed, 0)
  BY DEF Dispatch, schedule_next
<1>4. Idling \notin Leaf /\ Null \notin Leaf /\ Leaf \subseteq Node /\ Leaf \cap Group = {}
  BY PortAssumption, TreeAssumption DEF Node, Idling
<1>5. l = pick.leaf /\ l # Null /\ l \in CanRun
  BY <1>2, <1>3, <1>4
<1>6. PathLeft(l, pick.rem)
  BY <1>1, <1>5, PickPath DEF TimeInv, PortInv
<1>7. freed \in SUBSET Node /\ (\A x \in freed : x \in Leaf /\ state[x] = "Dead")
  BY <1>4 DEF Reclaimable, TimeInv, PortInv, Inv, TreeTypeOK, TreeInv, PendingIsDead
<1> HIDE DEF cur, pick, freed
<1>8. \A x \in Node \ freed : parent'[x] = parent[x] /\ parent[x] \notin freed
  <2>1. \A x \in Node : parent[x] \in Group \cup {Null}
    BY DEF TimeInv, PortInv, Inv, TreeTypeOK
  <2> QED BY <1>3, <1>4, <1>7, <2>1 DEF Forget
<1>9. l \in Node \ freed
  BY <1>5, <1>7 DEF CanRun
<1>10. Path(l)' = Path(l)
  BY <1>7, <1>8, <1>9, SamePaths DEF TimeInv, PortInv
<1>11. \A x \in Path(l) : x \in Node \ freed
  <2>1. Path(l) = {l} \cup Path(parent[l])
    BY <1>9, UpStep DEF TimeInv, PortInv
  <2>2. \A x \in Path(parent[l]) : x \in Group
    BY <1>9, AncestorsRun DEF TimeInv, PortInv
  <2> QED BY <1>4, <1>7, <1>9, <2>1, <2>2 DEF Node
<1>12. \A x \in Path(l) : rem'[x] = pick.rem[x]
  BY <1>3, <1>11 DEF Forget
<1> QED BY <1>6, <1>10, <1>12 DEF PathLeft

\* A step keeps time on the path of the task that executes.
LEMMA NextTime ==
  ASSUME TimeInv, [PortNext]_vars
  PROVE  TimeInv'
<1>1. PathInv' /\ PortInv'
  BY PortStep, NextPaths, PortNextInv DEF TimeInv, PortInv
<1> SUFFICES PathsLeft'
  BY <1>1 DEF TimeInv
<1>2. /\ Leaf \cap IdleLoop = {} /\ Leaf \subseteq Node
      /\ state \in [Node -> Live \cup {"Dead", "Free"}] /\ cpu \in Leaf \cup IdleLoop
  BY PortAssumption DEF TimeInv, PortInv, TypeOK, TreeTypeOK, IdleLoop, Idling, Asleep, Awake, Node
<1>3. \A l \in Leaf : Interrupted = l <=> cpu = l
  BY <1>2 DEF Interrupted, IdleLoop
<1>4. ASSUME UNCHANGED <<parent, rem>>, \A l \in Leaf : Executes(l)' => Executes(l)
      PROVE  PathsLeft'
  BY <1>1, <1>4, SameTime
<1>5. ASSUME pend' = TRUE \/ cpu' \notin Leaf PROVE PathsLeft'
  BY <1>5 DEF PathsLeft, Executes
<1>6. CASE SysTick \/ TaskBlocks \/ TaskYields \/ ExitKicks
  BY <1>5, <1>6 DEF SysTick, TaskBlocks, TaskYields, ExitKicks
<1>7. CASE IdleWait
  BY <1>2, <1>5, <1>7 DEF IdleWait, IdleLoop
<1>8. CASE PendSV \/ IdleResched
  <2>1. Dispatch
    BY <1>8 DEF PendSV, IdleResched
  <2>2. \A l \in Leaf : cpu' = l => \A x \in Path(l)' : x = Root \/ rem'[x] > 0
    BY <1>1, <2>1, DispatchTime
  <2> QED BY <2>2 DEF PathsLeft, PathLeft, Executes
<1>9. CASE Spawns
  <2>1. PICK n \in Node, g \in Group : /\ Spawn(n, g) /\ pend' = (pend \/ n \in Leaf)
                                      /\ cpu' = Interrupted
    BY <1>9 DEF Spawns
  <2>2. /\ state[n] = "Free" /\ state' = [state EXCEPT ![n] = "Ready"]
    BY <2>1 DEF Spawn
  <2>3. ASSUME NEW l \in Leaf, Executes(l)'
        PROVE  l # n /\ Executes(l)
    <3>1. cpu' = l /\ pend' # TRUE /\ state'[l] # "Dead" /\ ~pend'
      BY <2>3 DEF Executes
    <3>2. cpu = l /\ ~pend
      BY <1>3, <2>1, <3>1
    <3>3. l # n
      BY <2>1, <3>1
    <3>4. state[l] # "Dead"
      BY <1>2, <2>2, <3>1, <3>3
    <3> QED BY <3>2, <3>3, <3>4 DEF Executes
  <2>4. \A l \in Leaf : Executes(l)' => \A x \in Path(l)' : x = Root \/ rem'[x] > 0
    BY <1>1, <2>1, <2>3, SpawnTime
  <2> QED BY <2>4 DEF PathsLeft, PathLeft
<1>10. ASSUME UNCHANGED <<parent, rem, pend>>, cpu' \in {cpu, Interrupted},
              \A l \in Leaf : state'[l] # "Dead" => state[l] # "Dead"
       PROVE  PathsLeft'
  BY <1>3, <1>4, <1>10 DEF Executes
<1>11. CASE TimerRuns \/ FailsToSpawn \/ UNCHANGED vars
  BY <1>10, <1>11 DEF TimerRuns, FailsToSpawn, SpawnFails, vars, tree, port
<1>12. CASE TaskExits
  <2>1. PICK l \in Leaf : exit_task(l) /\ UNCHANGED port
    BY <1>12 DEF TaskExits
  <2>2. state' = [state EXCEPT ![l] = "Dead"] /\ UNCHANGED <<parent, rem, pend, cpu>>
    BY <2>1 DEF exit_task, port
  <2> QED BY <1>2, <1>10, <2>2
<1>13. ASSUME NEW S, Wake(S), \A n \in S : state[n] = "Blocked", cpu' = Interrupted, pend' = pend
       PROVE  PathsLeft'
  <2>1. /\ state' = [n \in Node |-> IF n \in S THEN "Ready" ELSE state[n]]
        /\ UNCHANGED <<parent, rem>>
    BY <1>13 DEF Wake, MakeReady
  <2> QED BY <1>2, <1>10, <1>13, <2>1
<1>14. CASE WakesTask \/ WakesAll \/ WakesFirst
  <2>1. ASSUME NEW n \in Leaf, wake_task(n), cpu' = Interrupted, pend' = pend PROVE PathsLeft'
    <3>1. Wake({n}) /\ \A x \in {n} : state[x] = "Blocked"
      BY <2>1 DEF wake_task
    <3> QED BY <1>13, <2>1, <3>1
  <2>2. ASSUME NEW r \in Resource, wake_blocked_on(r) \/ wake_first_blocked_on(r),
               cpu' = Interrupted, pend' = pend
        PROVE  PathsLeft'
    <3>1. \A n \in BlockedOn(r) : state[n] = "Blocked"
      BY DEF BlockedOn
    <3>2. CASE wake_blocked_on(r)
      <4>1. Wake(BlockedOn(r) \cap Walked)
        BY <3>2 DEF wake_blocked_on
      <4> QED BY <1>13, <2>2, <3>1, <4>1
    <3>3. CASE wake_first_blocked_on(r)
      <4>1. PICK i \in DOMAIN Walk : Walk[i] \in BlockedOn(r) /\ Wake({Walk[i]})
        BY <3>3 DEF wake_first_blocked_on
      <4> QED BY <1>13, <2>2, <3>1, <4>1
    <3> QED BY <2>2, <3>2, <3>3
  <2> QED BY <1>14, <2>1, <2>2 DEF WakesTask, WakesAll, WakesFirst
<1> QED BY <1>6, <1>7, <1>8, <1>9, <1>11, <1>12, <1>14 DEF PortNext

\* A task executes only while it has time left, and so has every group it is
\* nested in; the root, whose window is u32::MAX ticks, within that horizon.
THEOREM QuantumIsLeft == PortSpec => [](PathsLeft /\ (~RootDrains => QuantumLeft))
<1>1. PortInit => TimeInv
  <2> SUFFICES ASSUME PortInit PROVE TimeInv
    OBVIOUS
  <2>1. PortInv /\ PathInv
    BY InitPort, InitPaths DEF PortInit
  <2>2. Main \in Node /\ Root \in Node /\ rem[Main] > 0 /\ parent[Main] = Root /\ parent[Root] = Null
    BY TreeAssumption DEF PortInit, Init, Node
  <2>3. Path(Main) = {Main} \cup Path(Root) /\ Path(Root) = {Root} \cup Path(Null)
    BY <2>1, <2>2, UpStep DEF PortInv
  <2>4. Path(Null) = {}
    <3>1. Up(Null) = <<>>
      BY <2>1, <2>2, UpStep DEF PortInv
    <3> QED BY <3>1 DEF Path, ToSet
  <2>5. \A l \in Leaf : Executes(l) => l = Main
    BY DEF PortInit, Executes
  <2>6. PathsLeft
    BY <2>2, <2>3, <2>4, <2>5 DEF PathsLeft, PathLeft
  <2> QED BY <2>1, <2>6 DEF TimeInv
<1>2. TimeInv /\ [PortNext]_vars => TimeInv'
  BY NextTime
<1>3. TimeInv => PathsLeft /\ (~RootDrains => QuantumLeft)
  BY DEF TimeInv, PathsLeft, PathLeft, QuantumLeft, PathInv, RootKept
<1> QED BY <1>1, <1>2, <1>3, PTL DEF PortSpec

-----------------------------------------------------------------------------
(* Idling *)

\* A switch that leaves nothing to run found nothing that can run.
LEMMA IdleDispatch ==
  ASSUME Inv, PathInv, GroupsAtRoot, Dispatch, cpu' = Idling, NEW l \in Leaf
  PROVE  state'[l] \notin {"Ready", "Running"}
<1> DEFINE cur  == LinkedCurrent
           pick == PickNextLeaf(cur)
<1>1. cur \in Leaf \cup {Null} /\ (cur # Null => state[cur] \in Live)
  BY DEF LinkedCurrent, IsLinked, Inv, TreeTypeOK, TreeInv, LinkedIffLive
<1>2. PickOK(pick)
  BY <1>1, PickNextLeafOK
<1>3. cpu' = (IF pick.leaf = Null THEN Idling ELSE pick.leaf) /\ schedule_next(pick, pending)
  BY DEF Dispatch, Reclaimable
<1> HIDE DEF cur, pick
<1>4. pick.leaf = Null
  BY <1>2, <1>3, PortAssumption DEF PickOK, Idling
<1>5. l \notin CanRun
  BY <1>1, <1>4, PickServes DEF cur, pick
<1>6. l \in Node /\ Null \notin Node
  BY TreeAssumption DEF Node
<1>7. state' = [n \in Node |->
                  CASE n \in pending -> "Free"
                    [] n \notin pending /\ n = pick.leaf /\ pick.leaf # cur -> "Running"
                    [] n \notin pending /\ n = cur /\ pick.leaf \notin {cur, Null}
                         /\ state[n] = "Running" -> "Ready"
                    [] OTHER -> state[n]]
  BY <1>3 DEF schedule_next, cur
<1>8. state'[l] \in {"Free", state[l]}
  BY <1>4, <1>6, <1>7
<1> QED BY <1>5, <1>6, <1>8 DEF CanRun

\* The port goes idle only when no task can run, in every tree whose groups
\* hang below the root: a group whose tasks all wait hides no other task.
THEOREM IdleMeansIdle ==
  ASSUME TwoLevel
  PROVE  PortSpec => IdleOnlyWhenNothingRuns
<1> DEFINE I == Inv /\ PathInv /\ GroupsAtRoot
<1>1. PortInit => I
  BY InitInv, InitPaths, InitAtRoot DEF PortInit
<1>2. I /\ [PortNext]_vars => I'
  BY PortStep, NextInv, NextPaths, GroupsAtRootNext
<1>3. I /\ [PortNext]_vars =>
        [cpu' = Idling /\ cpu # Idling => \A l \in Leaf : state'[l] \notin {"Ready", "Running"}]_vars
  <2> SUFFICES ASSUME I, PortNext, cpu' = Idling, cpu # Idling
               PROVE  \A l \in Leaf : state'[l] \notin {"Ready", "Running"}
    OBVIOUS
  <2>1. Leaf \cap {Idling, Asleep, Awake} = {} /\ Idling # Asleep /\ Idling # Awake
    BY PortAssumption DEF Idling, Asleep, Awake
  <2>2. Interrupted # Idling
    BY <2>1 DEF Interrupted
  <2>3. Dispatch
    BY <2>1, <2>2 DEF PortNext, TimerRuns, SysTick, PendSV, IdleResched, IdleWait, Spawns,
       FailsToSpawn, TaskBlocks, TaskYields, TaskExits, ExitKicks, WakesTask, WakesAll, WakesFirst, port
  <2> QED BY <2>3, IdleDispatch
<1> QED BY <1>1, <1>2, <1>3, PTL DEF PortSpec, IdleOnlyWhenNothingRuns

-----------------------------------------------------------------------------
(* Sleepers *)

\* The step budget of walk_tree gets it around the whole tree.
BudgetSuffices == \A l \in Leaf : state[l] \in Live => l \in Walked

\* A tick counts a wait down, and wakes the waiter when there is nothing left
\* to count.
LEMMA SleeperStep ==
  ASSUME Inv, BudgetSuffices, NoOverdueSleeper, [Next]_tree
  PROVE  NoOverdueSleeper'
<1>0. /\ Leaf \subseteq Node /\ Walked \subseteq Node /\ togo \in [Node -> Nat \cup {Never}]
      /\ state \in [Node -> Live \cup {"Dead", "Free"}] /\ pending \subseteq Leaf
  BY DEF Inv, TreeTypeOK, Node, Walked
<1>1. ASSUME NEW S, MakeReady(S), \A n \in Leaf : n \notin S => togo'[n] = togo[n]
      PROVE  NoOverdueSleeper'
  <2>1. \A n \in Leaf : state'[n] = IF n \in S THEN "Ready" ELSE state[n]
    BY <1>0, <1>1 DEF MakeReady
  <2> QED BY <1>1, <2>1 DEF NoOverdueSleeper
<1>2. ASSUME togo' = togo, \A n \in Leaf : state'[n] = "Blocked" => state[n] = "Blocked"
      PROVE  NoOverdueSleeper'
  BY <1>2 DEF NoOverdueSleeper
<1>3. CASE on_tick
  <2>1. /\ \A n \in Node : state'[n] = IF n \in Expired THEN "Ready" ELSE state[n]
        /\ \A n \in Node \ Expired : togo'[n] = IF togo[n] > 0 THEN togo[n] - 1 ELSE togo[n]
    BY <1>3 DEF on_tick, MakeReady
  <2> SUFFICES ASSUME NEW n \in Leaf, state'[n] = "Blocked" PROVE togo'[n] # 0
    BY DEF NoOverdueSleeper
  <2>2. n \in Node /\ n \notin Expired /\ state[n] = "Blocked"
    BY <1>0, <2>1
  <2>3. togo[n] # 0 /\ n \in Walked
    BY <2>2 DEF NoOverdueSleeper, BudgetSuffices, Live
  <2>4. togo[n] # 1
    BY <2>2, <2>3 DEF Expired
  <2>5. togo[n] \in Nat \cup {-1}
    BY <1>0, <2>2 DEF Never
  <2>6. togo'[n] = IF togo[n] > 0 THEN togo[n] - 1 ELSE togo[n]
    BY <2>1, <2>2
  <2> QED BY <2>3, <2>4, <2>5, <2>6
<1>4. ASSUME NEW r \in Resource \cup {Null}, NEW t \in Sleeps \cup {Never}, mark_blocked_locked(r, t)
      PROVE  NoOverdueSleeper'
  <2>1. t # 0
    BY TreeAssumption DEF Never
  <2>2. state' = [state EXCEPT ![current] = "Blocked"] /\ togo' = [togo EXCEPT ![current] = t]
    BY <1>4 DEF mark_blocked_locked
  <2> QED BY <1>0, <2>1, <2>2 DEF NoOverdueSleeper
<1>5. CASE \E n \in Leaf : wake_task(n)
  BY <1>0, <1>1, <1>5 DEF wake_task, Wake
<1>6. CASE \E r \in Resource : wake_blocked_on(r)
  BY <1>0, <1>1, <1>6 DEF wake_blocked_on, Wake
<1>7. ASSUME NEW r \in Resource, wake_first_blocked_on(r) PROVE NoOverdueSleeper'
  <2>1. PICK n : Wake({n})
    BY <1>7 DEF wake_first_blocked_on
  <2> QED BY <1>0, <1>1, <2>1 DEF Wake
<1>8. CASE \E n \in Leaf : exit_task(n)
  BY <1>0, <1>2, <1>8 DEF exit_task
<1>9. CASE \E n \in Node, g \in Group : Spawn(n, g)
  <2>1. PICK n \in Node : state' = [state EXCEPT ![n] = "Ready"] /\ togo' = [togo EXCEPT ![n] = Never]
    BY <1>9 DEF Spawn
  <2> QED BY <1>0, <2>1 DEF NoOverdueSleeper
<1>10. ASSUME NEW freed \in SUBSET pending,
              schedule_next(PickNextLeaf(LinkedCurrent), freed) \/ reclaim_finished_tasks(freed)
       PROVE  NoOverdueSleeper'
  <2>1. CASE reclaim_finished_tasks(freed)
    BY <1>0, <1>2, <2>1 DEF reclaim_finished_tasks
  <2>2. CASE schedule_next(PickNextLeaf(LinkedCurrent), freed)
    <3> DEFINE next == PickNextLeaf(LinkedCurrent).leaf
    <3>1. /\ togo' = togo
          /\ state' = [n \in Node |->
                         CASE n \in freed -> "Free"
                           [] n \notin freed /\ n = next /\ next # LinkedCurrent -> "Running"
                           [] n \notin freed /\ n = LinkedCurrent /\ next \notin {LinkedCurrent, Null}
                                /\ state[n] = "Running" -> "Ready"
                           [] OTHER -> state[n]]
      BY <2>2 DEF schedule_next
    <3> HIDE DEF next
    <3>2. \A n \in Leaf : state'[n] \in {"Free", "Running", "Ready", state[n]}
      BY <1>0, <3>1
    <3> QED BY <1>2, <3>1, <3>2
  <2> QED BY <1>10, <2>1, <2>2
<1>11. CASE SpawnFails \/ UNCHANGED tree
  BY <1>2, <1>11 DEF SpawnFails, tree
<1> QED BY <1>3, <1>4, <1>5, <1>6, <1>7, <1>8, <1>9, <1>10, <1>11 DEF Next

\* As long as the walk's budget gets it around the tree, the tick on which a
\* bounded wait ends wakes the waiter, whatever else happens in between; a
\* sleeper that is overdue is one that the walk did not reach.
THEOREM SleepersAreSwept == PortSpec /\ []BudgetSuffices => []NoOverdueSleeper
<1>1. Init => Inv /\ NoOverdueSleeper
  BY InitInv DEF Init, NoOverdueSleeper, Never, Node
<1>2. BudgetSuffices /\ Inv /\ NoOverdueSleeper /\ [Next]_tree => (Inv /\ NoOverdueSleeper)'
  BY NextInv, SleeperStep
<1>3. PortInit => Init
  BY DEF PortInit
<1>4. [PortNext]_vars => [Next]_tree
  BY PortStep
<1> QED BY <1>1, <1>2, <1>3, <1>4, PTL DEF PortSpec
===============================================================================
