------------------------------ MODULE SchedTree ------------------------------
(***************************************************************************)
(* The scheduling tree of rrkernel (scheduler.rs, trampoline.rs): a root   *)
(* group, groups and leaf tasks, each group owning a circular ring of      *)
(* children, a cursor into it, and a quantum per node.                     *)
(*                                                                         *)
(* A child ring is the sequence that starts at children_head; module Ring  *)
(* shows that the pointer surgery of ring.rs implements it.  Every action  *)
(* is one critical section of the kernel.  The port (who executes, which   *)
(* interrupt is pending) is added by the module CortexM.                   *)
(***************************************************************************)
EXTENDS Integers, Sequences, FiniteSets, SequencesExt, FiniteSetsExt

CONSTANTS
  Leaf,         \* TCBs that can become tasks
  Group,        \* TCBs that can become groups, the root included
  Root,         \* the implicit root group
  Main,         \* task 0, the adopted calling context
  Null,         \* the null pointer, blocked_on = 0 and "no parent"
  Quantum,      \* slice_cycles of each node, in ticks (after .max(1))
  Home,         \* the groups each node may be spawned into
  Sleeps,       \* the bounded waits, in ticks, tasks ask for
  Resource,     \* what tasks block on: locks, wait queues, signals
  RootDrains    \* FALSE: a horizon below the root's u32::MAX ticks

Node == Leaf \cup Group

ASSUME TreeAssumption ==
  /\ Root \in Group /\ Main \in Leaf /\ Leaf \cap Group = {}
  /\ Null \notin Node \cup Resource /\ IsFiniteSet(Leaf)
  /\ Quantum \in [Node -> Nat \ {0}] /\ Quantum[Main] = 1
  /\ Home \in [Node -> SUBSET Group]
  /\ Sleeps \subseteq Nat \ {0}
  /\ RootDrains \in BOOLEAN

VARIABLES
  kids,       \* children_head ring of each group, in next order
  cursor,     \* current_child of each group
  parent,     \* parent of each node
  rem,        \* remaining_cycles of each node
  state,      \* TaskState, "Free" for memory that holds no TCB
  blockedOn,  \* blocked_on of each node
  togo,       \* ticks until block_deadline; Never when it is 0
  current,    \* KERNEL.current
  ringHead,   \* KERNEL.ring_head
  active,     \* KERNEL.active_threads
  pending,    \* the deferred-free list, KERNEL.pending_free
  nodes       \* KERNEL.nodes, what walk_limit is computed from

tree == <<kids, cursor, parent, rem, state, blockedOn, togo, current,
          ringHead, active, pending, nodes>>

Never == -1

\* nodes only ever grows, but a walk takes at most two steps per node below
\* the root, so counting beyond this bound changes nothing.
NodesCap == 2 * Cardinality(Node) - 4

Bump(k) == IF k < NodesCap THEN k + 1 ELSE k

-----------------------------------------------------------------------------
(* Rings *)

Live == {"Ready", "Running", "Blocked"}

CanRun == {n \in Node : state[n] \in {"Ready", "Running"}}

IsLinked(n) == \E g \in Group : n \in ToSet(kids[g])

Pos(g, n) == CHOOSE i \in DOMAIN kids[g] : kids[g][i] = n

\* Once around g's ring from n's successor, n itself last.
Lap(g, n) ==
  SubSeq(kids[g], Pos(g, n) + 1, Len(kids[g])) \o SubSeq(kids[g], 1, Pos(g, n))

Succ(g, n) == Head(Lap(g, n))

Hits(lap, S) == {i \in DOMAIN lap : lap[i] \in S}

FirstOf(lap, S) == IF Hits(lap, S) = {} THEN Null ELSE lap[Min(Hits(lap, S))]

\* ring::next_runnable
NextRunnable(n) == FirstOf(Lap(parent[n], n), CanRun)

\* ring::first_runnable_from: n itself first.
FirstRunnableFrom(n) == IF n \in CanRun THEN n ELSE NextRunnable(n)

\* The child a group resumes at, given the cursors c: the cursor when it can
\* run, else the next that can, else the first from the head.
ResumeChild_cursor_only(c, g) == IF kids[g] = <<>> THEN Null ELSE c[g]
ResumeChild(c, g) ==
  CASE kids[g] = <<>> -> Null
    [] kids[g] # <<>> /\ c[g] \in CanRun \cap ToSet(kids[g]) -> c[g]
    [] OTHER ->
         IF c[g] \in ToSet(kids[g]) /\ NextRunnable(c[g]) # Null
         THEN NextRunnable(c[g])
         ELSE FirstRunnableFrom(Head(kids[g]))

-----------------------------------------------------------------------------
(* Choosing the next leaf.  The Rust functions walk and assign as they go;  *)
(* here each is the set of nodes it touches and the leaf it ends at.  No    *)
(* node is assigned two different values on one pass, so the assignments    *)
(* commute and are made together in PickNextLeaf.                           *)

\* The path from n up to the root, n first.
Up(n) ==
  LET up[x \in Node \cup {Null}] == IF x = Null THEN <<>> ELSE <<x>> \o up[parent[x]]
  IN  up[n]

Path(n) == Node \cap ToSet(Up(n))

\* descend_and_arm: the nodes it passes, from p down along the cursors c.
\* It stops short of a leaf at a group that offers no runnable child.
Descent(c, p) ==
  LET down[x \in Node \cup {Null}] ==
        IF x \in Group THEN {x} \cup down[ResumeChild(c, x)] ELSE {x}
  IN  CanRun \cap down[p]

\* ... and the leaf it returns.
DescentLeaf(c, p) ==
  LET ends == Descent(c, p) \cap Leaf
  IN  IF ends = {} THEN Null ELSE CHOOSE l \in ends : TRUE

\* Children of g from which a descent reaches a leaf.
Serves(c, g) == {p \in CanRun \cap ToSet(kids[g]) : DescentLeaf(c, p) # Null}

\* The order in which advance_from tries g's children: from the cursor's
\* successor when the cursor is one of them, else from the head.
Round(c, g) == IF c[g] \in ToSet(kids[g]) THEN Lap(g, c[g]) ELSE kids[g]

\* advance_from(g): the first ring, going up from g, with a child to serve;
\* the entry chosen there, and every child a descent was tried from.
AdvanceFrom(c, g) ==
  LET up      == Up(g)
      ring(i) == ToSet(kids[up[i]])
      good    == {i \in 1..Len(up) : Serves(c, up[i]) # {}}
  IN  IF good = {}
      THEN [group |-> Null, entry |-> Null, tried |-> UNION {ring(i) : i \in 1..Len(up)}]
      ELSE LET lvl   == Min(good)
               h     == up[lvl]
               round == Round(c, h)
               hits  == Hits(round, Serves(c, h))
           IN  [group |-> h,
                entry |-> FirstOf(round, Serves(c, h)),
                tried |-> (UNION {ring(i) : i \in 1..lvl - 1}) \cup {round[k] : k \in 1..Min(hits)}]

\* Levels of a path up whose quantum is spent; the highest is the one
\* outermost_exhausted finds.
ExhaustedLevels(up) == {i \in 1..Len(up) : rem[up[i]] = 0}

\* Cursors after every node of S whose parent ring has another to run lost
\* its place in that ring.
MoveOn(S) ==
  LET left(g) == {n \in S : parent[n] = g /\ NextRunnable(n) \in ToSet(kids[g])}
  IN  [g \in Group |-> IF left(g) = {} THEN cursor[g]
                       ELSE NextRunnable(CHOOSE n \in left(g) : TRUE)]

\* The loop of pick_next_leaf that moves every parent past a spent node below
\* the outermost exhausted one.
SpentCursors_none(up) == cursor
SpentCursors_all(up) == MoveOn({up[i] : i \in 1..Len(up)})
SpentCursors(up) ==
  LET zero == ExhaustedLevels(up)
  IN  MoveOn({up[i] : i \in zero \ {Max(zero)}})

\* arm_if_needed: a spent node gets a full quantum, a preempted one keeps
\* what it had left.
Arm_never(n) == rem[n]
Arm_always(n) == Quantum[n]
Arm(n) == IF rem[n] = 0 THEN Quantum[n] ELSE rem[n]

\* The cursors and armed nodes an advance or a descent leaves behind.
Outcome(c, adv, entered) ==
  LET touched == UNION {Descent(c, p) : p \in adv.tried \cup entered}
      chosen  == IF adv.group # Null THEN {adv.entry} ELSE entered
      ends    == {l \in Leaf : \E p \in chosen : DescentLeaf(c, p) = l}
  IN  [leaf   |-> IF ends = {} THEN Null ELSE CHOOSE l \in ends : TRUE,
       cursor |-> [g \in Group |->
                     IF g = adv.group THEN adv.entry
                     ELSE IF g \in touched /\ ResumeChild(c, g) \in CanRun
                          THEN ResumeChild(c, g) ELSE c[g]],
       rem    |-> [n \in Node |-> IF n \in touched THEN Arm(n) ELSE rem[n]]]

NoAdvance == [group |-> Null, entry |-> Null, tried |-> {}]

\* pick_next_leaf.  Nothing current: enter the root's ring at its cursor.
\* Quantum left: the leaf keeps the CPU unless it has blocked.  Otherwise the
\* turn passes on in the ring of the outermost exhausted node.
PickNextLeaf_keeps_blocked(cur) ==
  IF cur # Null /\ ExhaustedLevels(Up(cur)) = {}
  THEN [leaf |-> cur, cursor |-> cursor, rem |-> rem]
  ELSE Outcome(cursor, AdvanceFrom(cursor, Root), {})
PickNextLeaf(cur) ==
  IF cur = Null
  THEN LET p == ResumeChild(cursor, Root)
       IN  IF DescentLeaf(cursor, p) # Null
           THEN Outcome(cursor, NoAdvance, {p})
           ELSE Outcome(cursor, AdvanceFrom(cursor, Root), {p})
  ELSE LET up   == Up(cur)
           zero == ExhaustedLevels(up)
       IN  IF zero = {}
           THEN IF cur \in CanRun
                THEN [leaf |-> cur, cursor |-> cursor, rem |-> rem]
                ELSE Outcome(cursor, AdvanceFrom(cursor, Root), {})
           ELSE LET z == up[Max(zero)]
                    c == SpentCursors(up)
                IN  Outcome(c, AdvanceFrom(c, IF z = Root THEN Root ELSE parent[z]), {})

-----------------------------------------------------------------------------
(* Walking the tree *)

walk_limit == nodes + 2

Walk_flat == kids[Root]

\* walk_tree from the root's ring.  Every step of the budget either visits a
\* node or moves on from it, sideways or up.  The nodes visited, in order.
Walk ==
  LET walk[n \in Node \cup {Null}, visit \in BOOLEAN, steps \in Nat] ==
        IF n = Null \/ steps = 0 THEN <<>>
        ELSE IF visit
        THEN <<n>> \o (IF n \in Group /\ kids[n] # <<>>
                       THEN walk[Head(kids[n]), TRUE, steps - 1]
                       ELSE walk[n, FALSE, steps - 1])
        ELSE IF Last(kids[parent[n]]) # n
        THEN walk[Succ(parent[n], n), TRUE, steps - 1]
        ELSE walk[IF parent[n] = Root THEN Null ELSE parent[n], FALSE, steps - 1]
  IN  IF kids[Root] = <<>> THEN <<>> ELSE walk[Head(kids[Root]), TRUE, walk_limit]

Walked == Node \cap ToSet(Walk)

BlockedOn(r) == {n \in Leaf : state[n] = "Blocked" /\ blockedOn[n] = r}

-----------------------------------------------------------------------------
(* Critical sections *)

\* Make the tasks of S ready, as every wake does to a blocked task.
MakeReady(S) ==
  /\ state' = [n \in Node |-> IF n \in S THEN "Ready" ELSE state[n]]
  /\ blockedOn' = [n \in Node |-> IF n \in S THEN Null ELSE blockedOn[n]]

\* init_with: the root and the adopted task 0.
Init ==
  /\ kids = [g \in Group |-> IF g = Root THEN <<Main>> ELSE <<>>]
  /\ cursor = [g \in Group |-> IF g = Root THEN Main ELSE Null]
  /\ parent = [n \in Node |-> IF n = Main THEN Root ELSE Null]
  /\ rem = [n \in Node |-> IF n \in {Root, Main} THEN Quantum[n] ELSE 0]
  /\ state = [n \in Node |-> CASE n = Root -> "Ready"
                              [] n = Main -> "Running"
                              [] OTHER -> "Free"]
  /\ blockedOn = [n \in Node |-> Null]
  /\ togo = [n \in Node |-> Never]
  /\ current = Main /\ ringHead = Main /\ active = 1
  /\ pending = {} /\ nodes = Bump(Bump(0))

\* drain_current_path: the running path, each node down to zero at most.
Spend_wraps(n) == rem[n] - 1
Spend(n) == IF rem[n] > 0 THEN rem[n] - 1 ELSE 0

Drained == Path(current) \ (IF RootDrains THEN {} ELSE {Root})

\* wake_expired: the blocked tasks it finds past their deadline.
Expired == {n \in Walked : state[n] = "Blocked" /\ togo[n] \in {0, 1}}

\* on_tick: drain_current_path, then wake_expired.
on_tick ==
  \E drained \in {Drained}, expired \in {Expired} :
    /\ rem' = [n \in Node |-> IF n \in drained THEN Spend(n) ELSE rem[n]]
    /\ MakeReady(expired)
    /\ togo' = [n \in Node |-> CASE n \in expired -> Never
                                [] n \notin expired /\ togo[n] > 0 -> togo[n] - 1
                                [] OTHER -> togo[n]]
    /\ UNCHANGED <<kids, cursor, parent, current, ringHead, active, pending, nodes>>

\* A freed TCB is no longer memory of the kernel: its fields are as before
\* the next alloc_tcb, which writes them all.
Forget(f, freed, v) == [n \in Node |-> IF n \in freed THEN v ELSE f[n]]

\* A current task that has unlinked itself is no current task.
LinkedCurrent == IF IsLinked(current) THEN current ELSE Null

\* A port's switch section: reclaim_finished_tasks for the nodes of freed (the
\* port pins the others), then schedule_next with what pick_next_leaf found.
schedule_next(pick, freed) ==
  LET cur  == LinkedCurrent
      next == pick.leaf
  IN  /\ freed \subseteq pending
      /\ pending' = pending \ freed
      /\ cursor' = pick.cursor
      /\ rem' = Forget(pick.rem, freed, 0)
      /\ parent' = Forget(parent, freed, Null)
      /\ current' = IF next = Null THEN cur ELSE next
      /\ state' = [n \in Node |->
                     CASE n \in freed -> "Free"
                       [] n \notin freed /\ n = next /\ next # cur -> "Running"
                       [] n \notin freed /\ n = cur /\ next \notin {cur, Null}
                            /\ state[n] = "Running" -> "Ready"
                       [] OTHER -> state[n]]
      /\ UNCHANGED <<kids, blockedOn, togo, ringHead, active, nodes>>

\* reclaim_finished_tasks on its own, where a port drains outside a switch.
reclaim_finished_tasks(freed) ==
  /\ freed # {} /\ freed \subseteq pending
  /\ pending' = pending \ freed
  /\ state' = [n \in Node |-> IF n \in freed THEN "Free" ELSE state[n]]
  /\ rem' = Forget(rem, freed, 0)
  /\ parent' = Forget(parent, freed, Null)
  /\ UNCHANGED <<kids, cursor, blockedOn, togo, current, ringHead, active, nodes>>

\* insert_child: right after the parent's cursor.
InsertChild(g, n) ==
  /\ kids' = [kids EXCEPT ![g] =
                 IF @ = <<>> THEN <<n>>
                 ELSE InsertAt(@, (IF cursor[g] \in ToSet(@) THEN Pos(g, cursor[g]) ELSE 1) + 1, n)]
  /\ cursor' = [cursor EXCEPT ![g] = IF @ = Null THEN n ELSE @]
  /\ ringHead' = IF g = Root THEN n ELSE ringHead

\* active_threads counts leaves only.
ActiveAfterSpawn_any(n) == active + 1
ActiveAfterSpawn(n) == IF n \in Leaf THEN active + 1 ELSE active

\* spawn_internal and spawn_group_node: a fresh TCB, linked and armed.
Spawn(n, g) ==
  /\ state[n] = "Free" /\ g \in Home[n] /\ state[g] = "Ready"
  /\ InsertChild(g, n)
  /\ parent' = [parent EXCEPT ![n] = g]
  /\ state' = [state EXCEPT ![n] = "Ready"]
  /\ rem' = [rem EXCEPT ![n] = Quantum[n]]
  /\ blockedOn' = [blockedOn EXCEPT ![n] = Null]
  /\ togo' = [togo EXCEPT ![n] = Never]
  /\ active' = ActiveAfterSpawn(n)
  /\ nodes' = Bump(nodes)
  /\ UNCHANGED <<current, pending>>

\* spawn_internal that got its TCB but not its closure block or its stack:
\* the TCB goes back to the arena, the node count does not.
SpawnFails ==
  /\ nodes' = Bump(nodes)
  /\ UNCHANGED <<kids, cursor, parent, rem, state, blockedOn, togo, current,
                 ringHead, active, pending>>

\* mark_blocked_locked of the current task, deadline t ticks ahead or Never.
mark_blocked_locked(r, t) ==
  /\ current # Null
  /\ state' = [state EXCEPT ![current] = "Blocked"]
  /\ blockedOn' = [blockedOn EXCEPT ![current] = r]
  /\ togo' = [togo EXCEPT ![current] = t]
  /\ UNCHANGED <<kids, cursor, parent, rem, current, ringHead, active, pending, nodes>>

\* What every wake primitive does to the blocked tasks of S.
Wake(S) ==
  /\ S # {}
  /\ MakeReady(S)
  /\ togo' = [n \in Node |-> IF n \in S THEN Never ELSE togo[n]]
  /\ UNCHANGED <<kids, cursor, parent, rem, current, ringHead, active, pending, nodes>>

wake_task(n) == state[n] = "Blocked" /\ n \in Walked /\ Wake({n})

wake_blocked_on(r) == BlockedOn(r) # {} /\ Wake(BlockedOn(r) \cap Walked)

\* The first waiter in walk order.
wake_first_blocked_on(r) ==
  LET walk    == Walk
      waiters == BlockedOn(r)
  IN  /\ waiters # {}
      /\ \E i \in DOMAIN walk :
           /\ walk[i] \in waiters
           /\ \A j \in 1..i - 1 : walk[j] \notin waiters
           /\ Wake({walk[i]})

\* A parent's cursor steps over the node that leaves.
CursorAfterExit_stale(g, me, succ) == cursor
CursorAfterExit(g, me, succ) == [cursor EXCEPT ![g] = IF @ = me THEN succ ELSE @]

\* me leaves its parent's ring: what ring::unlink and the fix-up of the
\* parent's head and cursor come to.
Leave(me) ==
  LET g    == parent[me]
      i    == Pos(g, me)
      succ == IF Len(kids[g]) = 1 THEN Null ELSE Succ(g, me)
  IN  /\ kids' = [kids EXCEPT ![g] = RemoveAt(@, i)]
      /\ cursor' = CursorAfterExit(g, me, succ)
      /\ ringHead' = IF g = Root THEN succ ELSE ringHead

\* exit_task, the section that tears the current task down.  A port that
\* cannot park synchronously may get here with the task marked Blocked.
exit_task(me) ==
  /\ me = current /\ state[me] \in Live
  /\ state' = [state EXCEPT ![me] = "Dead"]
  /\ Leave(me)
  /\ current' = Null
  /\ active' = IF active > 0 THEN active - 1 ELSE 0
  /\ pending' = pending \cup {me}
  /\ UNCHANGED <<parent, rem, blockedOn, togo, nodes>>

-----------------------------------------------------------------------------
(* The kernel as any port may drive it. *)
Next ==
  \/ on_tick
  \/ \E freed \in SUBSET pending : schedule_next(PickNextLeaf(LinkedCurrent), freed) \/ reclaim_finished_tasks(freed)
  \/ \E n \in Node, g \in Group : Spawn(n, g)
  \/ SpawnFails
  \/ \E r \in Resource \cup {Null}, t \in Sleeps \cup {Never} : mark_blocked_locked(r, t)
  \/ \E n \in Leaf : wake_task(n) \/ exit_task(n)
  \/ \E r \in Resource : wake_blocked_on(r) \/ wake_first_blocked_on(r)

Spec == Init /\ [][Next]_tree

-----------------------------------------------------------------------------
TreeTypeOK ==
  /\ kids \in [Group -> Seq(Node)]
  /\ cursor \in [Group -> Node \cup {Null}]
  /\ parent \in [Node -> Group \cup {Null}]
  /\ rem \in [Node -> Nat]
  /\ state \in [Node -> Live \cup {"Dead", "Free"}]
  /\ blockedOn \in [Node -> Resource \cup {Null}]
  /\ togo \in [Node -> Nat \cup {Never}]
  /\ current \in Leaf \cup {Null} /\ ringHead \in Node \cup {Null}
  /\ active \in Nat /\ pending \subseteq Leaf /\ nodes \in Nat

\* No node is linked twice in a ring.
RingsInjective ==
  \A g \in Group : \A i, j \in DOMAIN kids[g] : kids[g][i] = kids[g][j] => i = j

\* A node is linked into its parent's ring exactly while its TCB is alive.
LinkedIffLive ==
  /\ \A g \in Group : \A n \in ToSet(kids[g]) : parent[n] = g /\ state[n] \in Live
  /\ \A n \in Node \ {Root} :
       state[n] \in Live => parent[n] \in Group /\ n \in ToSet(kids[parent[n]])
  /\ parent[Root] = Null /\ state[Root] \in Live

\* A cursor is null for an empty ring and one of the children otherwise.
CursorInRing ==
  \A g \in Group : IF kids[g] = <<>> THEN cursor[g] = Null ELSE cursor[g] \in ToSet(kids[g])

RingHeadInRing ==
  IF kids[Root] = <<>> THEN ringHead = Null ELSE ringHead \in ToSet(kids[Root])

CurrentIsLive == current # Null => state[current] \in Live

\* Exactly the dead TCBs wait for reclamation: none is lost, none queued twice.
PendingIsDead == pending = {n \in Node : state[n] = "Dead"}

\* Whatever the port and the tasks do, no ring, cursor, ring_head or current
\* ever refers to a TCB that exit_task has unlinked or reclaim_finished_tasks
\* has given back to the arena, and no live TCB drops out of the rings.
TreeInv ==
  /\ RingsInjective /\ LinkedIffLive /\ CursorInRing /\ RingHeadInRing
  /\ CurrentIsLive /\ PendingIsDead

\* active_threads is the number of live leaves, through failed spawns, exits
\* and reclaimed TCBs.
ActiveCountsLeaves == active = Cardinality({n \in Leaf : state[n] \in Live})

\* A quantum is only ever spent one tick at a time on the running path and
\* re-armed from zero: a child preempted because an ancestor's window closed
\* resumes with exactly the time it had left (spawn and reclaim aside).
LeftoverKept ==
  [][\A n \in Node : state[n] \in Live /\ rem'[n] # rem[n] =>
       \/ rem'[n] = rem[n] - 1 /\ n \in Path(current)
       \/ rem[n] = 0 /\ rem'[n] = Quantum[n]]_tree

\* A group's cursor leaves a child only when the turn of the child that has it
\* is over: a node of the running path in this group has spent its quantum
\* (below the root the cursor's own node), a descent from the cursor finds
\* nothing to run, or the running task gave up the CPU.  The root's cursor may
\* lie elsewhere: after an exit resume_child enters the ring without moving it.
CursorKeepsPreempted ==
  [][\A g \in Group : cursor[g] # Null /\ cursor'[g] # cursor[g] =>
       \/ \E n \in Path(current) : parent[n] = g /\ rem[n] = 0 /\ (g # Root => n = cursor[g])
       \/ DescentLeaf(cursor, cursor[g]) = Null
       \/ current \notin CanRun \/ state'[current] = "Dead"]_tree
=============================================================================
