---------------------------------- MODULE Ring ----------------------------------
(***************************************************************************)
(* The intrusive child rings as they lie in memory (ring.rs): next and     *)
(* prev links in every TCB, children_head and current_child in every       *)
(* group, and KERNEL.ring_head, which shadows the root's ring.             *)
(*                                                                         *)
(* SchedTree speaks of a ring as the sequence that starts at               *)
(* children_head.  Kids is that sequence, read off the links, and Tree is  *)
(* SchedTree over it: every pointer operation here is the operation on     *)
(* sequences that SchedTree takes it for.                                  *)
(***************************************************************************)
EXTENDS Integers, Sequences, FiniteSets, SequencesExt

CONSTANTS
  Tcb,      \* memory for TCBs that are linked into rings
  Group,    \* the owners of the rings
  Root,     \* the implicit root group
  Null

ASSUME RingAssumption ==
  /\ Tcb # {} /\ IsFiniteSet(Tcb)
  /\ Root \in Group /\ Tcb \cap Group = {} /\ Null \notin Tcb \cup Group

VARIABLES
  next, prev,       \* the links of each TCB
  state,            \* its TaskState, "Free" for memory that holds none
  parent,           \* its parent
  children_head,    \* of each group
  current_child,    \* of each group
  ring_head,        \* KERNEL.ring_head
  pending_free      \* KERNEL.pending_free: dead TCBs not yet reclaimed, the
                    \* prev of each being the next of this list

vars == <<next, prev, state, parent, children_head, current_child, ring_head, pending_free>>

Links == [Tcb -> Tcb \cup {Null}]

is_linked(n) == n # Null /\ next[n] # Null

not_runnable(n) == state[n] \in {"Dead", "Blocked"}

-----------------------------------------------------------------------------
(* Walks along the links *)

\* The nodes met going from n along next until n comes round again, n first;
\* no further than there are TCBs, should the links be broken.
Around(n) ==
  LET from[k \in 1..Cardinality(Tcb) + 1] ==
        IF k = 1 THEN n
        ELSE IF from[k - 1] = Null THEN Null ELSE next[from[k - 1]]
      ends == {k \in DOMAIN from : k > 1 /\ from[k] \in {n, Null}}
  IN  SubSeq(from, 1, (IF ends = {} THEN Cardinality(Tcb) + 1 ELSE Min(ends)) - 1)

\* The nodes of n's ring, which a walk from n meets.
Siblings(n) == {m \in Tcb : is_linked(m) /\ parent[m] = parent[n]}

\* ring::next_runnable: stops at from, whatever its state.
next_runnable_skips_self(from) ==
  LET go[p \in Siblings(from)] ==
        CASE p = from -> Null [] p # from /\ ~not_runnable(p) -> p [] OTHER -> go[next[p]]
  IN  go[next[from]]
next_runnable(from) ==
  LET go[p \in Siblings(from)] ==
        CASE ~not_runnable(p) -> p
          [] not_runnable(p) /\ p = from -> Null
          [] OTHER -> go[next[p]]
  IN  go[next[from]]

first_runnable_from(from) ==
  IF from = Null \/ ~not_runnable(from) THEN from ELSE next_runnable(from)

\* ring::len
len(any) == IF any = Null THEN 0 ELSE Len(Around(any))

\* ring::check accepts the ring: every link back is undone by a link forth.
check(any) ==
  any = Null \/ \A n \in ToSet(Around(any)) : n # Null /\ next[prev[n]] = n /\ prev[next[n]] = n

-----------------------------------------------------------------------------
(* The surgery *)

\* ring::insert_after: the links after it.
insert_after_one_way(at, n) ==
  IF at = Null
  THEN [next |-> [next EXCEPT ![n] = n], prev |-> [prev EXCEPT ![n] = n]]
  ELSE [next |-> [next EXCEPT ![n] = next[at], ![at] = n], prev |-> [prev EXCEPT ![n] = at]]
insert_after(at, n) ==
  IF at = Null
  THEN [next |-> [next EXCEPT ![n] = n], prev |-> [prev EXCEPT ![n] = n]]
  ELSE [next |-> [next EXCEPT ![n] = next[at], ![at] = n],
        prev |-> [prev EXCEPT ![n] = at, ![next[at]] = n]]

\* ring::unlink: the links after it, those of the node poisoned.
unlink(n) ==
  IF next[n] = n
  THEN [next |-> [next EXCEPT ![n] = Null], prev |-> [prev EXCEPT ![n] = Null]]
  ELSE [next |-> [next EXCEPT ![prev[n]] = next[n], ![n] = Null],
        prev |-> [prev EXCEPT ![next[n]] = prev[n], ![n] = Null]]

\* ... and the successor it returns.
UnlinkReturns(n) == IF next[n] = n THEN Null ELSE next[n]

\* insert_child: where in g's ring a newcomer goes.
Anchor_head(g) == children_head[g]
Anchor(g) ==
  LET cur == current_child[g]
  IN  IF is_linked(cur) /\ parent[cur] = g THEN cur ELSE children_head[g]

Init ==
  /\ next = [n \in Tcb |-> Null] /\ prev = [n \in Tcb |-> Null]
  /\ state = [n \in Tcb |-> "Free"] /\ parent = [n \in Tcb |-> Null]
  /\ children_head = [g \in Group |-> Null] /\ current_child = [g \in Group |-> Null]
  /\ ring_head = Null /\ pending_free = Null

insert_child(g, n) ==
  LET links == insert_after(IF is_linked(Anchor(g)) THEN Anchor(g) ELSE Null, n)
  IN  /\ state[n] = "Free"
      /\ next' = links.next /\ prev' = links.prev
      /\ state' = [state EXCEPT ![n] = "Ready"]
      /\ parent' = [parent EXCEPT ![n] = g]
      /\ children_head' = [children_head EXCEPT ![g] = IF @ = Null THEN n ELSE @]
      /\ current_child' = [current_child EXCEPT ![g] = IF @ = Null THEN n ELSE @]
      /\ ring_head' = IF g = Root THEN n ELSE ring_head
      /\ UNCHANGED pending_free

\* exit_task: unlink, then every reference to the node moves on.
HeadAfterExit_stale(n) == children_head
HeadAfterExit(n) ==
  [children_head EXCEPT ![parent[n]] = IF @ = n THEN UnlinkReturns(n) ELSE @]

\* push_pending_free: n ahead of the dead TCBs, by the prev link that unlink
\* has just cleared.
push_pending_free(n) == [unlink(n).prev EXCEPT ![n] = pending_free]

exit_task(n) ==
  /\ state[n] = "Ready"
  /\ next' = unlink(n).next /\ prev' = push_pending_free(n) /\ pending_free' = n
  /\ state' = [state EXCEPT ![n] = "Dead"]
  /\ children_head' = HeadAfterExit(n)
  /\ current_child' = [current_child EXCEPT ![parent[n]] = IF @ = n THEN UnlinkReturns(n) ELSE @]
  /\ ring_head' = IF parent[n] = Root THEN UnlinkReturns(n) ELSE ring_head
  /\ UNCHANGED parent

\* The TCBs a walk from pending_free along prev meets: the least set that
\* holds its head and, with each TCB, the one its prev leads to.
Deferred ==
  {n \in Tcb : \A S \in SUBSET Tcb :
     /\ pending_free \in S \cup {Null}
     /\ \A m \in S : prev[m] \in S \cup {Null}
     => n \in S}

\* reclaim_finished_tasks frees what the walk meets.  A TCB the port pins, one
\* at most (is_pinned), is put back, alone.  Freed memory counts as zeroed
\* here; alloc_tcb zeroes it before its next use.
reclaim_finished_tasks(pinned) ==
  /\ pending_free # Null /\ pinned \in Deferred \cup {Null}
  /\ pending_free' = pinned
  /\ prev' = [n \in Tcb |-> IF n \in Deferred THEN Null ELSE prev[n]]
  /\ state' = [n \in Tcb |-> IF n \in Deferred \ {pinned} THEN "Free" ELSE state[n]]
  /\ parent' = [n \in Tcb |-> IF n \in Deferred \ {pinned} THEN Null ELSE parent[n]]
  /\ UNCHANGED <<next, children_head, current_child, ring_head>>

\* descend_and_arm and advance_from leave a runnable child as the cursor.
MoveCursor(g, n) ==
  /\ is_linked(n) /\ parent[n] = g /\ ~not_runnable(n) /\ n # current_child[g]
  /\ current_child' = [current_child EXCEPT ![g] = n]
  /\ UNCHANGED <<next, prev, state, parent, children_head, ring_head, pending_free>>

\* A task blocks, or is woken.
BlocksOrWakes(n) ==
  /\ \/ state[n] = "Ready" /\ state' = [state EXCEPT ![n] = "Blocked"]
     \/ state[n] = "Blocked" /\ state' = [state EXCEPT ![n] = "Ready"]
  /\ UNCHANGED <<next, prev, parent, children_head, current_child, ring_head, pending_free>>

Next ==
  \/ \E g \in Group, n \in Tcb : insert_child(g, n) \/ MoveCursor(g, n)
  \/ \E n \in Tcb : exit_task(n) \/ BlocksOrWakes(n)
  \/ \E n \in Tcb \cup {Null} : reclaim_finished_tasks(n)

Spec == Init /\ [][Next]_vars

-----------------------------------------------------------------------------
(* The sequences SchedTree speaks of *)

Kids == [g \in Group |-> IF children_head[g] = Null THEN <<>> ELSE Around(children_head[g])]

\* Only the ring operators of SchedTree are used: the variables they do not
\* mention stand for nothing here.
Tree == INSTANCE SchedTree WITH
  Leaf <- Tcb, Main <- CHOOSE n \in Tcb : TRUE, Resource <- {}, Sleeps <- {},
  Quantum <- [n \in Tcb \cup Group |-> 1], Home <- [n \in Tcb \cup Group |-> Group],
  RootDrains <- FALSE,
  kids <- Kids, cursor <- current_child, ringHead <- ring_head,
  state <- [n \in Tcb \cup Group |-> IF n \in Tcb THEN state[n] ELSE "Ready"],
  parent <- [n \in Tcb \cup Group |-> IF n \in Tcb THEN parent[n] ELSE Null],
  rem <- Null, blockedOn <- Null, togo <- Null, current <- Null, active <- 0,
  pending <- {}, nodes <- 0

-----------------------------------------------------------------------------
TypeOK ==
  /\ next \in Links /\ prev \in Links
  /\ state \in [Tcb -> {"Ready", "Blocked", "Dead", "Free"}]
  /\ parent \in [Tcb -> Group \cup {Null}]
  /\ children_head \in [Group -> Tcb \cup {Null}]
  /\ current_child \in [Group -> Tcb \cup {Null}]
  /\ ring_head \in Tcb \cup {Null} /\ pending_free \in Tcb \cup {Null}

Dead == {n \in Tcb : state[n] = "Dead"}

\* next and prev undo each other in live TCBs.  A TCB in no ring has no next,
\* and a prev only for the list of the dead.
LinksInverse ==
  \A n \in Tcb :
    IF state[n] \in {"Ready", "Blocked"}
    THEN /\ next[n] \in Tcb /\ prev[n] \in Tcb /\ parent[n] \in Group
         /\ prev[next[n]] = n /\ next[prev[n]] = n
    ELSE next[n] = Null /\ (state[n] = "Free" => prev[n] = Null)

\* The dead TCBs are one list that ends: pending_free leads to all of them and
\* to nothing else, and no two of its links lead to the same place.
DeadListed ==
  /\ Deferred = Dead
  /\ \A n \in Dead : prev[n] \in Dead \cup {Null} /\ prev[n] # pending_free
  /\ \A n, m \in Dead : prev[n] = prev[m] => n = m

\* No insertion or unlinking, at either end of a ring or on its last node,
\* leaves a link that is not undone from the other side, or a link between a
\* ring and a TCB that has left.  The dead, who use prev once more, stay one
\* list that reclamation frees whole, however rings and list change in turn.
LinkInv == TypeOK /\ LinksInverse /\ DeadListed

\* The links of each ring close around exactly the live children of its
\* group, and the debug check accepts every ring.
RingsComplete ==
  \A g \in Group :
    /\ ToSet(Kids[g]) = {n \in Tcb : is_linked(n) /\ parent[n] = g}
    /\ len(children_head[g]) = Cardinality(ToSet(Kids[g]))
    /\ check(children_head[g])

\* The walks for the next runnable node find the one that comes first in the
\* sequence, for every combination of blocked nodes.
WalksAgree ==
  \A n \in Tcb : is_linked(n) =>
    /\ next_runnable(n) = Tree!NextRunnable(n)
    /\ first_runnable_from(n) = Tree!FirstRunnableFrom(n)

\* Every operation on the links is SchedTree's on the sequences: a child comes
\* in right behind the cursor, or leaves with head, cursor and ring_head moved
\* to its successor, or the rings stay as they are.
ImplementsTree ==
  [][\/ \E g \in Group, n \in Tcb : state[n] = "Free" /\ Tree!InsertChild(g, n)
     \/ \E n \in Tcb : state'[n] = "Dead" /\ state[n] # "Dead" /\ Tree!Leave(n)
     \/ UNCHANGED <<Kids, ring_head>>]_vars
=============================================================================
