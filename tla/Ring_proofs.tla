------------------------------ MODULE Ring_proofs ------------------------------
(* The links of the child rings, proved for any number of TCBs and groups. *)
EXTENDS Ring, RingLemmas, FiniteSetTheorems, TLAPS

\* The states of a TCB that is in a ring.
Linked == {"Ready", "Blocked"}

\* Every TCB on the list of the dead is one, from the head on.
LEMMA ListHead ==
  ASSUME TypeOK, DeadListed
  PROVE  /\ Dead \subseteq Tcb /\ Deferred = Dead /\ pending_free \in Dead \cup {Null}
         /\ \A n \in Dead : prev[n] \in Dead \cup {Null} /\ prev[n] # pending_free
         /\ \A n, m \in Dead : prev[n] = prev[m] => n = m
<1>1. Dead \subseteq Tcb /\ Deferred = Dead
  BY DEF DeadListed, Dead
<1>2. pending_free \in Tcb => pending_free \in Deferred
  BY RingAssumption DEF Deferred
<1> QED BY <1>1, <1>2 DEF DeadListed, TypeOK

\* The list of the dead stays what it is while nobody dies or is freed and no
\* link of it is touched.
LEMMA ListKept ==
  ASSUME TypeOK, DeadListed, pending_free' = pending_free,
         \A n \in Tcb : state'[n] = "Dead" <=> state[n] = "Dead",
         \A n \in Tcb : state[n] = "Dead" => prev'[n] = prev[n]
  PROVE  DeadListed'
<1>1. /\ Dead \subseteq Tcb /\ Deferred = Dead /\ pending_free \in Dead \cup {Null}
      /\ \A n \in Dead : prev[n] \in Dead \cup {Null} /\ prev[n] # pending_free
      /\ \A n, m \in Dead : prev[n] = prev[m] => n = m
  BY ListHead
<1>2. Dead' = Dead /\ \A n \in Dead : prev'[n] = prev[n]
  BY DEF Dead
<1>3. Deferred' \subseteq Dead
  <2>1. /\ Dead \in SUBSET Tcb /\ pending_free' \in Dead \cup {Null}
        /\ \A m \in Dead : prev'[m] \in Dead \cup {Null}
    BY <1>1, <1>2
  <2> QED BY <2>1 DEF Deferred
<1>4. ASSUME NEW n \in Dead, NEW S \in SUBSET Tcb, pending_free \in S \cup {Null},
             \A m \in S : prev'[m] \in S \cup {Null}
      PROVE  n \in S
  <2>1. S \cap Dead \in SUBSET Tcb /\ pending_free \in (S \cap Dead) \cup {Null}
    BY <1>1, <1>4
  <2>2. \A m \in S \cap Dead : prev[m] \in (S \cap Dead) \cup {Null}
    BY <1>1, <1>2, <1>4
  <2>3. n \in Deferred
    BY <1>1
  <2>4. n \in S \cap Dead
    BY <2>1, <2>2, <2>3 DEF Deferred
  <2> QED BY <2>4
<1>5. Dead \subseteq Deferred'
  BY <1>1, <1>4 DEF Deferred
<1> QED BY <1>1, <1>2, <1>3, <1>5 DEF DeadListed

\* The neighbours of a live TCB are live: a dead one links to the dead only.
LEMMA LiveNeighbours ==
  ASSUME LinkInv, NEW n \in Tcb, state[n] \in Linked
  PROVE  /\ next[n] \in Tcb /\ prev[n] \in Tcb /\ parent[n] \in Group
         /\ prev[next[n]] = n /\ next[prev[n]] = n
         /\ state[next[n]] \in Linked /\ state[prev[n]] \in Linked
<1>1. \A m \in Tcb : IF state[m] \in Linked
                     THEN /\ next[m] \in Tcb /\ prev[m] \in Tcb /\ parent[m] \in Group
                          /\ prev[next[m]] = m /\ next[prev[m]] = m
                     ELSE next[m] = Null /\ (state[m] = "Free" => prev[m] = Null)
  BY DEF LinkInv, LinksInverse, Linked
<1>2. \A m \in Tcb : state[m] = "Dead" => m \in Dead /\ prev[m] \in Dead \cup {Null}
  BY DEF LinkInv, DeadListed, Dead
<1>3. n \notin Dead /\ Null \notin Tcb
  BY RingAssumption DEF Dead, Linked
<1>4. \A m \in Tcb : state[m] \notin Linked => state[m] \in {"Dead", "Free"}
  BY DEF LinkInv, TypeOK, Linked
<1>5. next[n] \in Tcb /\ prev[n] \in Tcb /\ prev[next[n]] = n /\ next[prev[n]] = n
  BY <1>1
<1>6. state[prev[n]] \in Linked
  BY <1>1, <1>3, <1>5
<1>7. state[next[n]] \in Linked
  BY <1>1, <1>2, <1>3, <1>4, <1>5
<1> QED BY <1>1, <1>5, <1>6, <1>7

\* exit_task puts the TCB that goes ahead of those that went before.
LEMMA ExitListed ==
  ASSUME LinkInv, NEW n \in Tcb, exit_task(n)
  PROVE  DeadListed'
<1>1. /\ Dead \subseteq Tcb /\ Deferred = Dead /\ pending_free \in Dead \cup {Null}
      /\ \A m \in Dead : prev[m] \in Dead \cup {Null} /\ prev[m] # pending_free
      /\ \A m, k \in Dead : prev[m] = prev[k] => m = k
  BY ListHead DEF LinkInv
<1>2. /\ state[n] = "Ready" /\ pending_free' = n /\ prev' = push_pending_free(n)
      /\ state' = [state EXCEPT ![n] = "Dead"]
  BY DEF exit_task
<1>3. n \notin Dead /\ Dead' = Dead \cup {n} /\ Null \notin Tcb
  BY <1>2, RingAssumption DEF Dead, LinkInv, TypeOK
<1>4. prev'[n] = pending_free /\ \A m \in Dead : prev'[m] = prev[m]
  <2>1. next[n] \notin Dead /\ prev \in [Tcb -> Tcb \cup {Null}]
        /\ next[n] \in Tcb /\ prev[n] \in Tcb
    <3>1. next[n] \in Tcb /\ prev[n] \in Tcb /\ state[next[n]] \in Linked
      BY <1>2, LiveNeighbours DEF Linked
    <3> QED BY <3>1 DEF Dead, Linked, LinkInv, TypeOK, Links
  <2>2. /\ unlink(n).prev \in [Tcb -> Tcb \cup {Null}]
        /\ \A m \in Dead : unlink(n).prev[m] = prev[m]
    BY <1>1, <1>3, <2>1 DEF unlink
  <2> QED BY <1>1, <1>2, <1>3, <2>2 DEF push_pending_free
<1>5. \A m \in Dead' : prev'[m] \in Dead' \cup {Null} /\ prev'[m] # pending_free'
  BY <1>1, <1>2, <1>3, <1>4
<1>6. \A m, k \in Dead' : prev'[m] = prev'[k] => m = k
  BY <1>1, <1>3, <1>4
<1>7. Deferred' \subseteq Dead'
  <2>1. Dead' \in SUBSET Tcb /\ pending_free' \in Dead' \cup {Null}
    BY <1>1, <1>2, <1>3
  <2> QED BY <1>5, <2>1 DEF Deferred
<1>8. ASSUME NEW m \in Dead', NEW S \in SUBSET Tcb, pending_free' \in S \cup {Null},
             \A k \in S : prev'[k] \in S \cup {Null}
      PROVE  m \in S
  <2>1. n \in S
    BY <1>2, <1>3, <1>8
  <2>2. S \cap Dead \in SUBSET Tcb /\ pending_free \in (S \cap Dead) \cup {Null}
    BY <1>1, <1>4, <1>8, <2>1
  <2>3. \A k \in S \cap Dead : prev[k] \in (S \cap Dead) \cup {Null}
    BY <1>1, <1>4, <1>8
  <2>4. ASSUME m \in Deferred PROVE m \in S \cap Dead
    BY <2>2, <2>3, <2>4 DEF Deferred
  <2> QED BY <1>1, <1>3, <2>1, <2>4
<1>9. Dead' \subseteq Deferred'
  BY <1>1, <1>3, <1>8 DEF Deferred
<1> QED BY <1>5, <1>6, <1>7, <1>9 DEF DeadListed

\* Reclamation leaves the rings alone and of the list what is pinned.
LEMMA ReclaimKeepsLinks ==
  ASSUME LinkInv, NEW p \in Tcb \cup {Null}, reclaim_finished_tasks(p)
  PROVE  LinkInv'
<1>1. Dead \subseteq Tcb /\ Deferred = Dead /\ Null \notin Tcb
  BY ListHead, RingAssumption DEF LinkInv
<1>2. /\ p \in Dead \cup {Null} /\ pending_free' = p /\ next' = next
      /\ prev' = [n \in Tcb |-> IF n \in Dead THEN Null ELSE prev[n]]
      /\ state' = [n \in Tcb |-> IF n \in Dead \ {p} THEN "Free" ELSE state[n]]
      /\ parent' = [n \in Tcb |-> IF n \in Dead \ {p} THEN Null ELSE parent[n]]
      /\ UNCHANGED <<children_head, current_child, ring_head>>
  BY <1>1 DEF reclaim_finished_tasks
<1>3. TypeOK'
  BY <1>1, <1>2 DEF LinkInv, TypeOK, Links
<1>4. LinksInverse'
  <2> SUFFICES ASSUME NEW n \in Tcb
               PROVE  IF state'[n] \in Linked
                      THEN /\ next'[n] \in Tcb /\ prev'[n] \in Tcb /\ parent'[n] \in Group
                           /\ prev'[next'[n]] = n /\ next'[prev'[n]] = n
                      ELSE next'[n] = Null /\ (state'[n] = "Free" => prev'[n] = Null)
    BY DEF LinksInverse, Linked
  <2>1. \A m \in Tcb : IF state[m] \in Linked
                       THEN /\ next[m] \in Tcb /\ prev[m] \in Tcb /\ parent[m] \in Group
                            /\ prev[next[m]] = m /\ next[prev[m]] = m
                       ELSE next[m] = Null /\ (state[m] = "Free" => prev[m] = Null)
    BY DEF LinkInv, LinksInverse, Linked
  <2>2. \A m \in Tcb : m \in Dead <=> state[m] = "Dead"
    BY DEF Dead
  <2>3. CASE n \in Dead
    <3>1. state'[n] \in {"Dead", "Free"} /\ next[n] = Null /\ prev'[n] = Null
      BY <1>2, <2>1, <2>2, <2>3 DEF Linked
    <3> QED BY <1>2, <3>1 DEF Linked
  <2>4. CASE n \notin Dead
    <3>1. state'[n] = state[n] /\ parent'[n] = parent[n] /\ prev'[n] = prev[n]
      BY <1>2, <2>4
    <3>2. state[n] \in Linked => next[n] \notin Dead /\ next[n] \in Tcb
      BY <2>2, LiveNeighbours DEF Linked
    <3> QED BY <1>2, <2>1, <3>1, <3>2
  <2> QED BY <2>3, <2>4
<1>5. DeadListed'
  <2>1. Dead' = IF p = Null THEN {} ELSE {p}
    BY <1>1, <1>2 DEF Dead
  <2>2. \A m \in Dead' : prev'[m] = Null /\ m = p
    BY <1>1, <1>2, <2>1
  <2>3. Deferred' \subseteq Dead'
    <3>1. Dead' \in SUBSET Tcb /\ pending_free' \in Dead' \cup {Null}
      BY <1>1, <1>2, <2>1
    <3> QED BY <2>2, <3>1 DEF Deferred
  <2>4. Dead' \subseteq Deferred'
    BY <1>1, <1>2, <2>1 DEF Deferred
  <2> QED BY <1>1, <1>2, <2>1, <2>2, <2>3, <2>4 DEF DeadListed
<1> QED BY <1>3, <1>4, <1>5 DEF LinkInv

\* insert_child links a fresh TCB in from both sides.
LEMMA InsertKeepsLinks ==
  ASSUME LinkInv, NEW g \in Group, NEW n \in Tcb, insert_child(g, n)
  PROVE  LinkInv'
<1> DEFINE at == IF is_linked(Anchor(g)) THEN Anchor(g) ELSE Null
<1>1. /\ next \in Links /\ prev \in Links
      /\ state \in [Tcb -> {"Ready", "Blocked", "Dead", "Free"}]
      /\ parent \in [Tcb -> Group \cup {Null}]
      /\ children_head \in [Group -> Tcb \cup {Null}]
      /\ current_child \in [Group -> Tcb \cup {Null}]
  BY DEF LinkInv, TypeOK
<1>2. /\ state[n] = "Free"
      /\ next' = insert_after(at, n).next /\ prev' = insert_after(at, n).prev
      /\ state' = [state EXCEPT ![n] = "Ready"]
      /\ parent' = [parent EXCEPT ![n] = g]
  BY DEF insert_child
<1>3. next[n] = Null /\ prev[n] = Null
  BY <1>2 DEF LinkInv, LinksInverse
<1>4. at # Null => at \in Tcb /\ state[at] \in Linked
  <2>1. Anchor(g) \in Tcb \cup {Null}
    BY <1>1 DEF Anchor
  <2> QED BY <2>1 DEF is_linked, LinkInv, LinksInverse, Linked
<1> HIDE DEF at
<1>5. Null \notin Tcb
  BY RingAssumption
<1>6. TypeOK'
  <2>1. insert_after(at, n).next \in Links /\ insert_after(at, n).prev \in Links
    BY <1>1, <1>4 DEF insert_after, Links
  <2> QED BY <1>1, <1>2, <2>1 DEF TypeOK, insert_child, LinkInv
<1>7. LinksInverse'
  <2> SUFFICES ASSUME NEW x \in Tcb
               PROVE  IF state'[x] \in Linked
                      THEN /\ next'[x] \in Tcb /\ prev'[x] \in Tcb /\ parent'[x] \in Group
                           /\ prev'[next'[x]] = x /\ next'[prev'[x]] = x
                      ELSE next'[x] = Null /\ (state'[x] = "Free" => prev'[x] = Null)
    BY DEF LinksInverse, Linked
  <2>1. \A y \in Tcb : IF state[y] \in Linked
                       THEN /\ next[y] \in Tcb /\ prev[y] \in Tcb /\ parent[y] \in Group
                            /\ prev[next[y]] = y /\ next[prev[y]] = y
                       ELSE next[y] = Null /\ (state[y] = "Free" => prev[y] = Null)
    BY DEF LinkInv, LinksInverse, Linked
  <2>2. /\ state'[x] = IF x = n THEN "Ready" ELSE state[x]
        /\ parent'[x] = IF x = n THEN g ELSE parent[x]
    BY <1>1, <1>2
  <2>3. CASE at = Null
    <3>1. /\ \A y \in Tcb : next'[y] = IF y = n THEN n ELSE next[y]
          /\ \A y \in Tcb : prev'[y] = IF y = n THEN n ELSE prev[y]
      BY <1>1, <1>2, <2>3 DEF insert_after, Links
    <3> QED BY <1>3, <1>5, <2>1, <2>2, <3>1 DEF Linked
  <2>4. CASE at # Null
    <3>1. at \in Tcb /\ next[at] \in Tcb /\ at # n /\ next[at] # n
      BY <1>2, <1>3, <1>4, <1>5, <2>1, <2>4 DEF Linked
    <3>2. /\ \A y \in Tcb : next'[y] = IF y = at THEN n ELSE IF y = n THEN next[at] ELSE next[y]
          /\ \A y \in Tcb : prev'[y] = IF y = next[at] THEN n ELSE IF y = n THEN at ELSE prev[y]
      BY <1>1, <1>2, <2>4, <3>1 DEF insert_after, Links
    <3> QED BY <1>2, <1>3, <1>4, <1>5, <2>1, <2>2, <3>1, <3>2 DEF Linked
  <2> QED BY <2>3, <2>4
<1>8. DeadListed'
  <2>1. /\ TypeOK /\ DeadListed /\ pending_free' = pending_free
        /\ \A x \in Tcb : state'[x] = "Dead" <=> state[x] = "Dead"
    BY <1>1, <1>2 DEF LinkInv, insert_child
  <2>2. ASSUME NEW x \in Tcb, state[x] = "Dead" PROVE prev'[x] = prev[x]
    <3>1. x # n /\ (at # Null => next[at] # x)
      BY <1>2, <1>4, <2>2, LiveNeighbours DEF Linked
    <3> QED BY <1>1, <1>2, <3>1 DEF insert_after, Links
  <2> QED BY <2>1, <2>2, ListKept
<1> QED BY <1>6, <1>7, <1>8 DEF LinkInv

\* exit_task unlinks from both sides and leaves no link to the TCB that went.
LEMMA ExitKeepsLinks ==
  ASSUME LinkInv, NEW n \in Tcb, exit_task(n)
  PROVE  LinkInv'
<1>1. /\ next \in Links /\ prev \in Links
      /\ state \in [Tcb -> {"Ready", "Blocked", "Dead", "Free"}]
      /\ parent \in [Tcb -> Group \cup {Null}]
      /\ children_head \in [Group -> Tcb \cup {Null}]
      /\ current_child \in [Group -> Tcb \cup {Null}]
      /\ ring_head \in Tcb \cup {Null} /\ pending_free \in Tcb \cup {Null}
  BY DEF LinkInv, TypeOK
<1>2. /\ state[n] = "Ready"
      /\ next' = unlink(n).next /\ prev' = push_pending_free(n) /\ pending_free' = n
      /\ state' = [state EXCEPT ![n] = "Dead"]
      /\ parent' = parent
  BY DEF exit_task
<1>3. \A y \in Tcb : IF state[y] \in Linked
                     THEN /\ next[y] \in Tcb /\ prev[y] \in Tcb /\ parent[y] \in Group
                          /\ prev[next[y]] = y /\ next[prev[y]] = y
                     ELSE next[y] = Null /\ (state[y] = "Free" => prev[y] = Null)
  BY DEF LinkInv, LinksInverse, Linked
<1>4. next[n] \in Tcb /\ prev[n] \in Tcb /\ parent[n] \in Group
  BY <1>2, <1>3 DEF Linked
<1>5. Null \notin Tcb
  BY RingAssumption
<1>6. TypeOK'
  <2>1. unlink(n).next \in Links /\ push_pending_free(n) \in Links
    BY <1>1, <1>4 DEF unlink, push_pending_free, Links
  <2>2. UnlinkReturns(n) \in Tcb \cup {Null}
    BY <1>4 DEF UnlinkReturns
  <2>3. children_head' \in [Group -> Tcb \cup {Null}]
    BY <1>1, <2>2 DEF exit_task, HeadAfterExit
  <2>4. current_child' \in [Group -> Tcb \cup {Null}]
    BY <1>1, <2>2 DEF exit_task
  <2>5. ring_head' \in Tcb \cup {Null}
    BY <1>1, <2>2 DEF exit_task
  <2> QED BY <1>1, <1>2, <2>1, <2>3, <2>4, <2>5 DEF TypeOK
<1>7. LinksInverse'
  <2> SUFFICES ASSUME NEW x \in Tcb
               PROVE  IF state'[x] \in Linked
                      THEN /\ next'[x] \in Tcb /\ prev'[x] \in Tcb /\ parent'[x] \in Group
                           /\ prev'[next'[x]] = x /\ next'[prev'[x]] = x
                      ELSE next'[x] = Null /\ (state'[x] = "Free" => prev'[x] = Null)
    BY DEF LinksInverse, Linked
  <2>1. state'[x] = IF x = n THEN "Dead" ELSE state[x]
    BY <1>1, <1>2
  <2>2. CASE next[n] = n
    <3>1. /\ \A y \in Tcb : next'[y] = IF y = n THEN Null ELSE next[y]
          /\ \A y \in Tcb : prev'[y] = IF y = n THEN pending_free ELSE prev[y]
      BY <1>1, <1>2, <2>2 DEF unlink, push_pending_free, Links
    <3> QED BY <1>2, <1>3, <1>5, <2>1, <2>2, <3>1 DEF Linked
  <2>3. CASE next[n] # n
    <3>1. prev[n] # n
      BY <1>2, <1>3, <2>3 DEF Linked
    <3>2. /\ \A y \in Tcb : next'[y] = IF y = n THEN Null ELSE IF y = prev[n] THEN next[n] ELSE next[y]
          /\ \A y \in Tcb : prev'[y] = IF y = n THEN pending_free ELSE IF y = next[n] THEN prev[n] ELSE prev[y]
      BY <1>1, <1>2, <1>4, <2>3, <3>1 DEF unlink, push_pending_free, Links
    <3> QED BY <1>2, <1>3, <1>4, <1>5, <2>1, <2>3, <3>1, <3>2 DEF Linked
  <2> QED BY <2>2, <2>3
<1>8. DeadListed'
  BY ExitListed
<1> QED BY <1>6, <1>7, <1>8 DEF LinkInv

\* Cursor moves, blocking and waking touch neither the links nor the list.
LEMMA OthersKeepLinks ==
  ASSUME LinkInv,
         \/ \E g \in Group, n \in Tcb : MoveCursor(g, n)
         \/ \E n \in Tcb : BlocksOrWakes(n)
         \/ UNCHANGED vars
  PROVE  LinkInv'
<1>1. TypeOK /\ LinksInverse /\ DeadListed
  BY DEF LinkInv
<1>2. TypeOK' /\ LinksInverse'
  BY <1>1 DEF MoveCursor, BlocksOrWakes, vars, TypeOK, LinksInverse
<1>3. pending_free' = pending_free /\ prev' = prev
  BY DEF MoveCursor, BlocksOrWakes, vars
<1>4. \A n \in Tcb : state'[n] = "Dead" <=> state[n] = "Dead"
  BY <1>1 DEF MoveCursor, BlocksOrWakes, vars, TypeOK
<1> QED BY <1>1, <1>2, <1>3, <1>4, ListKept DEF LinkInv

\* At the start no TCB is linked and none is dead.
LEMMA LinksStart == Init => LinkInv
<1> SUFFICES ASSUME Init PROVE LinkInv
  OBVIOUS
<1>1. TypeOK /\ LinksInverse
  BY RingAssumption DEF Init, TypeOK, LinksInverse, Links
<1>2. Dead = {} /\ pending_free = Null
  BY DEF Init, Dead
<1>3. Deferred = {}
  BY <1>2 DEF Deferred
<1> QED BY <1>1, <1>2, <1>3 DEF LinkInv, DeadListed

\* However TCBs come and go, every link of a ring is undone from the other
\* side and none leads to a TCB that exit_task has unlinked; and the dead, which
\* push_pending_free threads on prev once more, are one list that ends, all of
\* it within reach of pending_free.
THEOREM LinksSafe == Spec => []LinkInv
<1>1. Init => LinkInv
  BY LinksStart
<1>2. LinkInv /\ [Next]_vars => LinkInv'
  <2> SUFFICES ASSUME LinkInv, [Next]_vars PROVE LinkInv'
    OBVIOUS
  <2>1. ASSUME NEW g \in Group, NEW n \in Tcb, insert_child(g, n) PROVE LinkInv'
    BY <2>1, InsertKeepsLinks
  <2>2. ASSUME NEW g \in Group, NEW n \in Tcb, MoveCursor(g, n) PROVE LinkInv'
    BY <2>2, OthersKeepLinks
  <2>3. ASSUME NEW n \in Tcb, exit_task(n) PROVE LinkInv'
    BY <2>3, ExitKeepsLinks
  <2>4. ASSUME NEW n \in Tcb \cup {Null}, reclaim_finished_tasks(n) PROVE LinkInv'
    BY <2>4, ReclaimKeepsLinks
  <2>5. ASSUME NEW n \in Tcb, BlocksOrWakes(n) PROVE LinkInv'
    BY <2>5, OthersKeepLinks
  <2>6. CASE UNCHANGED vars
    BY <2>6, OthersKeepLinks
  <2> QED BY <2>1, <2>2, <2>3, <2>4, <2>5, <2>6 DEF Next
<1> QED BY <1>1, <1>2, PTL DEF Spec

-----------------------------------------------------------------------------
(* Rings as sequences *)

Injective(s) == \A j, k \in DOMAIN s : s[j] = s[k] => j = k

\* The position behind k on a ring.
Behind(s, k) == IF k = Len(s) THEN 1 ELSE k + 1

\* The links nx close around s.
Closes(s, nx) == \A k \in DOMAIN s : nx[s[k]] = s[Behind(s, k)]

\* A ring has as many nodes as its sequence is long, which is no more than
\* there are TCBs.
LEMMA RingLength ==
  ASSUME NEW s \in Seq(Tcb), Injective(s)
  PROVE  Cardinality(ToSet(s)) = Len(s) /\ Len(s) <= Cardinality(Tcb) /\ Cardinality(Tcb) \in Nat
<1> DEFINE I == 1 .. Len(s)
<1>1. Len(s) \in Nat /\ DOMAIN s = I /\ s \in [I -> Tcb]
  OBVIOUS
<1>2. IsFiniteSet(I) /\ Cardinality(I) = Len(s)
  BY <1>1, FS_Interval
<1>3. s \in Injection(I, Tcb)
  BY <1>1 DEF Injection, IsInjective, Injective
<1>4. s \in Bijection(I, ToSet(s))
  BY <1>1 DEF Bijection, Injection, Surjection, IsInjective, Injective, ToSet
<1>5. Cardinality(ToSet(s)) = Len(s)
  BY <1>2, <1>4, FS_Bijection DEF ExistsBijection
<1>6. Len(s) <= Cardinality(Tcb)
  BY <1>2, <1>3, FS_Injection, RingAssumption
<1>7. Cardinality(Tcb) \in Nat
  BY FS_CardinalityType, RingAssumption
<1> QED BY <1>5, <1>6, <1>7

\* Counting modulo w, k is one place on from k - 1, or back at 0.
LEMMA NextPlace ==
  ASSUME NEW w \in Nat \ {0}, NEW k \in Nat \ {0}
  PROVE  /\ (k - 1) % w \in 0 .. w - 1
         /\ k % w = IF (k - 1) % w = w - 1 THEN 0 ELSE ((k - 1) % w) + 1
<1> DEFINE q == (k - 1) \div w
           r == (k - 1) % w
<1>1. q \in Int /\ r \in 0 .. w - 1 /\ k - 1 = w * q + r
  OBVIOUS
<1> HIDE DEF q, r
<1>2. \A p \in Int : \A t \in 0 .. w - 1 : (w * p + t) % w = t
  OBVIOUS
<1>3. CASE r = w - 1
  <2>1. k = w * (q + 1) + 0 /\ q + 1 \in Int /\ 0 \in 0 .. w - 1
    BY <1>1, <1>3
  <2>2. (w * (q + 1) + 0) % w = 0
    BY <1>2, <2>1
  <2> QED BY <1>1, <1>3, <2>1, <2>2 DEF r
<1>4. CASE r # w - 1
  <2>1. k = w * q + (r + 1) /\ r + 1 \in 0 .. w - 1
    BY <1>1, <1>4
  <2>2. (w * q + (r + 1)) % w = r + 1
    BY <1>1, <1>2, <2>1
  <2> QED BY <1>1, <1>4, <2>1, <2>2 DEF r
<1> QED BY <1>3, <1>4

\* Around over any links nx.
AroundIn(nx, n) ==
  LET from[k \in 1..Cardinality(Tcb) + 1] ==
        IF k = 1 THEN n
        ELSE IF from[k - 1] = Null THEN Null ELSE nx[from[k - 1]]
      ends == {k \in DOMAIN from : k > 1 /\ from[k] \in {n, Null}}
  IN  SubSeq(from, 1, (IF ends = {} THEN Cardinality(Tcb) + 1 ELSE Min(ends)) - 1)

\* Around is AroundIn over the links of this state, and of the next.
LEMMA AroundIs == /\ \A n : Around(n) = AroundIn(next, n)
                  /\ \A n : Around(n)' = AroundIn(next', n)
BY DEF Around, AroundIn

\* The nodes Around writes down before it cuts off the second lap.
Steps(nx, n) ==
  CHOOSE from : from = [k \in 1..Cardinality(Tcb) + 1 |->
        IF k = 1 THEN n
        ELSE IF from[k - 1] = Null THEN Null ELSE nx[from[k - 1]]]

LEMMA StepsIs == \A nx, n : AroundIn(nx, n) =
  LET from == Steps(nx, n)
      ends == {k \in DOMAIN from : k > 1 /\ from[k] \in {n, Null}}
  IN  SubSeq(from, 1, (IF ends = {} THEN Cardinality(Tcb) + 1 ELSE Min(ends)) - 1)
BY DEF AroundIn, Steps

\* Links that close around a sequence are read back as that sequence.
LEMMA AroundRing ==
  ASSUME NEW s \in Seq(Tcb), s # <<>>, Injective(s), NEW nx, Closes(s, nx)
  PROVE  AroundIn(nx, s[1]) = s
<1> DEFINE C == Cardinality(Tcb)
           L == Len(s)
           D == 1 .. C + 1
           n == s[1]
           from == Steps(nx, n)
           lap == [k \in D |-> s[((k - 1) % L) + 1]]
<1>1. /\ L \in Nat \ {0} /\ C \in Nat /\ L <= C /\ DOMAIN s = 1 .. L
      /\ \A k \in 1 .. L : s[k] \in Tcb
      /\ Null \notin Tcb
  BY RingLength, RingAssumption
<1>2. \A k \in D : /\ ((k - 1) % L) + 1 \in 1 .. L /\ lap[k] \in Tcb
                   /\ lap[k] = s[((k - 1) % L) + 1]
  <2> SUFFICES ASSUME NEW k \in D
               PROVE  ((k - 1) % L) + 1 \in 1 .. L
    BY <1>1
  <2> HIDE DEF L
  <2> QED BY <1>1, NextPlace
<1>3. \A k \in D : k # 1 => nx[lap[k - 1]] = lap[k]
  <2> SUFFICES ASSUME NEW k \in D, k # 1
               PROVE  nx[lap[k - 1]] = lap[k]
    OBVIOUS
  <2> DEFINE j == ((k - 1 - 1) % L) + 1
  <2>1. k - 1 \in D /\ k - 1 \in Nat \ {0} /\ k \in D
    BY <1>1
  <2>2. lap[k - 1] = s[j] /\ j \in 1 .. L
    BY <1>2, <2>1
  <2>3. (k - 1) % L = IF (k - 1 - 1) % L = L - 1 THEN 0 ELSE ((k - 1 - 1) % L) + 1
    <3> HIDE DEF L
    <3> QED BY <1>1, <2>1, NextPlace
  <2>4. ((k - 1) % L) + 1 = Behind(s, j)
    <3> DEFINE m == (k - 1 - 1) % L
    <3>1. m \in 0 .. L - 1 /\ j = m + 1
      <4> HIDE DEF L
      <4> QED BY <1>1, <2>1, NextPlace
    <3>2. (k - 1) % L = IF m = L - 1 THEN 0 ELSE m + 1
      BY <2>3
    <3>3. Behind(s, j) = IF j = L THEN 1 ELSE j + 1
      BY DEF Behind
    <3> HIDE DEF m, j, L
    <3> QED BY <1>1, <3>1, <3>2, <3>3
  <2>5. nx[s[j]] = s[Behind(s, j)]
    BY <1>1, <2>2 DEF Closes
  <2> HIDE DEF lap, j
  <2> QED BY <1>2, <2>1, <2>2, <2>4, <2>5
<1>4. lap = [k \in D |-> IF k = 1 THEN n ELSE IF lap[k - 1] = Null THEN Null ELSE nx[lap[k - 1]]]
  <2>1. 1 \in D /\ lap[1] = n
    <3>1. 1 \in D /\ (1 - 1) % L = 0
      <4> HIDE DEF L
      <4> QED BY <1>1
    <3> QED BY <1>2, <3>1
  <2>2. \A k \in D : k # 1 => k - 1 \in D
    BY <1>1
  <2>3. \A k \in D : lap[k] = IF k = 1 THEN n ELSE IF lap[k - 1] = Null THEN Null ELSE nx[lap[k - 1]]
    <3> HIDE DEF lap, D, n
    <3> QED BY <1>1, <1>2, <1>3, <2>1, <2>2
  <2>4. lap = [k \in D |-> lap[k]]
    OBVIOUS
  <2> HIDE DEF lap, n
  <2> QED BY <2>3, <2>4
<1>5. from = [k \in D |-> IF k = 1 THEN n ELSE IF from[k - 1] = Null THEN Null ELSE nx[from[k - 1]]]
  BY <1>4 DEF Steps
<1>6. \A k \in D : from[k] = lap[k]
  <2> DEFINE bad == {k \in D : from[k] # lap[k]}
  <2> SUFFICES ASSUME bad # {}
               PROVE  FALSE
    OBVIOUS
  <2>1. bad \subseteq Nat
    OBVIOUS
  <2>2. PICK k \in bad : \A j \in bad : k <= j
    <3>1. Min(bad) \in bad /\ \A j \in bad : Min(bad) <= j
      <4> HIDE DEF bad
      <4> QED BY <2>1, MinInSet
    <3> QED BY <3>1
  <2>3. k \in D /\ k - 1 \notin bad
    BY <2>2
  <2>4. from[k] = IF k = 1 THEN n ELSE IF from[k - 1] = Null THEN Null ELSE nx[from[k - 1]]
    <3> HIDE DEF from, n
    <3> QED BY <1>5, <2>3
  <2>5. lap[k] = IF k = 1 THEN n ELSE IF lap[k - 1] = Null THEN Null ELSE nx[lap[k - 1]]
    <3> HIDE DEF lap, n
    <3> QED BY <1>4, <2>3
  <2>6. k # 1 => k - 1 \in D /\ from[k - 1] = lap[k - 1]
    BY <1>1, <2>3
  <2>7. from[k] = lap[k]
    <3> HIDE DEF from, lap, n, D
    <3> QED BY <2>4, <2>5, <2>6
  <2> QED BY <2>2, <2>7
<1>7. DOMAIN from = D
  <2> HIDE DEF from, n
  <2> QED BY <1>5
<1> DEFINE ends == {k \in DOMAIN from : k > 1 /\ from[k] \in {n, Null}}
<1>8. L + 1 \in ends
  <2>1. L + 1 \in D /\ (L + 1 - 1) % L = 0 /\ L + 1 > 1
    <3>1. L % L = 0 /\ L + 1 - 1 = L
      <4> HIDE DEF L
      <4> QED BY <1>1
    <3> QED BY <1>1, <3>1
  <2>2. from[L + 1] = n
    <3> HIDE DEF from
    <3> QED BY <1>6, <2>1
  <2> HIDE DEF from, n, L
  <2> QED BY <1>7, <2>1, <2>2
<1>9. \A k \in ends : L + 1 <= k
  <2> SUFFICES ASSUME NEW k \in 2 .. L
               PROVE  from[k] \notin {n, Null}
    <3> HIDE DEF from, n
    <3> QED BY <1>1, <1>7
  <2>1. k \in D /\ (k - 1) % L = k - 1
    <3> HIDE DEF L
    <3> QED BY <1>1
  <2>2. from[k] = s[k]
    <3> HIDE DEF from
    <3> QED BY <1>6, <2>1
  <2>3. s[k] # s[1] /\ s[k] # Null
    BY <1>1 DEF Injective
  <2> HIDE DEF from
  <2> QED BY <2>2, <2>3
<1>10. ends # {} /\ Min(ends) = L + 1
  <2>1. ends \subseteq Nat /\ ends # {}
    <3> HIDE DEF from, n
    <3> QED BY <1>7, <1>8
  <2> HIDE DEF ends
  <2>2. Min(ends) \in ends /\ \A j \in ends : Min(ends) <= j
    BY <2>1, MinInSet
  <2> DEFINE m == Min(ends)
  <2>3. m \in Nat /\ m <= L + 1 /\ L + 1 <= m
    BY <1>8, <1>9, <2>1, <2>2
  <2> HIDE DEF m, L
  <2>4. m = L + 1
    BY <1>1, <2>3
  <2> QED BY <2>1, <2>4 DEF m
<1>11. SubSeq(from, 1, L) = s
  <2>1. \A k \in 1 .. L : k \in D /\ from[k] = s[k]
    <3> TAKE k \in 1 .. L
    <3>1. k \in D /\ (k - 1) % L = k - 1
      <4> HIDE DEF L
      <4> QED BY <1>1
    <3> HIDE DEF from
    <3> QED BY <1>6, <3>1
  <2>2. from \in Seq(Tcb) /\ Len(from) = C + 1
    <3>1. from = [k \in D |-> lap[k]]
      <4> HIDE DEF from, n, lap
      <4> QED BY <1>5, <1>6
    <3> HIDE DEF from, lap
    <3> QED BY <1>1, <1>2, <3>1
  <2> HIDE DEF from
  <2> QED BY <1>1, <2>1, <2>2
<1>12. AroundIn(nx, n) = SubSeq(from, 1, (IF ends = {} THEN C + 1 ELSE Min(ends)) - 1)
  BY StepsIs
<1> HIDE DEF from, ends, n
<1> QED BY <1>1, <1>10, <1>11, <1>12 DEF n

\* Linking n in behind position p of a ring, and no link elsewhere in it
\* moving, closes the ring around the sequence with n inserted.
LEMMA InsertCloses ==
  ASSUME NEW s \in Seq(Tcb), Injective(s), NEW p \in DOMAIN s,
         NEW n \in Tcb, n \notin ToSet(s),
         NEW nx, Closes(s, nx), NEW mx, mx[n] = nx[s[p]], mx[s[p]] = n,
         \A k \in DOMAIN s : k # p => mx[s[k]] = nx[s[k]]
  PROVE  Closes(InsertAt(s, p + 1, n), mx)
<1> DEFINE L == Len(s)
           t == InsertAt(s, p + 1, n)
<1>1. L \in Nat /\ DOMAIN s = 1 .. L /\ p \in 1 .. L
  OBVIOUS
<1>2. /\ t \in Seq(Tcb) /\ Len(t) = L + 1 /\ t[p + 1] = n
      /\ \A k \in 1 .. p : t[k] = s[k]
      /\ \A k \in p + 2 .. L + 1 : t[k] = s[k - 1]
  <2> DEFINE i == p + 1
  <2>1. i \in 1 .. Len(s) + 1 /\ i - 1 = p /\ i + 1 = p + 2
    BY <1>1
  <2>2. \A j, k \in DOMAIN s : s[j] = s[k] => j = k
    BY DEF Injective
  <2>3. /\ InsertAt(s, i, n) \in Seq(Tcb)
        /\ Len(InsertAt(s, i, n)) = Len(s) + 1 /\ InsertAt(s, i, n)[i] = n
        /\ \A k \in 1 .. i - 1 : InsertAt(s, i, n)[k] = s[k]
        /\ \A k \in i + 1 .. Len(s) + 1 : InsertAt(s, i, n)[k] = s[k - 1]
    <3> HIDE DEF i
    <3> QED BY <2>1, <2>2, Insertion
  <2> HIDE DEF t
  <2> QED BY <2>1, <2>3 DEF t
<1>3. \A k \in 1 .. L : nx[s[k]] = s[Behind(s, k)]
  BY <1>1 DEF Closes
<1>b. \A k \in 1 .. L : Behind(s, k) = IF k = L THEN 1 ELSE k + 1
  BY DEF Behind
<1>d. DOMAIN s = 1 .. L /\ \A k \in 1 .. L : k # p => mx[s[k]] = nx[s[k]]
  BY <1>1
<1> HIDE DEF t
<1> SUFFICES ASSUME NEW k \in 1 .. L + 1
             PROVE  mx[t[k]] = t[IF k = L + 1 THEN 1 ELSE k + 1]
  BY <1>2 DEF Closes, Behind, t
<1> HIDE DEF L
<1>4. CASE k < p
  <2>0. k \in 1 .. L /\ k # p /\ k # L /\ k \in 1 .. p /\ k + 1 \in 1 .. p
    BY <1>1, <1>4
  <2>1. k \in 1 .. L /\ k # p /\ Behind(s, k) = k + 1 /\ t[k] = s[k] /\ t[k + 1] = s[k + 1]
    BY <1>2, <2>0, <1>b
  <2>2. mx[s[k]] = s[k + 1]
    BY <1>3, <1>d, <2>1
  <2>3. k # L + 1
    BY <1>1, <1>4
  <2> QED BY <2>1, <2>2, <2>3
<1>5. CASE k = p
  BY <1>1, <1>2, <1>5
<1>6. CASE k = p + 1
  BY <1>1, <1>2, <1>3, <1>6, <1>b
<1>7. CASE k > p + 1
  <2>1. k - 1 \in 1 .. L /\ k - 1 # p /\ t[k] = s[k - 1] /\ k \in p + 2 .. L + 1
    BY <1>1, <1>2, <1>7
  <2>2. mx[t[k]] = s[Behind(s, k - 1)]
    BY <1>1, <1>3, <1>d, <2>1
  <2>3. CASE k = L + 1
    BY <1>1, <1>2, <2>1, <2>2, <2>3, <1>b
  <2>4. CASE k # L + 1
    BY <1>1, <1>2, <2>1, <2>2, <2>4, <1>b
  <2> QED BY <2>3, <2>4
<1> QED BY <1>1, <1>4, <1>5, <1>6, <1>7

\* Unlinking the node at position p of a ring of several, by handing its
\* successor to its predecessor, closes the ring around the rest.
LEMMA RemoveCloses ==
  ASSUME NEW s \in Seq(Tcb), Injective(s), NEW p \in DOMAIN s, Len(s) > 1,
         NEW nx, Closes(s, nx), NEW mx,
         \A k \in DOMAIN s :
           k # p => mx[s[k]] = IF nx[s[k]] = s[p] THEN nx[s[p]] ELSE nx[s[k]]
  PROVE  Closes(RemoveAt(s, p), mx)
<1> DEFINE L == Len(s)
           t == RemoveAt(s, p)
<1>1. L \in Nat /\ DOMAIN s = 1 .. L /\ p \in 1 .. L /\ L > 1
  OBVIOUS
<1>2. /\ t \in Seq(Tcb) /\ Len(t) = L - 1
      /\ \A k \in 1 .. p - 1 : t[k] = s[k]
      /\ \A k \in p .. L - 1 : t[k] = s[k + 1]
  BY Removal DEF Injective
<1>3. \A k \in 1 .. L : nx[s[k]] = s[Behind(s, k)] /\ Behind(s, k) \in 1 .. L
  BY <1>1 DEF Closes, Behind
<1>4. \A k \in 1 .. L : k # p =>
        mx[s[k]] = IF Behind(s, k) = p THEN s[Behind(s, p)] ELSE s[Behind(s, k)]
  BY <1>1, <1>3 DEF Injective
<1>b. \A k \in 1 .. L : Behind(s, k) = IF k = L THEN 1 ELSE k + 1
  BY DEF Behind
<1> HIDE DEF t
<1> SUFFICES ASSUME NEW k \in 1 .. L - 1
             PROVE  mx[t[k]] = t[IF k = L - 1 THEN 1 ELSE k + 1]
  BY <1>2 DEF Closes, Behind, t
<1> HIDE DEF L
<1>5. CASE k < p
  <2>1. t[k] = s[k] /\ Behind(s, k) = k + 1 /\ k # p /\ k \in 1 .. L
    BY <1>b, <1>1, <1>2, <1>5
  <2>2. CASE k + 1 = p
    BY <1>b, <1>1, <1>2, <1>4, <2>1, <2>2
  <2>3. CASE k + 1 # p
    <3>1. t[k + 1] = s[k + 1] /\ k # L - 1
      BY <1>1, <1>2, <1>5, <2>3
    <3>2. mx[s[k]] = s[k + 1]
      BY <1>4, <2>1, <2>3
    <3> QED BY <2>1, <3>1, <3>2
  <2> QED BY <2>2, <2>3
<1>6. CASE k >= p
  <2>1. t[k] = s[k + 1] /\ k + 1 # p /\ k + 1 \in 1 .. L
    BY <1>b, <1>1, <1>2, <1>6
  <2>2. CASE k + 1 = L /\ p = 1
    BY <1>b, <1>1, <1>2, <1>4, <2>1, <2>2
  <2>3. CASE k + 1 = L /\ p # 1
    BY <1>b, <1>1, <1>2, <1>4, <2>1, <2>3
  <2>4. CASE k + 1 # L
    BY <1>b, <1>1, <1>2, <1>4, <1>6, <2>1, <2>4
  <2> QED BY <2>2, <2>3, <2>4
<1> QED BY <1>1, <1>5, <1>6

-----------------------------------------------------------------------------
(* The rings in memory *)

\* s is what lies in memory of g's ring, with links nx, heads head, cursors
\* cur and parents up.
RingIn(s, g, nx, head, cur, up) ==
  /\ s \in Seq(Tcb) /\ Injective(s) /\ Closes(s, nx)
  /\ ToSet(s) = {n \in Tcb : nx[n] # Null /\ up[n] = g}
  /\ IF s = <<>> THEN head[g] = Null /\ cur[g] = Null
                 ELSE head[g] = s[1] /\ cur[g] \in ToSet(s)

RingsIn(r, nx, head, cur, up) ==
  /\ r = [g \in Group |-> r[g]]
  /\ \A g \in Group : RingIn(r[g], g, nx, head, cur, up)

RingsInv == LinkInv /\ RingsIn(Kids, next, children_head, current_child, parent)

\* Sequences that lie in memory are the ones Kids reads.
LEMMA KidsRead ==
  ASSUME NEW r, NEW nx, NEW head, NEW cur, NEW up, RingsIn(r, nx, head, cur, up)
  PROVE  [g \in Group |-> IF head[g] = Null THEN <<>> ELSE AroundIn(nx, head[g])] = r
<1>1. ASSUME NEW g \in Group
      PROVE  r[g] = IF head[g] = Null THEN <<>> ELSE AroundIn(nx, head[g])
  <2>1. RingIn(r[g], g, nx, head, cur, up)
    BY DEF RingsIn
  <2>2. CASE r[g] = <<>>
    BY <2>1, <2>2 DEF RingIn
  <2>3. CASE r[g] # <<>>
    <3>1. head[g] = r[g][1] /\ r[g][1] \in Tcb /\ head[g] # Null
      BY <2>1, <2>3, RingAssumption DEF RingIn
    <3>2. AroundIn(nx, r[g][1]) = r[g]
      BY <2>1, <2>3, AroundRing DEF RingIn
    <3> QED BY <3>1, <3>2
  <2> QED BY <2>2, <2>3
<1> QED BY <1>1 DEF RingsIn

\* ... in this state, and in the next.
LEMMA KidsAre ==
  /\ \A r : RingsIn(r, next, children_head, current_child, parent) => Kids = r
  /\ \A r : RingsIn(r, next', children_head', current_child', parent') => Kids' = r
<1>1. /\ Kids = [g \in Group |-> IF children_head[g] = Null THEN <<>>
                                 ELSE AroundIn(next, children_head[g])]
      /\ Kids' = [g \in Group |-> IF children_head'[g] = Null THEN <<>>
                                  ELSE AroundIn(next', children_head'[g])]
  BY DEF Kids, Around, AroundIn
<1> QED BY <1>1, KidsRead

\* What LinkInv says of one TCB.
LEMMA LinkFacts ==
  ASSUME LinkInv
  PROVE  /\ Null \notin Tcb /\ Group \cap Tcb = {} /\ Root \in Group
         /\ next \in [Tcb -> Tcb \cup {Null}] /\ prev \in [Tcb -> Tcb \cup {Null}]
         /\ state \in [Tcb -> {"Ready", "Blocked", "Dead", "Free"}]
         /\ parent \in [Tcb -> Group \cup {Null}]
         /\ children_head \in [Group -> Tcb \cup {Null}]
         /\ current_child \in [Group -> Tcb \cup {Null}]
         /\ \A n \in Tcb : IF next[n] # Null
                           THEN /\ state[n] \in Linked /\ next[n] \in Tcb /\ prev[n] \in Tcb
                                /\ parent[n] \in Group /\ prev[next[n]] = n /\ next[prev[n]] = n
                           ELSE state[n] \in {"Dead", "Free"}
<1>1. Null \notin Tcb /\ Group \cap Tcb = {} /\ Root \in Group
  BY RingAssumption
<1> QED BY <1>1 DEF LinkInv, TypeOK, LinksInverse, Linked, Links

\* A ring that none of the TCBs concerned is in stays as it is.
LEMMA RingKept ==
  ASSUME NEW g,
         RingIn(Kids[g], g, next, children_head, current_child, parent),
         \A n \in Tcb : next[n] # Null /\ parent[n] = g <=> next'[n] # Null /\ parent'[n] = g,
         \A n \in Tcb : next[n] # Null /\ parent[n] = g => next'[n] = next[n],
         children_head'[g] = children_head[g],
         \/ current_child'[g] = current_child[g]
         \/ /\ current_child'[g] \in Tcb /\ next[current_child'[g]] # Null
            /\ parent[current_child'[g]] = g
  PROVE  RingIn(Kids[g], g, next', children_head', current_child', parent')
<1> DEFINE s == Kids[g]
<1>1. /\ s \in Seq(Tcb) /\ Injective(s) /\ Closes(s, next)
      /\ ToSet(s) = {n \in Tcb : next[n] # Null /\ parent[n] = g}
      /\ IF s = <<>> THEN children_head[g] = Null /\ current_child[g] = Null
                     ELSE children_head[g] = s[1] /\ current_child[g] \in ToSet(s)
  BY DEF RingIn
<1> HIDE DEF s
<1>2. \A k \in DOMAIN s : s[k] \in Tcb /\ s[k] \in ToSet(s)
  BY <1>1 DEF ToSet
<1>3. Closes(s, next')
  BY <1>1, <1>2 DEF Closes
<1>4. s = <<>> => ToSet(s) = {}
  BY DEF ToSet
<1>5. ToSet(s) = {n \in Tcb : next'[n] # Null /\ parent'[n] = g}
  BY <1>1
<1>6. IF s = <<>> THEN children_head'[g] = Null /\ current_child'[g] = Null
                  ELSE children_head'[g] = s[1] /\ current_child'[g] \in ToSet(s)
  BY <1>1, <1>4
<1> QED BY <1>1, <1>3, <1>5, <1>6 DEF RingIn, s

\* insert_child's ring: the newcomer behind the cursor.
RingAfterInsert(g, n) ==
  IF Kids[g] = <<>> THEN <<n>>
  ELSE InsertAt(Kids[g], Tree!Pos(g, current_child[g]) + 1, n)

LEMMA InsertAppears ==
  ASSUME RingsInv, NEW g \in Group, NEW n \in Tcb, insert_child(g, n)
  PROVE  /\ RingsInv'
         /\ Kids' = [Kids EXCEPT ![g] = RingAfterInsert(g, n)]
         /\ Kids[g] # <<>> => current_child[g] \in ToSet(Kids[g])
         /\ ring_head' = IF g = Root THEN n ELSE ring_head
<1> DEFINE at == IF is_linked(Anchor(g)) THEN Anchor(g) ELSE Null
           s == Kids[g]
           t == RingAfterInsert(g, n)
           p == Tree!Pos(g, current_child[g])
<1>0. LinkInv /\ LinkInv'
  BY InsertKeepsLinks DEF RingsInv
<1>1. /\ Null \notin Tcb /\ Group \cap Tcb = {}
      /\ next \in [Tcb -> Tcb \cup {Null}]
      /\ parent \in [Tcb -> Group \cup {Null}]
      /\ children_head \in [Group -> Tcb \cup {Null}]
      /\ current_child \in [Group -> Tcb \cup {Null}]
      /\ \A x \in Tcb : next[x] # Null => next[x] \in Tcb /\ state[x] # "Free"
  BY <1>0, LinkFacts DEF Linked
<1>2. /\ state[n] = "Free" /\ next[n] = Null
      /\ next' = insert_after(at, n).next
      /\ parent' = [parent EXCEPT ![n] = g]
      /\ children_head' = [children_head EXCEPT ![g] = IF @ = Null THEN n ELSE @]
      /\ current_child' = [current_child EXCEPT ![g] = IF @ = Null THEN n ELSE @]
      /\ ring_head' = IF g = Root THEN n ELSE ring_head
  BY <1>1 DEF insert_child
<1>3. /\ RingsIn(Kids, next, children_head, current_child, parent)
      /\ RingIn(s, g, next, children_head, current_child, parent)
  BY DEF RingsInv, RingsIn
<1>4. /\ s \in Seq(Tcb) /\ Injective(s) /\ Closes(s, next)
      /\ ToSet(s) = {x \in Tcb : next[x] # Null /\ parent[x] = g}
      /\ IF s = <<>> THEN children_head[g] = Null /\ current_child[g] = Null
                     ELSE children_head[g] = s[1] /\ current_child[g] \in ToSet(s)
  BY <1>3 DEF RingIn
<1>5. n \notin ToSet(s)
  BY <1>2, <1>4
<1>6. ASSUME s = <<>>
      PROVE  /\ RingIn(t, g, next', children_head', current_child', parent')
             /\ \A x \in Tcb : x # n /\ parent[x] # g => next'[x] = next[x]
  <2>1. at = Null
    BY <1>4, <1>6 DEF Anchor, is_linked
  <2>2. next' = [next EXCEPT ![n] = n]
    BY <1>2, <2>1 DEF insert_after
  <2>3. t = <<n>>
    BY <1>6 DEF RingAfterInsert
  <2>4. RingIn(<<n>>, g, next', children_head', current_child', parent')
    <3>1. /\ <<n>> \in Seq(Tcb) /\ Injective(<<n>>) /\ <<n>> # <<>> /\ <<n>>[1] = n
          /\ ToSet(<<n>>) = {n}
      BY DEF Injective, ToSet
    <3>2. Closes(<<n>>, next')
      BY <1>1, <2>2 DEF Closes, Behind
    <3>3. ToSet(s) = {}
      BY <1>6 DEF ToSet
    <3>4. {x \in Tcb : next'[x] # Null /\ parent'[x] = g} = {n}
      BY <1>1, <1>2, <1>4, <2>2, <3>3
    <3>5. children_head'[g] = n /\ current_child'[g] = n
      BY <1>1, <1>2, <1>4, <1>6
    <3> QED BY <3>1, <3>2, <3>4, <3>5 DEF RingIn
  <2>5. \A x \in Tcb : x # n => next'[x] = next[x]
    BY <1>1, <2>2
  <2> QED BY <2>3, <2>4, <2>5
<1>7. ASSUME s # <<>>
      PROVE  /\ RingIn(t, g, next', children_head', current_child', parent')
             /\ \A x \in Tcb : x # n /\ parent[x] # g => next'[x] = next[x]
  <2>1. current_child[g] \in Tcb /\ next[current_child[g]] # Null /\ parent[current_child[g]] = g
    BY <1>4, <1>7
  <2>2. at = current_child[g] /\ at # Null /\ at # n
    BY <1>1, <1>2, <2>1 DEF Anchor, is_linked
  <2>3. p \in DOMAIN s /\ s[p] = at
    <3>1. \E i \in DOMAIN s : s[i] = current_child[g]
      BY <1>4, <1>7 DEF ToSet
    <3> QED BY <2>2, <3>1 DEF Tree!Pos
  <2>4. next' = [next EXCEPT ![n] = next[at], ![at] = n]
    BY <1>2, <2>2 DEF insert_after
  <2>5. /\ next'[n] = next[at] /\ next'[at] = n
        /\ \A x \in Tcb : x # n /\ x # at => next'[x] = next[x]
    BY <1>1, <2>1, <2>2, <2>4
  <2>6. t = InsertAt(s, p + 1, n)
    BY <1>7 DEF RingAfterInsert
  <2> HIDE DEF s, t, p, at
  <2>7. /\ t \in Seq(Tcb) /\ t # <<>> /\ ToSet(t) = ToSet(s) \cup {n} /\ Injective(t) /\ t[1] = s[1]
    <3> DEFINE i == p + 1
    <3>1. i \in 1 .. Len(s) + 1 /\ 1 \in 1 .. i - 1
      BY <1>4, <2>3
    <3>2. \A j, k \in DOMAIN s : s[j] = s[k] => j = k
      BY <1>4 DEF Injective
    <3> HIDE DEF i
    <3>3. LET r == InsertAt(s, i, n)
          IN  /\ r \in Seq(Tcb) /\ r # <<>> /\ ToSet(r) = ToSet(s) \cup {n}
              /\ \A j, k \in DOMAIN r : r[j] = r[k] => j = k
              /\ \A k \in 1 .. i - 1 : r[k] = s[k]
      BY <1>4, <1>5, <3>1, <3>2, Insertion
    <3>4. t = InsertAt(s, i, n)
      BY <2>6 DEF i
    <3> QED BY <3>1, <3>3, <3>4 DEF Injective
  <2>8. Closes(t, next')
    <3>1. \A k \in DOMAIN s : s[k] \in Tcb /\ s[k] # n /\ (k # p => s[k] # at)
      BY <1>4, <1>5, <2>3 DEF Injective, ToSet
    <3>2. \A k \in DOMAIN s : k # p => next'[s[k]] = next[s[k]]
      BY <2>5, <3>1
    <3>3. next'[n] = next[s[p]] /\ next'[s[p]] = n
      BY <2>3, <2>5
    <3>4. Closes(InsertAt(s, p + 1, n), next')
      BY <1>4, <1>5, <2>3, <3>2, <3>3, InsertCloses
    <3> QED BY <2>6, <3>4
  <2>9. RingIn(t, g, next', children_head', current_child', parent')
    <3>1. {x \in Tcb : next'[x] # Null /\ parent'[x] = g} = ToSet(s) \cup {n}
      BY <1>1, <1>2, <1>4, <2>1, <2>2, <2>5
    <3>2. children_head'[g] = children_head[g] /\ current_child'[g] = current_child[g]
      <4>1. children_head[g] # Null /\ current_child[g] # Null
        BY <1>1, <1>4, <1>7 DEF ToSet
      <4> QED BY <1>1, <1>2, <4>1
    <3> QED BY <1>4, <1>7, <2>7, <2>8, <3>1, <3>2 DEF RingIn
  <2>10. \A x \in Tcb : x # n /\ parent[x] # g => next'[x] = next[x]
    BY <2>1, <2>2, <2>5
  <2> QED BY <2>9, <2>10
<1>8. /\ RingIn(t, g, next', children_head', current_child', parent')
      /\ \A x \in Tcb : x # n /\ parent[x] # g => next'[x] = next[x]
  BY <1>6, <1>7
<1>9. ASSUME NEW h \in Group, h # g
      PROVE  RingIn(Kids[h], h, next', children_head', current_child', parent')
  <2>1. RingIn(Kids[h], h, next, children_head, current_child, parent)
    BY <1>3 DEF RingsIn
  <2>2. \A x \in Tcb : next[x] # Null /\ parent[x] = h <=> next'[x] # Null /\ parent'[x] = h
    BY <1>1, <1>2, <1>8, <1>9
  <2>4. \A x \in Tcb : next[x] # Null /\ parent[x] = h => next'[x] = next[x]
    BY <1>1, <1>2, <1>8, <1>9
  <2>3. children_head'[h] = children_head[h] /\ current_child'[h] = current_child[h]
    BY <1>1, <1>2, <1>9
  <2> QED BY <2>1, <2>2, <2>3, <2>4, RingKept
<1> DEFINE r == [Kids EXCEPT ![g] = t]
<1> HIDE DEF t, at, p, s
<1>10. Kids = [h \in Group |-> Kids[h]]
  BY DEF Kids
<1>11. RingsIn(r, next', children_head', current_child', parent')
  BY <1>8, <1>9, <1>10 DEF RingsIn
<1>12. Kids' = r
  BY <1>11, KidsAre
<1>13. RingsInv'
  BY <1>0, <1>11, <1>12 DEF RingsInv
<1> QED BY <1>2, <1>4, <1>12, <1>13 DEF t, s

\* exit_task's TCB leaves its ring, and what pointed at it moves on to the
\* node that followed it there.
LEMMA ExitAppears ==
  ASSUME RingsInv, NEW n \in Tcb, exit_task(n)
  PROVE  /\ RingsInv' /\ Tree!Leave(n)
         /\ state[n] # "Dead" /\ state'[n] = "Dead"
<1> DEFINE g == parent[n]
           s == Kids[g]
           p == Tree!Pos(g, n)
           t == RemoveAt(s, p)
           succ == UnlinkReturns(n)
<1>0. LinkInv /\ LinkInv'
  BY ExitKeepsLinks DEF RingsInv
<1>1. /\ Null \notin Tcb /\ Group \cap Tcb = {}
      /\ next \in [Tcb -> Tcb \cup {Null}] /\ prev \in [Tcb -> Tcb \cup {Null}]
      /\ state \in [Tcb -> {"Ready", "Blocked", "Dead", "Free"}]
      /\ parent \in [Tcb -> Group \cup {Null}]
      /\ children_head \in [Group -> Tcb \cup {Null}]
      /\ current_child \in [Group -> Tcb \cup {Null}]
      /\ \A x \in Tcb : next[x] # Null => /\ next[x] \in Tcb /\ prev[x] \in Tcb /\ parent[x] \in Group
                                          /\ prev[next[x]] = x /\ next[prev[x]] = x
  BY <1>0, LinkFacts
<1>2. /\ state[n] = "Ready" /\ next[n] \in Tcb /\ g \in Group
      /\ next' = unlink(n).next
      /\ parent' = parent
      /\ state' = [state EXCEPT ![n] = "Dead"]
      /\ children_head' = [children_head EXCEPT ![g] = IF @ = n THEN succ ELSE @]
      /\ current_child' = [current_child EXCEPT ![g] = IF @ = n THEN succ ELSE @]
      /\ ring_head' = IF g = Root THEN succ ELSE ring_head
  <2>1. state[n] = "Ready"
    BY DEF exit_task
  <2>2. next[n] \in Tcb /\ g \in Group
    BY <1>0, <2>1 DEF LinkInv, LinksInverse
  <2> QED BY <2>1, <2>2 DEF exit_task, HeadAfterExit
<1>3. /\ RingsIn(Kids, next, children_head, current_child, parent)
      /\ RingIn(s, g, next, children_head, current_child, parent)
  BY <1>2 DEF RingsInv, RingsIn
<1>4. /\ s \in Seq(Tcb) /\ Injective(s) /\ Closes(s, next)
      /\ ToSet(s) = {x \in Tcb : next[x] # Null /\ parent[x] = g}
      /\ IF s = <<>> THEN children_head[g] = Null /\ current_child[g] = Null
                     ELSE children_head[g] = s[1] /\ current_child[g] \in ToSet(s)
  BY <1>3 DEF RingIn
<1>5. n \in ToSet(s) /\ s # <<>>
  <2>1. n \in ToSet(s)
    BY <1>1, <1>2, <1>4
  <2> QED BY <2>1 DEF ToSet
<1>6. p \in DOMAIN s /\ s[p] = n
  <2>1. \E i \in DOMAIN s : s[i] = n
    BY <1>5 DEF ToSet
  <2> QED BY <2>1 DEF Tree!Pos
<1>7. \A x \in Tcb : /\ x # n => next'[x] = IF next[x] = n THEN next[n] ELSE next[x]
                     /\ next'[n] = Null
  <2>1. CASE next[n] = n
    BY <1>1, <1>2, <2>1 DEF unlink
  <2>2. CASE next[n] # n
    <3>1. prev[n] \in Tcb /\ next[prev[n]] = n /\ prev[n] # n
      BY <1>1, <1>2, <2>2
    <3>2. \A x \in Tcb : next[x] = n <=> x = prev[n]
      BY <1>1, <3>1
    <3>3. next' = [next EXCEPT ![prev[n]] = next[n], ![n] = Null]
      BY <1>2, <2>2 DEF unlink
    <3> QED BY <1>1, <3>1, <3>2, <3>3
  <2> QED BY <2>1, <2>2
<1> HIDE DEF s, p
<1>8. /\ Len(s) \in Nat \ {0} /\ DOMAIN s = 1 .. Len(s)
      /\ next[n] = s[Behind(s, p)] /\ Behind(s, p) \in DOMAIN s
      /\ next[n] = n <=> Len(s) = 1
  <2>1. Len(s) \in Nat \ {0} /\ DOMAIN s = 1 .. Len(s) /\ Behind(s, p) \in DOMAIN s
    BY <1>4, <1>5, <1>6 DEF Behind
  <2>2. next[n] = s[Behind(s, p)]
    BY <1>4, <1>6 DEF Closes
  <2>3. next[n] = n <=> Behind(s, p) = p
    BY <1>4, <1>6, <2>1, <2>2 DEF Injective
  <2>4. Behind(s, p) = p <=> Len(s) = 1
    BY <1>6, <2>1 DEF Behind
  <2> QED BY <2>1, <2>2, <2>3, <2>4
<1>9. /\ t \in Seq(Tcb) /\ Len(t) = Len(s) - 1 /\ ToSet(t) = ToSet(s) \ {n} /\ Injective(t)
      /\ \A k \in 1 .. p - 1 : t[k] = s[k]
      /\ \A k \in p .. Len(s) - 1 : t[k] = s[k + 1]
  <2>1. \A j, k \in DOMAIN s : s[j] = s[k] => j = k
    BY <1>4 DEF Injective
  <2> QED BY <1>4, <1>6, <2>1, Removal DEF Injective
<1>10. succ = IF Len(s) = 1 THEN Null ELSE next[n]
  BY <1>8 DEF UnlinkReturns
<1>11. t # <<>> => /\ Len(s) > 1 /\ succ = next[n] /\ succ \in ToSet(t)
                   /\ (p = 1 => t[1] = succ) /\ (p # 1 => t[1] = s[1])
  <2> SUFFICES ASSUME t # <<>>
               PROVE  /\ Len(s) > 1 /\ succ = next[n] /\ succ \in ToSet(t)
                      /\ (p = 1 => t[1] = succ) /\ (p # 1 => t[1] = s[1])
    OBVIOUS
  <2>1. Len(s) > 1
    <3>1. Len(t) # 0
      BY <1>9
    <3> HIDE DEF t
    <3> QED BY <1>8, <1>9, <3>1
  <2>2. succ = next[n] /\ next[n] # n
    BY <1>8, <1>10, <2>1
  <2>3. succ \in ToSet(s)
    BY <1>8, <2>2 DEF ToSet
  <2>4. p = 1 => Behind(s, p) = 2
    <3> DEFINE L == Len(s)
    <3>1. L \in Nat /\ L > 1 /\ Behind(s, p) = IF p = L THEN 1 ELSE p + 1
      BY <1>8, <2>1 DEF Behind
    <3> HIDE DEF L
    <3> QED BY <3>1
  <2> HIDE DEF t
  <2>5. p = 1 => t[1] = succ
    BY <1>8, <1>9, <2>1, <2>2, <2>4
  <2>6. p # 1 => t[1] = s[1]
    BY <1>6, <1>8, <1>9
  <2> QED BY <1>9, <2>1, <2>2, <2>3, <2>5, <2>6
<1>12. t = <<>> => Len(s) = 1 /\ succ = Null
  <2> SUFFICES ASSUME t = <<>>
               PROVE  Len(s) = 1
    BY <1>10
  <2>1. Len(t) = 0
    OBVIOUS
  <2> DEFINE L == Len(s)
  <2>2. L \in Nat /\ L - 1 = 0
    BY <1>8, <1>9, <2>1
  <2> HIDE DEF L
  <2>3. L = 1
    BY <2>2
  <2> QED BY <2>3 DEF L
<1> HIDE DEF t, succ
<1>13. Closes(t, next')
  <2>1. CASE t = <<>>
    BY <2>1 DEF Closes
  <2>2. CASE t # <<>>
    <3>1. \A k \in DOMAIN s : k # p => s[k] \in Tcb /\ s[k] # n
      BY <1>4, <1>6 DEF Injective
    <3>2. \A k \in DOMAIN s :
            k # p => next'[s[k]] = IF next[s[k]] = s[p] THEN next[s[p]] ELSE next[s[k]]
      BY <1>6, <1>7, <3>1
    <3>3. Len(s) > 1
      BY <1>11, <2>2
    <3> QED BY <1>4, <1>6, <3>2, <3>3, RemoveCloses DEF t
  <2> QED BY <2>1, <2>2
<1>14. RingIn(t, g, next', children_head', current_child', parent')
  <2>1. {x \in Tcb : next'[x] # Null /\ parent'[x] = g} = ToSet(s) \ {n}
    BY <1>1, <1>2, <1>4, <1>7
  <2>2. /\ children_head'[g] = IF children_head[g] = n THEN succ ELSE children_head[g]
        /\ current_child'[g] = IF current_child[g] = n THEN succ ELSE current_child[g]
    BY <1>1, <1>2
  <2>3. /\ children_head[g] = s[1] /\ current_child[g] \in ToSet(s)
        /\ (s[1] = n <=> p = 1)
    BY <1>4, <1>5, <1>6, <1>8 DEF Injective
  <2>4. CASE t = <<>>
    <3>1. Len(s) = 1 /\ succ = Null /\ p = 1 /\ ToSet(t) = {}
      <4>1. Len(s) = 1 /\ succ = Null
        BY <1>12, <2>4
      <4>2. p \in 1 .. 1
        BY <1>6, <1>8, <4>1
      <4>3. ToSet(t) = {}
        BY <2>4 DEF ToSet
      <4> QED BY <4>1, <4>2, <4>3
    <3>2. children_head'[g] = Null /\ current_child'[g] = Null
      BY <1>9, <2>2, <2>3, <3>1
    <3> QED BY <1>9, <1>13, <2>1, <2>4, <3>2 DEF RingIn
  <2>5. CASE t # <<>>
    <3>1. children_head'[g] = t[1]
      BY <1>11, <2>2, <2>3, <2>5
    <3>2. current_child'[g] \in ToSet(t)
      BY <1>9, <1>11, <2>2, <2>3, <2>5
    <3> QED BY <1>9, <1>13, <2>1, <2>5, <3>1, <3>2 DEF RingIn
  <2> QED BY <2>4, <2>5
<1>15. ASSUME NEW h \in Group, h # g
      PROVE  RingIn(Kids[h], h, next', children_head', current_child', parent')
  <2>1. RingIn(Kids[h], h, next, children_head, current_child, parent)
    BY <1>3 DEF RingsIn
  <2>2. ASSUME NEW x \in Tcb, next[x] # Null, parent[x] = h
        PROVE  next[x] # n
    <3>1. next[x] = n => n \in ToSet(Kids[h])
      <4>1. Closes(Kids[h], next) /\ x \in ToSet(Kids[h]) /\ Kids[h] \in Seq(Tcb)
        BY <2>1, <2>2 DEF RingIn
      <4>2. PICK k \in DOMAIN Kids[h] : Kids[h][k] = x
        BY <4>1 DEF ToSet
      <4>3. next[x] = Kids[h][Behind(Kids[h], k)] /\ Behind(Kids[h], k) \in DOMAIN Kids[h]
        <5> DEFINE u == Kids[h]
        <5>1. u \in Seq(Tcb) /\ Closes(u, next) /\ k \in DOMAIN u /\ u[k] = x
          BY <4>1, <4>2
        <5> HIDE DEF u
        <5>2. next[x] = u[Behind(u, k)] /\ Behind(u, k) \in DOMAIN u
          BY <5>1 DEF Closes, Behind
        <5> QED BY <5>2 DEF u
      <4> QED BY <4>3 DEF ToSet
    <3>2. ToSet(Kids[h]) = {y \in Tcb : next[y] # Null /\ parent[y] = h}
      BY <2>1 DEF RingIn
    <3> QED BY <1>15, <3>1, <3>2
  <2>3. \A x \in Tcb : next[x] # Null /\ parent[x] = h <=> next'[x] # Null /\ parent'[x] = h
    BY <1>1, <1>2, <1>7, <1>15
  <2>4. \A x \in Tcb : next[x] # Null /\ parent[x] = h => next'[x] = next[x]
    BY <1>7, <1>15, <2>2
  <2>5. children_head'[h] = children_head[h] /\ current_child'[h] = current_child[h]
    BY <1>1, <1>2, <1>15
  <2> QED BY <2>1, <2>3, <2>4, <2>5, RingKept
<1> DEFINE r == [Kids EXCEPT ![g] = t]
<1>16. Kids = [h \in Group |-> Kids[h]]
  BY DEF Kids
<1> HIDE DEF g
<1>17. RingsIn(r, next', children_head', current_child', parent')
  BY <1>14, <1>15, <1>16 DEF RingsIn
<1>18. Kids' = r
  BY <1>17, KidsAre
<1>19. RingsInv'
  BY <1>0, <1>17, <1>18 DEF RingsInv
<1>20. Len(s) # 1 => succ = Tree!Succ(g, n)
  <2> SUFFICES ASSUME Len(s) # 1
               PROVE  succ = Tree!Succ(g, n)
    OBVIOUS
  <2>1. p \in 0 .. Len(s) /\ p \in Nat /\ p > 0
    BY <1>6, <1>8
  <2> DEFINE lap == SubSeq(s, p + 1, Len(s)) \o SubSeq(s, 1, p)
  <2>2. /\ Len(lap) = Len(s) /\ lap \in Seq(Tcb)
        /\ (p < Len(s) => lap[1] = s[p + 1])
        /\ (p = Len(s) => lap[1] = s[1])
    BY <1>4, <2>1, Rotation
  <2>3. lap[1] = s[Behind(s, p)]
    <3> HIDE DEF lap
    <3> QED BY <1>6, <1>8, <2>1, <2>2 DEF Behind
  <2>4. Tree!Succ(g, n) = lap[1]
    <3>1. Tree!Succ(g, n) = Head(lap)
      BY DEF Tree!Succ, Tree!Lap, s, p
    <3>2. Len(lap) > 0
      BY <1>8, <2>2
    <3> HIDE DEF lap
    <3> QED BY <2>2, <3>1, <3>2
  <2> HIDE DEF lap
  <2> QED BY <1>8, <1>10, <2>3, <2>4
<1>21. Tree!Leave(n)
  <2>1. [m \in Tcb \cup Group |-> IF m \in Tcb THEN parent[m] ELSE Null][n] = g
    BY DEF g
  <2>2. succ = IF Len(Kids[g]) = 1 THEN Null ELSE Tree!Succ(g, n)
    BY <1>10, <1>20 DEF s
  <2>3. Kids' = [Kids EXCEPT ![g] = Tree!RemoveAt(@, Tree!Pos(g, n))]
    BY <1>18 DEF t, s, p, RemoveAt, Tree!RemoveAt
  <2>4. /\ current_child' = [current_child EXCEPT ![g] = IF @ = n THEN succ ELSE @]
        /\ ring_head' = IF g = Root THEN succ ELSE ring_head
    BY <1>2
  <2> QED BY <2>1, <2>2, <2>3, <2>4 DEF Tree!Leave, Tree!CursorAfterExit
<1>22. state'[n] = "Dead" /\ state[n] # "Dead"
  BY <1>1, <1>2
<1> QED BY <1>19, <1>21, <1>22

\* Steps that link and unlink nothing leave the sequences as they are.
LEMMA OthersKeepRings ==
  ASSUME RingsInv,
         \/ \E g \in Group, n \in Tcb : MoveCursor(g, n)
         \/ \E n \in Tcb : BlocksOrWakes(n)
         \/ \E n \in Tcb \cup {Null} : reclaim_finished_tasks(n)
         \/ UNCHANGED vars
  PROVE  RingsInv' /\ UNCHANGED <<Kids, ring_head>>
<1>0. LinkInv
  BY DEF RingsInv
<1>1. /\ Null \notin Tcb
      /\ next \in [Tcb -> Tcb \cup {Null}]
      /\ parent \in [Tcb -> Group \cup {Null}]
      /\ current_child \in [Group -> Tcb \cup {Null}]
      /\ \A n \in Tcb : next[n] # Null => state[n] # "Dead"
  BY <1>0, LinkFacts DEF Linked
<1>2. /\ next' = next /\ children_head' = children_head /\ ring_head' = ring_head
      /\ \A n \in Tcb : next[n] # Null => parent'[n] = parent[n]
      /\ \A g \in Group : \/ current_child'[g] = current_child[g]
                          \/ /\ current_child'[g] \in Tcb /\ next[current_child'[g]] # Null
                             /\ parent[current_child'[g]] = g
  <2>1. ASSUME NEW g \in Group, NEW n \in Tcb, MoveCursor(g, n)
        PROVE  <1>2!:
    BY <1>1, <2>1 DEF MoveCursor, is_linked
  <2>2. ASSUME NEW n \in Tcb \cup {Null}, reclaim_finished_tasks(n)
        PROVE  <1>2!:
    <3>1. Deferred = {m \in Tcb : state[m] = "Dead"}
      BY <1>0 DEF LinkInv, DeadListed, Dead
    <3> QED BY <1>1, <2>2, <3>1 DEF reclaim_finished_tasks
  <2>3. ASSUME NEW n \in Tcb, BlocksOrWakes(n)
        PROVE  <1>2!:
    BY <1>1, <2>3 DEF BlocksOrWakes
  <2>4. CASE UNCHANGED vars
    BY <1>1, <2>4 DEF vars
  <2> QED BY <2>1, <2>2, <2>3, <2>4
<1>3. LinkInv'
  BY <1>0, OthersKeepLinks, ReclaimKeepsLinks
<1>4. UNCHANGED <<Kids, ring_head>>
  BY <1>2 DEF Kids, Around
<1>5. ASSUME NEW g \in Group
      PROVE  RingIn(Kids[g], g, next', children_head', current_child', parent')
  <2>1. RingIn(Kids[g], g, next, children_head, current_child, parent)
    BY DEF RingsInv, RingsIn
  <2>2. next'= next /\ children_head'[g] = children_head[g]
    BY <1>2
  <2>3. \A n \in Tcb : next[n] # Null => (parent'[n] = g <=> parent[n] = g)
    BY <1>2
  <2>4. \A n \in Tcb : next[n] # Null /\ parent[n] = g <=> next'[n] # Null /\ parent'[n] = g
    BY <2>2, <2>3
  <2>5. \A n \in Tcb : next[n] # Null /\ parent[n] = g => next'[n] = next[n]
    BY <2>2
  <2>6. \/ current_child'[g] = current_child[g]
        \/ /\ current_child'[g] \in Tcb /\ next[current_child'[g]] # Null
           /\ parent[current_child'[g]] = g
    BY <1>2
  <2> QED BY <2>1, <2>2, <2>4, <2>5, <2>6, RingKept
<1>6. RingsInv'
  <2>1. RingsIn(Kids, next', children_head', current_child', parent')
    BY <1>5 DEF RingsInv, RingsIn
  <2> QED BY <1>3, <1>4, <2>1 DEF RingsInv
<1> QED BY <1>4, <1>6

\* Before the first insertion every ring is empty.
LEMMA RingsStart == Init => RingsInv
<1> SUFFICES ASSUME Init
             PROVE  RingsInv
  OBVIOUS
<1>1. LinkInv
  BY LinksStart
<1>2. Kids = [g \in Group |-> <<>>]
  BY DEF Init, Kids
<1>3. <<>> \in Seq(Tcb) /\ Injective(<<>>) /\ Closes(<<>>, next) /\ ToSet(<<>>) = {}
  BY DEF Injective, Closes, ToSet
<1>4. ASSUME NEW g \in Group
      PROVE  RingIn(<<>>, g, next, children_head, current_child, parent)
  BY <1>3 DEF Init, RingIn
<1> QED BY <1>1, <1>2, <1>4 DEF RingsInv, RingsIn

\* Every step keeps each group's ring a ring of exactly its live children.
LEMMA RingsStep ==
  ASSUME RingsInv, [Next]_vars
  PROVE  RingsInv'
<1>1. ASSUME NEW g \in Group, NEW n \in Tcb, insert_child(g, n) PROVE RingsInv'
  BY <1>1, InsertAppears
<1>2. ASSUME NEW n \in Tcb, exit_task(n) PROVE RingsInv'
  BY <1>2, ExitAppears
<1> QED BY <1>1, <1>2, OthersKeepRings DEF Next

\* The inductive invariant of this module: LinkInv, and for every group a
\* sequence without repetition that its links close around, that starts at
\* children_head, holds current_child and consists of the linked TCBs whose
\* parent the group is.
THEOREM RingsHold == Spec => []RingsInv
BY RingsStart, RingsStep, PTL DEF Spec

\* The links of each ring close around exactly the live children of its group,
\* ring::len counts them and the debug check ring::check accepts them.
THEOREM RingsAreComplete == Spec => []RingsComplete
<1>1. RingsInv => RingsComplete
  <2> SUFFICES ASSUME RingsInv, NEW g \in Group
               PROVE  /\ ToSet(Kids[g]) = {n \in Tcb : is_linked(n) /\ parent[n] = g}
                      /\ len(children_head[g]) = Cardinality(ToSet(Kids[g]))
                      /\ check(children_head[g])
    BY DEF RingsComplete
  <2> DEFINE s == Kids[g]
  <2>1. /\ s \in Seq(Tcb) /\ Injective(s)
        /\ ToSet(s) = {n \in Tcb : next[n] # Null /\ parent[n] = g}
    BY DEF RingsInv, RingsIn, RingIn
  <2>2. LinkInv
    BY DEF RingsInv
  <2>3. s = IF children_head[g] = Null THEN <<>> ELSE Around(children_head[g])
    BY DEF Kids
  <2> HIDE DEF s
  <2>4. ToSet(s) = {n \in Tcb : is_linked(n) /\ parent[n] = g}
    BY <2>1, RingAssumption DEF is_linked
  <2>5. len(children_head[g]) = Cardinality(ToSet(s))
    <3>1. Cardinality(ToSet(s)) = Len(s)
      BY <2>1, RingLength
    <3> QED BY <2>3, <3>1 DEF len
  <2>6. check(children_head[g])
    <3>1. \A n \in ToSet(s) : n # Null /\ next[prev[n]] = n /\ prev[next[n]] = n
      BY <2>1, <2>2, LinkFacts
    <3> QED BY <2>3, <3>1 DEF check
  <2> QED BY <2>4, <2>5, <2>6 DEF s
<1> QED BY <1>1, RingsHold, PTL

\* Linking and unlinking in memory is what SchedTree takes it for: a child
\* comes in behind the cursor, or leaves with head, cursor and ring_head
\* moved to its successor, or every ring stays as it is.
THEOREM RingsImplementTree == Spec => ImplementsTree
<1> DEFINE Step == \/ \E g \in Group, n \in Tcb : state[n] = "Free" /\ Tree!InsertChild(g, n)
                   \/ \E n \in Tcb : state'[n] = "Dead" /\ state[n] # "Dead" /\ Tree!Leave(n)
                   \/ UNCHANGED <<Kids, ring_head>>
<1>1. ASSUME RingsInv, [Next]_vars
      PROVE  Step
  <2>1. ASSUME NEW g \in Group, NEW n \in Tcb, insert_child(g, n)
        PROVE  state[n] = "Free" /\ Tree!InsertChild(g, n)
    <3>1. Kids' = [Kids EXCEPT ![g] = RingAfterInsert(g, n)]
      BY <1>1, <2>1, InsertAppears
    <3>2. Kids[g] # <<>> => current_child[g] \in ToSet(Kids[g])
      BY <1>1, <2>1, InsertAppears
    <3>3. ring_head' = IF g = Root THEN n ELSE ring_head
      BY <1>1, <2>1, InsertAppears
    <3>4. current_child' = [current_child EXCEPT ![g] = IF @ = Null THEN n ELSE @]
      BY <2>1 DEF insert_child
    <3>5. Kids' = [Kids EXCEPT ![g] =
                     IF @ = <<>> THEN <<n>>
                     ELSE Tree!InsertAt(@, (IF current_child[g] \in Tree!ToSet(@)
                                            THEN Tree!Pos(g, current_child[g]) ELSE 1) + 1, n)]
      BY <3>1, <3>2 DEF RingAfterInsert, InsertAt, Tree!InsertAt, ToSet, Tree!ToSet
    <3>6. state[n] = "Free"
      BY <2>1 DEF insert_child
    <3> QED BY <3>3, <3>4, <3>5, <3>6 DEF Tree!InsertChild
  <2>2. ASSUME NEW n \in Tcb, exit_task(n)
        PROVE  state'[n] = "Dead" /\ state[n] # "Dead" /\ Tree!Leave(n)
    BY <1>1, <2>2, ExitAppears
  <2>3. ASSUME \/ \E g \in Group, n \in Tcb : MoveCursor(g, n)
               \/ \E n \in Tcb : BlocksOrWakes(n)
               \/ \E n \in Tcb \cup {Null} : reclaim_finished_tasks(n)
               \/ UNCHANGED vars
        PROVE  UNCHANGED <<Kids, ring_head>>
    BY <1>1, <2>3, OthersKeepRings
  <2> HIDE DEF Step
  <2>4. ASSUME NEW g \in Group, NEW n \in Tcb, insert_child(g, n) PROVE Step
    BY <2>1, <2>4 DEF Step
  <2>5. ASSUME NEW n \in Tcb, exit_task(n) PROVE Step
    BY <2>2, <2>5 DEF Step
  <2>6. ASSUME \/ \E g \in Group, n \in Tcb : MoveCursor(g, n)
               \/ \E n \in Tcb : BlocksOrWakes(n)
               \/ \E n \in Tcb \cup {Null} : reclaim_finished_tasks(n)
               \/ UNCHANGED vars
        PROVE  Step
    BY <2>3, <2>6 DEF Step
  <2> QED BY <1>1, <2>4, <2>5, <2>6 DEF Next
<1>2. RingsInv /\ [Next]_vars => [Step]_vars
  BY <1>1
<1> QED BY <1>2, RingsHold, PTL DEF Spec, ImplementsTree

\* The ring s once around, from behind position p.
LapAt(s, p) == SubSeq(s, p + 1, Len(s)) \o SubSeq(s, 1, p)

\* On the lap from behind position p the links lead from each node
\* to the next, and the last one is the one at p.
LEMMA LapOf ==
  ASSUME NEW s \in Seq(Tcb), Injective(s), NEW nx, Closes(s, nx), NEW p \in DOMAIN s
  PROVE  LET lap == LapAt(s, p)
         IN  /\ lap \in Seq(Tcb) /\ Len(lap) = Len(s) /\ ToSet(lap) = ToSet(s)
             /\ Injective(lap) /\ lap[Len(s)] = s[p]
             /\ nx[s[p]] = lap[1]
             /\ \A k \in 1 .. Len(s) - 1 : nx[lap[k]] = lap[k + 1]
<1> DEFINE L == Len(s)
           lap == SubSeq(s, p + 1, Len(s)) \o SubSeq(s, 1, p)
           at(k) == IF k =< L - p THEN p + k ELSE k - (L - p)
<1>1. L \in Nat /\ DOMAIN s = 1 .. L /\ p \in 1 .. L /\ p \in 0 .. Len(s)
  OBVIOUS
<1>2. /\ lap \in Seq(Tcb) /\ Len(lap) = L /\ ToSet(lap) = ToSet(s)
      /\ \A k \in 1 .. L - p : lap[k] = s[p + k]
      /\ \A k \in 1 .. p : lap[(L - p) + k] = s[k]
  BY <1>1, Rotation
<1> HIDE DEF lap
<1>3. \A k \in 1 .. L : Behind(s, k) = IF k = L THEN 1 ELSE k + 1
  BY DEF Behind
<1>4. \A k \in 1 .. L : nx[s[k]] = s[Behind(s, k)]
  BY <1>1 DEF Closes
<1>5. DOMAIN lap = 1 .. L
  BY <1>1, <1>2
<1> HIDE DEF L
<1>6. ASSUME NEW k \in 1 .. L
      PROVE  lap[k] = s[at(k)] /\ at(k) \in 1 .. L
  <2>1. CASE k =< L - p
    BY <1>1, <1>2, <2>1
  <2>2. CASE k > L - p
    <3>1. k - (L - p) \in 1 .. p /\ (L - p) + (k - (L - p)) = k
      BY <1>1, <2>2
    <3>2. lap[(L - p) + (k - (L - p))] = s[k - (L - p)]
      BY <1>2, <3>1
    <3> QED BY <1>1, <2>2, <3>1, <3>2
  <2> QED BY <1>1, <2>1, <2>2
<1>7. \A j, k \in 1 .. L : at(j) = at(k) => j = k
  BY <1>1
<1>8. Injective(lap)
  BY <1>1, <1>5, <1>6, <1>7 DEF Injective
<1>9. lap[L] = s[p]
  <2>1. L \in 1 .. L /\ at(L) = p
    BY <1>1
  <2> QED BY <1>6, <2>1
<1>10. nx[s[p]] = lap[1]
  <2>1. 1 \in 1 .. L /\ at(1) = Behind(s, p)
    BY <1>1, <1>3
  <2> QED BY <1>1, <1>4, <1>6, <2>1
<1>11. ASSUME NEW k \in 1 .. L - 1
       PROVE  nx[lap[k]] = lap[k + 1]
  <2>1. k \in 1 .. L /\ k + 1 \in 1 .. L /\ at(k + 1) = Behind(s, at(k))
    <3>1. at(k) \in 1 .. L /\ k \in 1 .. L /\ k + 1 \in 1 .. L
      BY <1>1
    <3>2. Behind(s, at(k)) = IF at(k) = L THEN 1 ELSE at(k) + 1
      BY <1>3, <3>1
    <3> QED BY <1>1, <3>1, <3>2
  <2> HIDE DEF at
  <2> QED BY <1>4, <1>6, <2>1
<1> QED BY <1>2, <1>8, <1>9, <1>10, <1>11 DEF lap, L, LapAt

\* The first element of lap in S, from position k on.
FirstFrom(lap, S, k) ==
  LET hits == {i \in DOMAIN lap : lap[i] \in S /\ i >= k}
  IN  IF hits = {} THEN Null ELSE lap[Min(hits)]

LEMMA FirstFromStep ==
  ASSUME NEW lap \in Seq(Tcb), NEW S, NEW k \in DOMAIN lap
  PROVE  /\ lap[k] \in S => FirstFrom(lap, S, k) = lap[k]
         /\ lap[k] \notin S /\ k # Len(lap) => FirstFrom(lap, S, k) = FirstFrom(lap, S, k + 1)
         /\ lap[k] \notin S /\ k = Len(lap) => FirstFrom(lap, S, k) = Null
<1> DEFINE hits(j) == {i \in DOMAIN lap : lap[i] \in S /\ i >= j}
<1>1. DOMAIN lap = 1 .. Len(lap) /\ Len(lap) \in Nat /\ k \in 1 .. Len(lap)
  OBVIOUS
<1>2. ASSUME lap[k] \in S
      PROVE  FirstFrom(lap, S, k) = lap[k]
  <2>1. k \in hits(k) /\ hits(k) # {} /\ hits(k) \subseteq Nat /\ \A i \in hits(k) : k =< i
    BY <1>1, <1>2
  <2> HIDE DEF hits
  <2>2. Min(hits(k)) \in hits(k) /\ \A i \in hits(k) : Min(hits(k)) =< i
    BY <2>1, MinInSet
  <2>3. Min(hits(k)) \in Nat /\ Min(hits(k)) =< k /\ k =< Min(hits(k))
    BY <2>1, <2>2
  <2>4. Min(hits(k)) = k
    <3> DEFINE m == Min(hits(k))
    <3>1. m \in Nat /\ m =< k /\ k =< m
      BY <2>3
    <3> HIDE DEF m
    <3>2. m = k
      BY <1>1, <3>1
    <3> QED BY <3>2 DEF m
  <2> QED BY <2>1, <2>4 DEF FirstFrom, hits
<1>3. ASSUME lap[k] \notin S, k # Len(lap)
      PROVE  FirstFrom(lap, S, k) = FirstFrom(lap, S, k + 1)
  <2>1. hits(k) = hits(k + 1)
    BY <1>1, <1>3
  <2> QED BY <2>1 DEF FirstFrom
<1>4. ASSUME lap[k] \notin S, k = Len(lap)
      PROVE  FirstFrom(lap, S, k) = Null
  <2>1. hits(k) = {}
    BY <1>1, <1>4
  <2> QED BY <2>1 DEF FirstFrom
<1> QED BY <1>2, <1>3, <1>4

Runnable == {m \in Tcb : ~not_runnable(m)}

\* ring::next_runnable walks once around its ring, from itself last, and finds
\* the first node there that can run.
LEMMA WalkFinds ==
  ASSUME NEW lap \in Seq(Tcb), Injective(lap), lap # <<>>,
         \A k \in 1 .. Len(lap) - 1 : next[lap[k]] = lap[k + 1],
         NEW from, ToSet(lap) = Siblings(from), from = lap[Len(lap)], next[from] = lap[1]
  PROVE  next_runnable(from) = FirstFrom(lap, Runnable, 1)
<1> DEFINE L == Len(lap)
           S == Runnable
           R == Siblings(from)
           Step(f) == [x \in R |-> CASE ~not_runnable(x) -> x
                                     [] not_runnable(x) /\ x = from -> Null
                                     [] OTHER -> f[next[x]]]
           go == CHOOSE f : f = Step(f)
           E(k) == FirstFrom(lap, S, k)
           at(x) == CHOOSE k \in 1 .. L : lap[k] = x
           f0 == [x \in R |-> E(at(x))]
<1>1. /\ L \in Nat \ {0} /\ DOMAIN lap = 1 .. L
      /\ \A k \in 1 .. L : lap[k] \in R
      /\ \A j, k \in 1 .. L : lap[j] = lap[k] => j = k
      /\ \A k \in 1 .. L - 1 : next[lap[k]] = lap[k + 1]
      /\ from = lap[L] /\ next[from] = lap[1]
  BY DEF Injective, ToSet
<1>2. \A k \in 1 .. L : /\ lap[k] \in S => E(k) = lap[k]
                        /\ lap[k] \notin S /\ k # L => E(k) = E(k + 1)
                        /\ lap[k] \notin S /\ k = L => E(k) = Null
  <2> TAKE k \in 1 .. L
  <2>1. k \in DOMAIN lap
    BY <1>1
  <2> HIDE DEF f0, go, at, S
  <2> QED BY <2>1, FirstFromStep
<1>s. \A x \in Tcb : ~not_runnable(x) <=> x \in S
  BY DEF Runnable
<1>t. \A k \in 1 .. L : lap[k] \in Tcb
  BY <1>1
<1>3. \A x \in R : at(x) \in 1 .. L /\ lap[at(x)] = x
  BY <1>1 DEF ToSet
<1> HIDE DEF L, E, at, S
<1>4. \A k \in 1 .. L : f0[lap[k]] = E(k)
  <2> TAKE k \in 1 .. L
  <2>1. lap[k] \in R /\ at(lap[k]) = k
    BY <1>1, <1>3
  <2> QED BY <2>1
<1>5. f0 = Step(f0)
  <2> SUFFICES ASSUME NEW x \in R
               PROVE  f0[x] = CASE ~not_runnable(x) -> x
                                [] not_runnable(x) /\ x = from -> Null
                                [] OTHER -> f0[next[x]]
    OBVIOUS
  <2> DEFINE k == at(x)
  <2>1. k \in 1 .. L /\ lap[k] = x /\ f0[x] = E(k)
    BY <1>3
  <2> HIDE DEF k, f0
  <2>2. x = from <=> k = L
    BY <1>1, <2>1
  <2>3. k # L => next[x] = lap[k + 1] /\ k + 1 \in 1 .. L
    BY <1>1, <2>1
  <2>4. k # L => f0[next[x]] = E(k + 1)
    BY <1>4, <2>3
  <2> QED BY <1>2, <1>s, <1>t, <2>1, <2>2, <2>4
<1>6. go = Step(go)
  <2> HIDE DEF f0, Step
  <2> QED BY <1>5
<1>7. \A x \in R : go[x] = CASE ~not_runnable(x) -> x
                             [] not_runnable(x) /\ x = from -> Null
                             [] OTHER -> go[next[x]]
  <2> HIDE DEF go
  <2> QED BY <1>6
<1> HIDE DEF go, f0
<1>8. \A k \in 1 .. L : go[lap[k]] = E(k)
  <2> DEFINE good == {i \in Nat : i < L => go[lap[L - i]] = E(L - i)}
             bad == {i \in Nat : i \notin good}
  <2> SUFFICES bad = {}
    <3> SUFFICES ASSUME NEW k \in 1 .. L PROVE go[lap[k]] = E(k)
      OBVIOUS
    <3>1. L - k \in Nat /\ L - k < L /\ L - (L - k) = k
      BY <1>1
    <3> QED BY <3>1
  <2> SUFFICES ASSUME bad # {} PROVE FALSE
    OBVIOUS
  <2>1. Min(bad) \in bad /\ \A j \in bad : Min(bad) =< j
    <3>1. bad \subseteq Nat
      OBVIOUS
    <3> HIDE DEF bad
    <3> QED BY <3>1, MinInSet
  <2>2. PICK i \in Nat : i < L /\ go[lap[L - i]] # E(L - i) /\ (i > 0 => i - 1 \in good)
    <3>1. PICK i \in bad : \A j \in bad : i =< j
      BY <2>1
    <3>2. i \in Nat /\ i - 1 \notin bad
      BY <3>1
    <3> QED BY <3>1, <3>2
  <2> DEFINE k == L - i
  <2>3. k \in 1 .. L /\ go[lap[k]] # E(k)
    BY <1>1, <2>2
  <2>4. k # L => /\ k \in 1 .. L - 1 /\ go[lap[k + 1]] = E(k + 1)
    <3> SUFFICES ASSUME k # L PROVE k \in 1 .. L - 1 /\ go[lap[k + 1]] = E(k + 1)
      OBVIOUS
    <3>1. i > 0 /\ L - (i - 1) = k + 1 /\ i - 1 < L /\ k \in 1 .. L - 1
      BY <1>1, <2>2
    <3> QED BY <2>2, <3>1
  <2> HIDE DEF k
  <2>5. go[lap[k]] = CASE ~not_runnable(lap[k]) -> lap[k]
                       [] not_runnable(lap[k]) /\ lap[k] = from -> Null
                       [] OTHER -> go[next[lap[k]]]
    BY <1>1, <1>7, <2>3
  <2>6. lap[k] = from <=> k = L
    BY <1>1, <2>3
  <2>7. k # L => next[lap[k]] = lap[k + 1]
    BY <1>1, <2>4
  <2> QED BY <1>2, <1>s, <1>t, <2>3, <2>4, <2>5, <2>6, <2>7
<1>9. go[lap[1]] = E(1)
  BY <1>1, <1>8
<1>10. next_runnable(from) = go[next[from]]
  BY DEF next_runnable, go
<1> QED BY <1>1, <1>9, <1>10 DEF E, S

\* ring::next_runnable returns what SchedTree's NextRunnable does.
LEMMA WalksFind ==
  ASSUME RingsInv, NEW n \in Tcb, is_linked(n)
  PROVE  next_runnable(n) = Tree!NextRunnable(n) /\ (n \in Tree!CanRun <=> ~not_runnable(n))
<1> DEFINE g == parent[n]
           s == Kids[g]
           p == Tree!Pos(g, n)
           lap == LapAt(s, p)
<1>0. LinkInv
  BY DEF RingsInv
<1>1. /\ n \in Tcb /\ next[n] # Null /\ g \in Group /\ Group \cap Tcb = {}
      /\ \A m \in Tcb : next[m] # Null => state[m] \in {"Ready", "Blocked"}
  BY <1>0, LinkFacts DEF is_linked, Linked
<1>2. /\ s \in Seq(Tcb) /\ Injective(s) /\ Closes(s, next)
      /\ ToSet(s) = {x \in Tcb : next[x] # Null /\ parent[x] = g}
  BY <1>1 DEF RingsInv, RingsIn, RingIn
<1>3. p \in DOMAIN s /\ s[p] = n
  <2>1. \E i \in DOMAIN s : s[i] = n
    BY <1>1, <1>2 DEF ToSet
  <2> QED BY <2>1 DEF Tree!Pos
<1> HIDE DEF s, p
<1>4. /\ lap \in Seq(Tcb) /\ Len(lap) = Len(s) /\ ToSet(lap) = ToSet(s) /\ Injective(lap)
      /\ lap[Len(s)] = n /\ next[n] = lap[1]
      /\ \A k \in 1 .. Len(s) - 1 : next[lap[k]] = lap[k + 1]
  <2> HIDE DEF lap
  <2>1. /\ lap \in Seq(Tcb) /\ Len(lap) = Len(s) /\ ToSet(lap) = ToSet(s)
        /\ Injective(lap) /\ lap[Len(s)] = s[p]
        /\ next[s[p]] = lap[1]
        /\ \A k \in 1 .. Len(s) - 1 : next[lap[k]] = lap[k + 1]
    BY <1>2, <1>3, LapOf DEF lap
  <2> QED BY <1>3, <2>1
<1>5. Tree!Lap(g, n) = lap
  BY DEF Tree!Lap, LapAt, s, p
<1> HIDE DEF lap
<1>6. ToSet(lap) = Siblings(n)
  BY <1>2, <1>4, RingAssumption DEF Siblings, is_linked
<1>7. lap # <<>>
  <2>1. Len(s) # 0
    BY <1>2, <1>3
  <2> QED BY <1>4, <2>1
<1>8. next_runnable(n) = FirstFrom(lap, Runnable, 1)
  BY <1>4, <1>6, <1>7, WalkFinds
<1>9. \A x \in Tcb : next[x] # Null => (x \in Tree!CanRun <=> x \in Runnable)
  <2> TAKE x \in Tcb
  <2>1. [m \in Tcb \cup Group |-> IF m \in Tcb THEN state[m] ELSE "Ready"][x] = state[x]
    OBVIOUS
  <2> QED BY <1>1, <2>1 DEF Tree!CanRun, Tree!Node, Runnable, not_runnable
<1>10. Tree!Hits(lap, Tree!CanRun) = {i \in DOMAIN lap : lap[i] \in Runnable /\ i >= 1}
  <2>1. \A i \in DOMAIN lap : lap[i] \in Tcb /\ next[lap[i]] # Null /\ i >= 1
    <3> TAKE i \in DOMAIN lap
    <3>1. lap[i] \in ToSet(s)
      BY <1>4 DEF ToSet
    <3>2. i >= 1
      BY <1>4
    <3> QED BY <1>2, <3>1, <3>2
  <2> QED BY <1>9, <2>1 DEF Tree!Hits
<1>11. Tree!NextRunnable(n) = FirstFrom(lap, Runnable, 1)
  <2>1. [m \in Tcb \cup Group |-> IF m \in Tcb THEN parent[m] ELSE Null][n] = g
    OBVIOUS
  <2>2. Tree!NextRunnable(n) = Tree!FirstOf(lap, Tree!CanRun)
    BY <1>5, <2>1 DEF Tree!NextRunnable
  <2> QED BY <1>10, <2>2 DEF Tree!FirstOf, FirstFrom, Min, Tree!Min
<1>12. n \in Tree!CanRun <=> ~not_runnable(n)
  BY <1>1, <1>9 DEF Runnable
<1> QED BY <1>8, <1>11, <1>12

\* Whatever tasks are blocked, ring::next_runnable and first_runnable_from
\* return the node that comes first in the sequence SchedTree reads.
THEOREM WalksAreRight == Spec => []WalksAgree
<1>1. RingsInv => WalksAgree
  <2> SUFFICES ASSUME RingsInv, NEW n \in Tcb, is_linked(n)
               PROVE  /\ next_runnable(n) = Tree!NextRunnable(n)
                      /\ first_runnable_from(n) = Tree!FirstRunnableFrom(n)
    BY DEF WalksAgree
  <2>1. next_runnable(n) = Tree!NextRunnable(n) /\ (n \in Tree!CanRun <=> ~not_runnable(n))
    BY WalksFind
  <2>2. n # Null
    BY DEF is_linked
  <2> QED BY <2>1, <2>2 DEF first_runnable_from, Tree!FirstRunnableFrom
<1> QED BY <1>1, RingsHold, PTL

=============================================================================
