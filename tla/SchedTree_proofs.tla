--------------------------- MODULE SchedTree_proofs ---------------------------
(***************************************************************************)
(* Proofs about the scheduling tree, for every set of nodes, every quantum *)
(* and every tree shape: every reachable tree is well typed, its rings,    *)
(* cursors, ring_head and current refer to live TCBs only, active_threads  *)
(* counts the live leaves, a preempted child keeps its rest, and what      *)
(* pick_next_leaf chooses has time left on its whole path.  Where groups   *)
(* hang below the root only, it finds a task whenever one can run, and the *)
(* cursors give up no child whose turn is not over.                        *)
(***************************************************************************)
EXTENDS SchedTree, RingLemmas, FiniteSetTheorems, TLAPS

Inv == TreeTypeOK /\ TreeInv

\* What pick_next_leaf may leave in the cursors.
CursorsOK(c) ==
  /\ c \in [Group -> Node \cup {Null}]
  /\ \A g \in Group : IF kids[g] = <<>> THEN c[g] = Null ELSE c[g] \in ToSet(kids[g])

-----------------------------------------------------------------------------
(* Rings *)

\* A child is at its position.
LEMMA PosInRing ==
  ASSUME NEW g \in Group, NEW n \in ToSet(kids[g])
  PROVE  Pos(g, n) \in DOMAIN kids[g] /\ kids[g][Pos(g, n)] = n
BY DEF Pos, ToSet

\* A lap from a child passes exactly the children; in a ring of several, the
\* first it meets is another one.
LEMMA LapFacts ==
  ASSUME TreeTypeOK, NEW g \in Group, NEW n \in ToSet(kids[g])
  PROVE  /\ Lap(g, n) \in Seq(Node)
         /\ ToSet(Lap(g, n)) = ToSet(kids[g])
         /\ RingsInjective /\ Len(kids[g]) # 1 => Succ(g, n) \in ToSet(kids[g]) \ {n}
<1> DEFINE s == kids[g]
           i == Pos(g, n)
           r == SubSeq(s, i + 1, Len(s)) \o SubSeq(s, 1, i)
<1>1. s \in Seq(Node)
  BY DEF TreeTypeOK
<1>2. i \in DOMAIN s /\ s[i] = n
  BY PosInRing
<1>3. Len(s) \in Nat /\ DOMAIN s = 1..Len(s)
  BY <1>1
<1>4. Lap(g, n) = r
  BY DEF Lap
<1> HIDE DEF s, i
<1>5. i \in 0..Len(s)
  BY <1>2, <1>3
<1>6. /\ r \in Seq(Node) /\ Len(r) = Len(s) /\ ToSet(r) = ToSet(s)
      /\ i < Len(s) => r[1] = s[i + 1]
      /\ i = Len(s) /\ i > 0 => r[1] = s[1]
  BY <1>1, <1>5, Rotation
<1> HIDE DEF r
<1>7. ASSUME RingsInjective, Len(s) # 1
      PROVE  Head(r) \in ToSet(s) \ {n}
  <2>1. r # <<>> /\ Head(r) = r[1]
    BY <1>2, <1>3, <1>6
  <2>2. \A j, k \in DOMAIN s : s[j] = s[k] => j = k
    BY <1>7 DEF RingsInjective, s
  <2>3. CASE i < Len(s)
    <3>1. i + 1 \in DOMAIN s /\ i + 1 # i
      BY <1>2, <1>3, <2>3
    <3> QED BY <1>2, <1>6, <2>1, <2>2, <2>3, <3>1 DEF ToSet
  <2>4. CASE i = Len(s)
    <3>1. 1 \in DOMAIN s /\ 1 # i /\ i > 0
      BY <1>2, <1>3, <1>7, <2>4
    <3> QED BY <1>2, <1>6, <2>1, <2>2, <2>4, <3>1 DEF ToSet
  <2> QED BY <1>2, <1>3, <2>3, <2>4
<1> QED BY <1>4, <1>6, <1>7 DEF s, Succ

\* FirstOf finds a member of the set it searches for, or nothing.
LEMMA FirstOfFound ==
  ASSUME NEW lap \in Seq(Node), NEW S
  PROVE  /\ FirstOf(lap, S) \in (ToSet(lap) \cap S) \cup {Null}
         /\ ToSet(lap) \cap S # {} => FirstOf(lap, S) \in ToSet(lap) \cap S
<1>1. CASE Hits(lap, S) = {}
  BY <1>1 DEF FirstOf, Hits, ToSet
<1>2. CASE Hits(lap, S) # {}
  <2>1. Hits(lap, S) \subseteq Nat
    BY DEF Hits
  <2>2. Min(Hits(lap, S)) \in Hits(lap, S)
    BY <1>2, <2>1, MinInSet
  <2> QED BY <1>2, <2>2 DEF FirstOf, Hits, ToSet
<1> QED BY <1>1, <1>2

\* next_runnable stays in the ring.
LEMMA NextRunnableInRing ==
  ASSUME TreeTypeOK, NEW g \in Group, NEW n \in ToSet(kids[g]), parent[n] = g
  PROVE  NextRunnable(n) \in ToSet(kids[g]) \cup {Null}
<1>1. Lap(g, n) \in Seq(Node) /\ ToSet(Lap(g, n)) = ToSet(kids[g])
  BY LapFacts
<1> QED BY <1>1, FirstOfFound DEF NextRunnable

\* resume_child offers a child of the group, or none.
LEMMA ResumeChildInRing ==
  ASSUME Inv, NEW c, CursorsOK(c), NEW g \in Group
  PROVE  ResumeChild(c, g) \in ToSet(kids[g]) \cup {Null}
<1>1. CASE kids[g] = <<>>
  BY <1>1 DEF ResumeChild
<1>2. CASE kids[g] # <<>>
  <2>1. c[g] \in ToSet(kids[g])
    BY <1>2 DEF CursorsOK
  <2>2. Head(kids[g]) \in ToSet(kids[g])
    <3>1. kids[g] \in Seq(Node)
      BY DEF Inv, TreeTypeOK
    <3>2. 1 \in DOMAIN kids[g] /\ Head(kids[g]) = kids[g][1]
      BY <1>2, <3>1
    <3> QED BY <3>2 DEF ToSet
  <2>3. \A n \in ToSet(kids[g]) : NextRunnable(n) \in ToSet(kids[g]) \cup {Null}
    BY NextRunnableInRing DEF Inv, TreeInv, LinkedIffLive
  <2> QED BY <1>2, <2>1, <2>2, <2>3 DEF ResumeChild, FirstRunnableFrom
<1> QED BY <1>1, <1>2

-----------------------------------------------------------------------------
(* Choosing the next leaf *)

\* The loop over spent nodes leaves every cursor in its ring.
LEMMA MoveOnCursors ==
  ASSUME Inv, NEW S
  PROVE  CursorsOK(MoveOn(S))
<1> DEFINE left(g) == {n \in S : parent[n] = g /\ NextRunnable(n) \in ToSet(kids[g])}
<1>1. CursorsOK(cursor)
  BY DEF Inv, TreeTypeOK, TreeInv, CursorInRing, CursorsOK
<1>2. \A g \in Group : left(g) # {} => NextRunnable(CHOOSE n \in left(g) : TRUE) \in ToSet(kids[g])
  OBVIOUS
<1>3. \A g \in Group : ToSet(kids[g]) \subseteq Node /\ (ToSet(kids[g]) # {} => kids[g] # <<>>)
  BY DEF Inv, TreeTypeOK, ToSet
<1>4. MoveOn(S) = [g \in Group |-> IF left(g) = {} THEN cursor[g]
                                   ELSE NextRunnable(CHOOSE n \in left(g) : TRUE)]
  BY DEF MoveOn
<1> HIDE DEF left
<1> QED BY <1>1, <1>2, <1>3, <1>4 DEF CursorsOK

\* advance_from serves a child of the ring it stops at.
LEMMA AdvanceEntry ==
  ASSUME Inv, NEW c, CursorsOK(c), NEW x, AdvanceFrom(c, x).group \in Group
  PROVE  AdvanceFrom(c, x).entry \in ToSet(kids[AdvanceFrom(c, x).group])
<1> DEFINE up   == Up(x)
           good == {i \in 1..Len(up) : Serves(c, up[i]) # {}}
           h    == up[Min(good)]
<1>1. Null \notin Group
  BY TreeAssumption DEF Node
<1>2. good # {}
  BY <1>1 DEF AdvanceFrom
<1>3. AdvanceFrom(c, x).group = h
  BY <1>2 DEF AdvanceFrom
<1>4. AdvanceFrom(c, x).entry = FirstOf(Round(c, h), Serves(c, h))
  BY <1>2 DEF AdvanceFrom
<1>5. Serves(c, h) # {}
  <2>1. good \subseteq Nat
    BY LevelIsNat
  <2>2. Min(good) \in good
    BY <1>2, <2>1, MinInSet
  <2> QED BY <2>2
<1> HIDE DEF h
<1>6. h \in Group
  BY <1>3
<1>7. Round(c, h) \in Seq(Node) /\ ToSet(Round(c, h)) = ToSet(kids[h])
  BY <1>6, LapFacts DEF Round, Inv, TreeTypeOK
<1>8. ToSet(Round(c, h)) \cap Serves(c, h) # {}
  BY <1>5, <1>7 DEF Serves
<1>9. FirstOf(Round(c, h), Serves(c, h)) \in ToSet(kids[h])
  BY <1>7, <1>8, FirstOfFound
<1> QED BY <1>3, <1>4, <1>9

\* A descent ends at a runnable leaf or nowhere.
LEMMA DescentLeafRuns ==
  ASSUME NEW c, NEW p
  PROVE  DescentLeaf(c, p) \in (Leaf \cap CanRun) \cup {Null}
BY DEF DescentLeaf, Descent

\* What pick_next_leaf promises the switch path.
PickOK(pick) ==
  /\ pick.leaf \in (Leaf \cap CanRun) \cup {Null}
  /\ CursorsOK(pick.cursor)
  /\ pick.rem \in [Node -> Nat]

\* Whatever an advance or a descent touches, cursors stay in their rings and
\* quanta stay natural numbers.
LEMMA OutcomeOK ==
  ASSUME Inv, NEW c, CursorsOK(c), NEW adv, NEW entered,
         adv.group \in Group => adv.entry \in ToSet(kids[adv.group])
  PROVE  PickOK(Outcome(c, adv, entered))
<1> DEFINE out     == Outcome(c, adv, entered)
           touched == UNION {Descent(c, p) : p \in adv.tried \cup entered}
           chosen  == IF adv.group # Null THEN {adv.entry} ELSE entered
           ends    == {l \in Leaf : \E p \in chosen : DescentLeaf(c, p) = l}
           newc    == [g \in Group |->
                         IF g = adv.group THEN adv.entry
                         ELSE IF g \in touched /\ ResumeChild(c, g) \in CanRun
                              THEN ResumeChild(c, g) ELSE c[g]]
<1>1. /\ out.leaf = IF ends = {} THEN Null ELSE CHOOSE l \in ends : TRUE
      /\ out.cursor = newc
      /\ out.rem = [n \in Node |-> IF n \in touched THEN Arm(n) ELSE rem[n]]
  BY DEF Outcome
<1>2. out.leaf \in (Leaf \cap CanRun) \cup {Null}
  <2>1. ends \subseteq Leaf \cap CanRun
    <3>1. Null \notin Leaf
      BY TreeAssumption DEF Node
    <3> QED BY <3>1, DescentLeafRuns
  <2> HIDE DEF ends
  <2> QED BY <1>1, <2>1
<1> HIDE DEF touched
<1>3. out.rem \in [Node -> Nat]
  <2>1. rem \in [Node -> Nat] /\ Quantum \in [Node -> Nat]
    BY TreeAssumption DEF Inv, TreeTypeOK
  <2> QED BY <1>1, <2>1 DEF Arm
<1>4. \A g \in Group : ToSet(kids[g]) \subseteq Node /\ (ToSet(kids[g]) # {} => kids[g] # <<>>)
  BY DEF Inv, TreeTypeOK, ToSet
<1>5. CanRun \subseteq Node /\ Null \notin Node
  BY TreeAssumption DEF CanRun
<1>6. ASSUME NEW g \in Group
      PROVE  IF kids[g] = <<>> THEN newc[g] = Null ELSE newc[g] \in ToSet(kids[g])
  <2>1. CASE g = adv.group
    BY <1>4, <2>1
  <2>2. CASE g # adv.group /\ ResumeChild(c, g) \in CanRun
    <3>1. ResumeChild(c, g) \in ToSet(kids[g])
      BY <1>5, <2>2, ResumeChildInRing
    <3>2. IF kids[g] = <<>> THEN c[g] = Null ELSE c[g] \in ToSet(kids[g])
      BY DEF CursorsOK
    <3> QED BY <1>4, <2>2, <3>1, <3>2
  <2>3. CASE g # adv.group /\ ResumeChild(c, g) \notin CanRun
    BY <2>3 DEF CursorsOK
  <2> QED BY <2>1, <2>2, <2>3
<1>7. CursorsOK(newc)
  BY <1>4, <1>6 DEF CursorsOK
<1> QED BY <1>1, <1>2, <1>3, <1>7 DEF PickOK

\* pick_next_leaf keeps that promise from every state of the tree.
LEMMA PickNextLeafOK ==
  ASSUME Inv, NEW cur \in Leaf \cup {Null}
  PROVE  PickOK(PickNextLeaf(cur))
<1>1. CursorsOK(cursor)
  BY DEF Inv, TreeTypeOK, TreeInv, CursorInRing, CursorsOK
<1>2. \A c, x, e : CursorsOK(c) => PickOK(Outcome(c, AdvanceFrom(c, x), e))
  BY AdvanceEntry, OutcomeOK
<1>3. \A e : PickOK(Outcome(cursor, NoAdvance, e))
  <2>1. NoAdvance.group \notin Group
    BY TreeAssumption DEF NoAdvance, Node
  <2> QED BY <1>1, <2>1, OutcomeOK
<1>4. CASE cur = Null
  BY <1>1, <1>2, <1>3, <1>4 DEF PickNextLeaf
<1>5. CASE cur # Null /\ ExhaustedLevels(Up(cur)) = {}
  <2>1. CASE cur \in CanRun
    <3>1. PickNextLeaf(cur) = [leaf |-> cur, cursor |-> cursor, rem |-> rem]
      BY <1>5, <2>1 DEF PickNextLeaf
    <3>2. rem \in [Node -> Nat]
      BY DEF Inv, TreeTypeOK
    <3> QED BY <1>1, <1>5, <2>1, <3>1, <3>2 DEF PickOK
  <2>2. CASE cur \notin CanRun
    BY <1>1, <1>2, <1>5, <2>2 DEF PickNextLeaf
  <2> QED BY <2>1, <2>2
<1>6. CASE cur # Null /\ ExhaustedLevels(Up(cur)) # {}
  <2>1. CursorsOK(SpentCursors(Up(cur)))
    BY MoveOnCursors DEF SpentCursors
  <2> QED BY <1>2, <1>6, <2>1 DEF PickNextLeaf
<1> QED BY <1>4, <1>5, <1>6

-----------------------------------------------------------------------------
(* The invariant *)

\* The tree init_with builds.
LEMMA InitInv ==
  ASSUME Init
  PROVE  Inv
<1> USE TreeAssumption DEF Node
<1>1. TreeTypeOK
  <2>1. kids \in [Group -> Seq(Node)]
    <3>1. <<Main>> \in Seq(Node) /\ <<>> \in Seq(Node)
      OBVIOUS
    <3> QED BY <3>1 DEF Init
  <2>2. Bump(Bump(0)) \in Nat
    BY DEF Bump
  <2>3. rem \in [Node -> Nat]
    BY DEF Init
  <2>4. state \in [Node -> Live \cup {"Dead", "Free"}]
    BY DEF Init, Live
  <2> HIDE DEF Node
  <2>5. Main \in Node /\ Root \in Group
    BY DEF Node
  <2> QED BY <2>1, <2>2, <2>3, <2>4, <2>5 DEF Init, TreeTypeOK, Live, Never
<1>2. kids[Root] = <<Main>> /\ \A g \in Group \ {Root} : kids[g] = <<>>
  BY DEF Init
<1>3. ToSet(kids[Root]) = {Main} /\ \A g \in Group \ {Root} : ToSet(kids[g]) = {}
  BY <1>2 DEF ToSet
<1>4. RingsInjective
  BY <1>2 DEF RingsInjective
<1>5. LinkedIffLive
  BY <1>3 DEF Init, LinkedIffLive, Live
<1>6. CursorInRing /\ RingHeadInRing
  BY <1>2, <1>3 DEF Init, CursorInRing, RingHeadInRing
<1>7. CurrentIsLive /\ PendingIsDead
  BY DEF Init, CurrentIsLive, PendingIsDead, Live
<1> QED BY <1>1, <1>4, <1>5, <1>6, <1>7 DEF Inv, TreeInv

\* States change only between live states: on a tick, a block or a wake.
LEMMA LiveStep ==
  ASSUME Inv, TreeTypeOK',
         UNCHANGED <<kids, cursor, parent, current, ringHead, pending>>,
         \A n \in Node : state'[n] # state[n] => state[n] \in Live /\ state'[n] \in Live
  PROVE  TreeInv'
<1>1. RingsInjective' /\ CursorInRing' /\ RingHeadInRing'
  BY DEF Inv, TreeInv, RingsInjective, CursorInRing, RingHeadInRing
<1>2. \A n \in Node : (state'[n] \in Live) = (state[n] \in Live)
  BY DEF Inv
<1>3. \A g \in Group : ToSet(kids[g]) \subseteq Node
  BY DEF Inv, TreeTypeOK, ToSet
<1>4. LinkedIffLive'
  BY <1>2, <1>3, TreeAssumption DEF Inv, TreeInv, LinkedIffLive, Node
<1>5. CurrentIsLive'
  BY <1>2, TreeAssumption DEF Inv, TreeInv, TreeTypeOK, CurrentIsLive, Node
<1>6. PendingIsDead'
  BY DEF Inv, TreeInv, PendingIsDead, Live
<1> QED BY <1>1, <1>4, <1>5, <1>6 DEF TreeInv

\* A tick drains quanta and readies sleepers.
LEMMA TickInv ==
  ASSUME Inv, on_tick
  PROVE  Inv'
<1>1. PICK drained, expired :
        /\ expired = Expired
        /\ rem' = [n \in Node |-> IF n \in drained THEN Spend(n) ELSE rem[n]]
        /\ MakeReady(expired)
        /\ togo' = [n \in Node |-> CASE n \in expired -> Never
                                    [] n \notin expired /\ togo[n] > 0 -> togo[n] - 1
                                    [] OTHER -> togo[n]]
        /\ UNCHANGED <<kids, cursor, parent, current, ringHead, active, pending, nodes>>
  BY DEF on_tick
<1>2. TreeTypeOK'
  <2>1. rem' \in [Node -> Nat]
    BY <1>1 DEF Inv, TreeTypeOK, Spend
  <2>2. togo' \in [Node -> Nat \cup {Never}]
    BY <1>1 DEF Inv, TreeTypeOK, Never
  <2>3. state' \in [Node -> Live \cup {"Dead", "Free"}] /\ blockedOn' \in [Node -> Resource \cup {Null}]
    BY <1>1 DEF Inv, TreeTypeOK, MakeReady, Live
  <2> QED BY <1>1, <2>1, <2>2, <2>3 DEF Inv, TreeTypeOK
<1>3. \A n \in Node : state'[n] # state[n] => state[n] \in Live /\ state'[n] \in Live
  BY <1>1 DEF MakeReady, Expired, Live
<1> QED BY <1>1, <1>2, <1>3, LiveStep DEF Inv

\* Blocking keeps a live task alive.
LEMMA BlockInv ==
  ASSUME Inv, NEW r \in Resource \cup {Null}, NEW t \in Sleeps \cup {Never},
         mark_blocked_locked(r, t)
  PROVE  Inv'
<1>1. current \in Leaf /\ state[current] \in Live
  BY DEF mark_blocked_locked, Inv, TreeTypeOK, TreeInv, CurrentIsLive
<1>2. TreeTypeOK'
  <2>1. t \in Nat \cup {Never}
    BY TreeAssumption
  <2> QED BY <1>1, <2>1 DEF mark_blocked_locked, Inv, TreeTypeOK, Live
<1>3. \A n \in Node : state'[n] # state[n] => state[n] \in Live /\ state'[n] \in Live
  BY <1>1 DEF mark_blocked_locked, Live, Inv, TreeTypeOK
<1> QED BY <1>2, <1>3, LiveStep DEF Inv, mark_blocked_locked

\* So does a wake.
LEMMA WakeInv ==
  ASSUME Inv, NEW S, Wake(S), \A n \in S : state[n] = "Blocked"
  PROVE  Inv'
<1>1. TreeTypeOK'
  BY DEF Wake, MakeReady, Inv, TreeTypeOK, Live
<1>2. \A n \in Node : state'[n] # state[n] => state[n] \in Live /\ state'[n] \in Live
  BY DEF Wake, MakeReady, Live
<1> QED BY <1>1, <1>2, LiveStep DEF Inv, Wake

\* Reclaiming turns dead TCBs, and no others, into free memory.
LEMMA ReclaimInv ==
  ASSUME Inv, NEW freed, reclaim_finished_tasks(freed)
  PROVE  Inv'
<1>1. TreeTypeOK'
  BY DEF reclaim_finished_tasks, Forget, Inv, TreeTypeOK, Live
<1>2. \A n \in freed : n \in Leaf /\ state[n] = "Dead"
  BY DEF reclaim_finished_tasks, Inv, TreeInv, PendingIsDead, TreeTypeOK
<1>3. \A n \in Node : (state'[n] \in Live) = (state[n] \in Live)
  BY <1>2 DEF reclaim_finished_tasks, Live
<1>4. \A n \in Node : state[n] \in Live => parent'[n] = parent[n] /\ state'[n] = state[n]
  BY <1>2 DEF reclaim_finished_tasks, Forget, Live
<1>5. RingsInjective' /\ CursorInRing' /\ RingHeadInRing'
  BY DEF reclaim_finished_tasks, Inv, TreeInv, RingsInjective, CursorInRing, RingHeadInRing
<1>6. \A g \in Group : ToSet(kids[g]) \subseteq Node
  BY DEF Inv, TreeTypeOK, ToSet
<1>7. LinkedIffLive'
  BY <1>3, <1>4, <1>6, TreeAssumption DEF reclaim_finished_tasks, Inv, TreeInv, LinkedIffLive, Node
<1>8. CurrentIsLive'
  BY <1>3, TreeAssumption DEF reclaim_finished_tasks, Inv, TreeInv, TreeTypeOK, CurrentIsLive, Node
<1>9. PendingIsDead'
  BY <1>2 DEF reclaim_finished_tasks, Inv, TreeInv, PendingIsDead
<1> QED BY <1>1, <1>5, <1>7, <1>8, <1>9 DEF Inv, TreeInv

\* A switch section reclaims dead TCBs and picks a live, linked leaf.
LEMMA ScheduleInv ==
  ASSUME Inv, NEW freed, schedule_next(PickNextLeaf(LinkedCurrent), freed)
  PROVE  Inv'
<1> DEFINE cur  == LinkedCurrent
           pick == PickNextLeaf(cur)
           next == pick.leaf
<1>1. cur \in Leaf \cup {Null} /\ (cur # Null => state[cur] \in Live)
  BY DEF LinkedCurrent, IsLinked, Inv, TreeTypeOK, TreeInv, LinkedIffLive
<1>2. PickOK(pick)
  BY <1>1, PickNextLeafOK
<1>3. \A n \in freed : n \in Leaf /\ state[n] = "Dead"
  BY DEF schedule_next, Inv, TreeInv, PendingIsDead, TreeTypeOK
<1>4. /\ freed \subseteq pending /\ pending' = pending \ freed
      /\ cursor' = pick.cursor
      /\ rem' = Forget(pick.rem, freed, 0)
      /\ parent' = Forget(parent, freed, Null)
      /\ current' = IF next = Null THEN cur ELSE next
      /\ state' = [n \in Node |->
                     CASE n \in freed -> "Free"
                       [] n \notin freed /\ n = next /\ next # cur -> "Running"
                       [] n \notin freed /\ n = cur /\ next \notin {cur, Null}
                            /\ state[n] = "Running" -> "Ready"
                       [] OTHER -> state[n]]
      /\ UNCHANGED <<kids, blockedOn, togo, ringHead, active, nodes>>
  BY DEF schedule_next
<1>5. next \in Leaf \cup {Null} /\ (next # Null => state[next] \in {"Ready", "Running"})
  BY <1>2 DEF PickOK, CanRun
<1> HIDE DEF cur, pick, next
<1>6. \A n \in Node \ freed : state'[n] # state[n] => state[n] \in Live /\ state'[n] \in Live
  BY <1>1, <1>4, <1>5, TreeAssumption DEF Live, Node
<1>7. \A n \in Node : /\ n \in freed => state'[n] = "Free"
                      /\ n \notin freed => state'[n] = state[n] \/ state'[n] \in {"Ready", "Running"}
  BY <1>4
<1>8. TreeTypeOK'
  <2>1. rem' \in [Node -> Nat] /\ cursor' \in [Group -> Node \cup {Null}]
    BY <1>2, <1>4 DEF PickOK, CursorsOK, Forget
  <2>2. state' \in [Node -> Live \cup {"Dead", "Free"}]
    <3>1. state' = [n \in Node |-> state'[n]]
      BY <1>4
    <3> QED BY <1>7, <3>1 DEF Inv, TreeTypeOK, Live
  <2>3. parent' \in [Node -> Group \cup {Null}]
    BY <1>4 DEF Forget, Inv, TreeTypeOK
  <2>4. current' \in Leaf \cup {Null} /\ pending' \subseteq Leaf
    BY <1>1, <1>4, <1>5 DEF Inv, TreeTypeOK
  <2> QED BY <1>4, <2>1, <2>2, <2>3, <2>4 DEF Inv, TreeTypeOK
<1>9. \A n \in Node : (state'[n] \in Live) = (state[n] \in Live)
  BY <1>3, <1>6, <1>7 DEF Live
<1>10. \A n \in Node : state[n] \in Live => parent'[n] = parent[n]
  BY <1>3, <1>4 DEF Forget, Live
<1>11. RingsInjective' /\ RingHeadInRing'
  BY <1>4 DEF Inv, TreeInv, RingsInjective, RingHeadInRing
<1>12. CursorInRing'
  BY <1>2, <1>4 DEF PickOK, CursorsOK, CursorInRing
<1>13. \A g \in Group : ToSet(kids[g]) \subseteq Node
  BY DEF Inv, TreeTypeOK, ToSet
<1>14. LinkedIffLive'
  BY <1>4, <1>9, <1>10, <1>13, TreeAssumption DEF Inv, TreeInv, LinkedIffLive, Node
<1>15. CurrentIsLive'
  <2>1. current' \in Node /\ current' # Null => state[current'] \in Live
    BY <1>1, <1>4, <1>5 DEF Live
  <2> QED BY <1>8, <1>9, <2>1 DEF CurrentIsLive, TreeTypeOK, Node
<1>16. PendingIsDead'
  BY <1>3, <1>4, <1>6, <1>7 DEF Inv, TreeInv, PendingIsDead, Live
<1> QED BY <1>8, <1>11, <1>12, <1>14, <1>15, <1>16 DEF Inv, TreeInv

\* insert_child keeps the ring a ring, with the new node in it.
LEMMA SpawnInv ==
  ASSUME Inv, NEW n \in Node, NEW g \in Group, Spawn(n, g)
  PROVE  Inv'
<1> DEFINE s == kids[g]
           i == (IF cursor[g] \in ToSet(s) THEN Pos(g, cursor[g]) ELSE 1) + 1
           r == IF s = <<>> THEN <<n>> ELSE InsertAt(s, i, n)
<1>1. /\ state[n] = "Free" /\ state[g] = "Ready"
      /\ kids' = [kids EXCEPT ![g] = r]
      /\ cursor' = [cursor EXCEPT ![g] = IF @ = Null THEN n ELSE @]
      /\ ringHead' = IF g = Root THEN n ELSE ringHead
      /\ parent' = [parent EXCEPT ![n] = g]
      /\ state' = [state EXCEPT ![n] = "Ready"]
      /\ rem' = [rem EXCEPT ![n] = Quantum[n]]
      /\ blockedOn' = [blockedOn EXCEPT ![n] = Null]
      /\ togo' = [togo EXCEPT ![n] = Never]
      /\ active' = ActiveAfterSpawn(n) /\ nodes' = Bump(nodes)
      /\ UNCHANGED <<current, pending>>
  BY DEF Spawn, InsertChild
<1>2. kids \in [Group -> Seq(Node)] /\ s \in Seq(Node)
  BY DEF Inv, TreeTypeOK
<1>3. \A f \in Group : n \notin ToSet(kids[f])
  BY <1>1 DEF Inv, TreeInv, LinkedIffLive, Live
<1>4. /\ r \in Seq(Node) /\ r # <<>> /\ ToSet(r) = ToSet(s) \cup {n}
      /\ \A j, k \in DOMAIN r : r[j] = r[k] => j = k
  <2>1. CASE s = <<>>
    <3>1. r = <<n>> /\ ToSet(s) = {} /\ DOMAIN <<n>> = {1} /\ <<n>>[1] = n
      BY <2>1 DEF ToSet
    <3>2. <<n>> \in Seq(Node) /\ <<n>> # <<>>
      OBVIOUS
    <3>3. ToSet(<<n>>) = {n}
      BY <3>1 DEF ToSet
    <3> HIDE DEF s, r
    <3>4. ToSet(r) = ToSet(s) \cup {n} /\ \A j, k \in DOMAIN r : j = k
      BY <3>1, <3>3
    <3> QED BY <3>1, <3>2, <3>4
  <2>2. CASE s # <<>>
    <3>1. i \in 1..Len(s) + 1
      <4>1. Len(s) \in Nat \ {0} /\ DOMAIN s = 1..Len(s)
        BY <1>2, <2>2
      <4>2. cursor[g] \in ToSet(s) => Pos(g, cursor[g]) \in DOMAIN s
        BY PosInRing
      <4> QED BY <4>1, <4>2
    <3>2. \A j, k \in DOMAIN s : s[j] = s[k] => j = k
      BY DEF Inv, TreeInv, RingsInjective
    <3>3. r = InsertAt(s, i, n)
      BY <2>2
    <3>4. n \notin ToSet(s)
      BY <1>3
    <3> HIDE DEF s, i, r
    <3> DEFINE q == InsertAt(s, i, n)
    <3>5. /\ q \in Seq(Node) /\ q # <<>> /\ ToSet(q) = ToSet(s) \cup {n}
          /\ \A j, k \in DOMAIN q : q[j] = q[k] => j = k
      BY <1>2, <3>1, <3>2, <3>4, Insertion
    <3>6. r = q
      BY <3>3
    <3> HIDE DEF q
    <3> QED BY <3>5, <3>6, Zenon
  <2> QED BY <2>1, <2>2
<1> HIDE DEF r, s
<1>5. kids'[g] = r /\ \A f \in Group \ {g} : kids'[f] = kids[f]
  BY <1>1, <1>2
<1>6. state'[n] = "Ready" /\ \A x \in Node \ {n} : state'[x] = state[x]
  BY <1>1 DEF Inv, TreeTypeOK
<1>7. parent'[n] = g /\ \A x \in Node \ {n} : parent'[x] = parent[x]
  BY <1>1 DEF Inv, TreeTypeOK
<1>8. n # Root /\ n # g /\ Root \in Node /\ Group \subseteq Node
  BY <1>1, TreeAssumption DEF Inv, TreeInv, LinkedIffLive, Live, Node
<1>9. TreeTypeOK'
  <2>1. kids' \in [Group -> Seq(Node)]
    BY <1>1, <1>2, <1>4
  <2>2. rem' \in [Node -> Nat] /\ togo' \in [Node -> Nat \cup {Never}]
    BY <1>1, TreeAssumption DEF Inv, TreeTypeOK, Never
  <2>3. active' \in Nat /\ nodes' \in Nat
    BY <1>1 DEF Inv, TreeTypeOK, ActiveAfterSpawn, Bump
  <2>4. /\ state' \in [Node -> Live \cup {"Dead", "Free"}]
        /\ parent' \in [Node -> Group \cup {Null}]
        /\ blockedOn' \in [Node -> Resource \cup {Null}]
    BY <1>1 DEF Inv, TreeTypeOK, Live
  <2>5. /\ cursor' \in [Group -> Node \cup {Null}] /\ ringHead' \in Node \cup {Null}
        /\ current' \in Leaf \cup {Null} /\ pending' \subseteq Leaf
    BY <1>1 DEF Inv, TreeTypeOK
  <2> QED BY <2>1, <2>2, <2>3, <2>4, <2>5 DEF TreeTypeOK
<1>10. RingsInjective'
  BY <1>4, <1>5 DEF Inv, TreeInv, RingsInjective
<1>11. \A f \in Group : ToSet(kids[f]) \subseteq Node
  BY <1>2 DEF ToSet
<1>12. LinkedIffLive'
  <2>1. ASSUME NEW f \in Group, NEW x \in ToSet(kids'[f])
        PROVE  parent'[x] = f /\ state'[x] \in Live
    <3>1. CASE x = n
      BY <1>3, <1>5, <1>6, <1>7, <3>1 DEF Live
    <3>2. CASE x # n
      <4>1. x \in ToSet(kids[f])
        BY <1>4, <1>5, <3>2 DEF s
      <4> QED BY <1>6, <1>7, <1>11, <3>2, <4>1 DEF Inv, TreeInv, LinkedIffLive
    <3> QED BY <3>1, <3>2
  <2>2. ASSUME NEW x \in Node \ {Root}, state'[x] \in Live
        PROVE  parent'[x] \in Group /\ x \in ToSet(kids'[parent'[x]])
    <3>1. CASE x = n
      BY <1>4, <1>5, <1>7, <3>1
    <3>2. CASE x # n
      <4>1. parent[x] \in Group /\ x \in ToSet(kids[parent[x]])
        BY <1>6, <2>2, <3>2 DEF Inv, TreeInv, LinkedIffLive
      <4> QED BY <1>4, <1>5, <1>7, <3>2, <4>1 DEF s
    <3> QED BY <3>1, <3>2
  <2>3. parent'[Root] = Null /\ state'[Root] \in Live
    BY <1>6, <1>7, <1>8 DEF Inv, TreeInv, LinkedIffLive
  <2> QED BY <2>1, <2>2, <2>3 DEF LinkedIffLive
<1>13. CursorInRing'
  <2> SUFFICES ASSUME NEW f \in Group
               PROVE  IF kids'[f] = <<>> THEN cursor'[f] = Null ELSE cursor'[f] \in ToSet(kids'[f])
    BY DEF CursorInRing
  <2>1. IF kids[f] = <<>> THEN cursor[f] = Null ELSE cursor[f] \in ToSet(kids[f])
    BY DEF Inv, TreeInv, CursorInRing
  <2>2. CASE f = g
    <3>1. cursor'[g] = IF cursor[g] = Null THEN n ELSE cursor[g]
      BY <1>1 DEF Inv, TreeTypeOK
    <3> QED BY <1>4, <1>5, <2>1, <2>2, <3>1 DEF s
  <2>3. CASE f # g
    BY <1>1, <1>5, <2>1, <2>3 DEF Inv, TreeTypeOK
  <2> QED BY <2>2, <2>3
<1>14. RingHeadInRing'
  BY <1>1, <1>4, <1>5, TreeAssumption DEF Inv, TreeInv, RingHeadInRing
<1>15. CurrentIsLive'
  BY <1>1, <1>6, TreeAssumption DEF Inv, TreeTypeOK, TreeInv, CurrentIsLive, Live, Node
<1>16. PendingIsDead'
  BY <1>1, <1>6 DEF Inv, TreeInv, PendingIsDead
<1> QED BY <1>9, <1>10, <1>12, <1>13, <1>14, <1>15, <1>16 DEF Inv, TreeInv

\* exit_task moves every reference off the task it unlinks.
LEMMA ExitInv ==
  ASSUME Inv, NEW me \in Leaf, exit_task(me)
  PROVE  Inv'
<1> DEFINE g    == parent[me]
           s    == kids[g]
           i    == Pos(g, me)
           succ == IF Len(s) = 1 THEN Null ELSE Succ(g, me)
           r    == RemoveAt(s, i)
<1>1. /\ me = current /\ state[me] \in Live
      /\ state' = [state EXCEPT ![me] = "Dead"]
      /\ kids' = [kids EXCEPT ![g] = r]
      /\ cursor' = CursorAfterExit(g, me, succ)
      /\ ringHead' = IF g = Root THEN succ ELSE ringHead
      /\ current' = Null
      /\ active' = IF active > 0 THEN active - 1 ELSE 0
      /\ pending' = pending \cup {me}
      /\ UNCHANGED <<parent, rem, blockedOn, togo, nodes>>
  BY DEF exit_task, Leave
<1>2. me \in Node /\ me # Root /\ state[me] \in Live
  BY <1>1, TreeAssumption DEF CanRun, Live, Node
<1>3. g \in Group /\ me \in ToSet(s)
  BY <1>2 DEF Inv, TreeInv, LinkedIffLive
<1>4. kids \in [Group -> Seq(Node)] /\ s \in Seq(Node)
  BY <1>3 DEF Inv, TreeTypeOK
<1>5. i \in DOMAIN s /\ s[i] = me
  BY <1>3, PosInRing
<1>6. \A j, k \in DOMAIN s : s[j] = s[k] => j = k
  BY <1>3 DEF Inv, TreeInv, RingsInjective
<1>7. Len(s) # 1 => Succ(g, me) \in ToSet(s) \ {me}
  BY <1>3, LapFacts DEF Inv, TreeInv
<1> HIDE DEF g, s, i
<1>8. /\ r \in Seq(Node) /\ Len(r) = Len(s) - 1 /\ ToSet(r) = ToSet(s) \ {me}
      /\ \A j, k \in DOMAIN r : r[j] = r[k] => j = k
  BY <1>4, <1>5, <1>6, Removal
<1>9. IF r = <<>> THEN succ = Null ELSE succ \in ToSet(r)
  <2>1. Len(s) \in Nat
    BY <1>4
  <2>2. (r = <<>>) = (Len(s) = 1)
    BY <1>8, <2>1
  <2> QED BY <1>7, <1>8, <2>2
<1> HIDE DEF r, succ
<1>10. kids'[g] = r /\ \A f \in Group \ {g} : kids'[f] = kids[f]
  BY <1>1, <1>3, <1>4
<1>11. state'[me] = "Dead" /\ \A x \in Node \ {me} : state'[x] = state[x]
  BY <1>1, <1>2 DEF Inv, TreeTypeOK
<1>12. \A f \in Group : cursor'[f] = IF f = g /\ cursor[f] = me THEN succ ELSE cursor[f]
  BY <1>1, <1>3 DEF CursorAfterExit, Inv, TreeTypeOK
<1>13. succ \in Node \cup {Null}
  BY <1>4, <1>8, <1>9 DEF ToSet
<1>14. TreeTypeOK'
  <2>1. kids' \in [Group -> Seq(Node)]
    BY <1>1, <1>3, <1>4, <1>8
  <2>2. cursor' \in [Group -> Node \cup {Null}]
    BY <1>1, <1>13 DEF CursorAfterExit, Inv, TreeTypeOK
  <2>3. state' \in [Node -> Live \cup {"Dead", "Free"}]
    BY <1>1 DEF Inv, TreeTypeOK
  <2>4. active' \in Nat
    BY <1>1 DEF Inv, TreeTypeOK
  <2> QED BY <1>1, <1>13, <2>1, <2>2, <2>3, <2>4 DEF Inv, TreeTypeOK
<1>15. RingsInjective'
  BY <1>8, <1>10 DEF Inv, TreeInv, RingsInjective
<1>16. \A f \in Group : ToSet(kids[f]) \subseteq Node
  BY <1>4 DEF ToSet
<1>17. \A f \in Group : \A x \in ToSet(kids[f]) : parent[x] = f /\ state[x] \in Live
  BY DEF Inv, TreeInv, LinkedIffLive
<1>18. LinkedIffLive'
  <2>1. ASSUME NEW f \in Group, NEW x \in ToSet(kids'[f])
        PROVE  parent'[x] = f /\ state'[x] \in Live
    <3>1. x \in ToSet(kids[f]) /\ x # me
      <4>1. CASE f = g
        BY <1>8, <1>10, <4>1 DEF s
      <4>2. CASE f # g
        BY <1>10, <1>17, <4>2 DEF g
      <4> QED BY <4>1, <4>2
    <3> QED BY <1>1, <1>11, <1>16, <1>17, <3>1
  <2>2. ASSUME NEW x \in Node \ {Root}, state'[x] \in Live
        PROVE  parent'[x] \in Group /\ x \in ToSet(kids'[parent'[x]])
    <3>1. x # me
      BY <1>11, <2>2 DEF Live
    <3>2. parent[x] \in Group /\ x \in ToSet(kids[parent[x]])
      BY <1>11, <2>2, <3>1 DEF Inv, TreeInv, LinkedIffLive
    <3>3. CASE parent[x] = g
      BY <1>1, <1>8, <1>10, <3>1, <3>2, <3>3 DEF s
    <3>4. CASE parent[x] # g
      BY <1>1, <1>10, <3>2, <3>4
    <3> QED BY <3>3, <3>4
  <2>3. parent'[Root] = Null /\ state'[Root] \in Live
    BY <1>1, <1>2, <1>11, TreeAssumption DEF Inv, TreeInv, LinkedIffLive, Node
  <2> QED BY <2>1, <2>2, <2>3 DEF LinkedIffLive
<1>19. CursorInRing'
  <2> SUFFICES ASSUME NEW f \in Group
               PROVE  IF kids'[f] = <<>> THEN cursor'[f] = Null ELSE cursor'[f] \in ToSet(kids'[f])
    BY DEF CursorInRing
  <2>1. IF kids[f] = <<>> THEN cursor[f] = Null ELSE cursor[f] \in ToSet(kids[f])
    BY DEF Inv, TreeInv, CursorInRing
  <2>2. CASE f = g /\ cursor[f] = me
    BY <1>9, <1>10, <1>12, <2>2
  <2>3. CASE f = g /\ cursor[f] # me
    <3>1. s # <<>>
      BY <1>5
    <3>2. cursor[g] \in ToSet(r)
      BY <1>8, <2>1, <2>3, <3>1 DEF s
    <3>3. r # <<>>
      BY <3>2 DEF ToSet
    <3> QED BY <1>10, <1>12, <2>3, <3>2, <3>3
  <2>4. CASE f # g
    BY <1>10, <1>12, <2>1, <2>4
  <2> QED BY <2>2, <2>3, <2>4
<1>20. RingHeadInRing'
  BY <1>1, <1>9, <1>10, TreeAssumption DEF Inv, TreeInv, RingHeadInRing
<1>21. CurrentIsLive'
  BY <1>1 DEF CurrentIsLive
<1>22. PendingIsDead'
  BY <1>1, <1>2, <1>11 DEF Inv, TreeInv, PendingIsDead
<1> QED BY <1>14, <1>15, <1>18, <1>19, <1>20, <1>21, <1>22 DEF Inv, TreeInv

\* Every step of the kernel keeps the tree well formed.
LEMMA NextInv ==
  ASSUME Inv, [Next]_tree
  PROVE  Inv'
<1>1. CASE on_tick
  BY <1>1, TickInv
<1>2. ASSUME NEW freed \in SUBSET pending,
             schedule_next(PickNextLeaf(LinkedCurrent), freed) \/ reclaim_finished_tasks(freed)
      PROVE  Inv'
  BY <1>2, ScheduleInv, ReclaimInv
<1>3. ASSUME NEW n \in Node, NEW g \in Group, Spawn(n, g)
      PROVE  Inv'
  BY <1>3, SpawnInv
<1>4. CASE SpawnFails
  <2>1. nodes' \in Nat
    BY <1>4 DEF SpawnFails, Bump, Inv, TreeTypeOK
  <2> QED BY <1>4, <2>1 DEF SpawnFails, Inv, TreeTypeOK, TreeInv, RingsInjective,
             LinkedIffLive, CursorInRing, RingHeadInRing, CurrentIsLive, PendingIsDead
<1>5. ASSUME NEW r \in Resource \cup {Null}, NEW t \in Sleeps \cup {Never},
             mark_blocked_locked(r, t)
      PROVE  Inv'
  BY <1>5, BlockInv
<1>6. ASSUME NEW n \in Leaf, wake_task(n) \/ exit_task(n)
      PROVE  Inv'
  <2>1. CASE wake_task(n)
    <3>1. \A x \in {n} : state[x] = "Blocked"
      BY <2>1 DEF wake_task
    <3> QED BY <2>1, <3>1, WakeInv DEF wake_task
  <2> QED BY <1>6, <2>1, ExitInv
<1>7. ASSUME NEW r \in Resource, wake_blocked_on(r) \/ wake_first_blocked_on(r)
      PROVE  Inv'
  <2>1. ASSUME NEW S, Wake(S), S \subseteq BlockedOn(r)
        PROVE  Inv'
    <3>1. \A n \in S : state[n] = "Blocked"
      BY <2>1 DEF BlockedOn
    <3> QED BY <2>1, <3>1, WakeInv
  <2>2. CASE wake_blocked_on(r)
    <3>1. Wake(BlockedOn(r) \cap Walked)
      BY <2>2 DEF wake_blocked_on
    <3> QED BY <2>1, <3>1
  <2>3. CASE wake_first_blocked_on(r)
    <3>1. PICK i \in DOMAIN Walk : Walk[i] \in BlockedOn(r) /\ Wake({Walk[i]})
      BY <2>3 DEF wake_first_blocked_on
    <3> QED BY <2>1, <3>1
  <2> QED BY <1>7, <2>2, <2>3
<1>8. CASE UNCHANGED tree
  BY <1>8 DEF tree, Inv, TreeTypeOK, TreeInv, RingsInjective, LinkedIffLive,
              CursorInRing, RingHeadInRing, CurrentIsLive, PendingIsDead
<1> QED BY <1>1, <1>2, <1>3, <1>4, <1>5, <1>6, <1>7, <1>8 DEF Next

\* The tree stays well typed, and no ring, cursor, ring_head or current ever
\* refers to a TCB that exit_task unlinked or that went back to the arena.
THEOREM TreeSafe == Spec => [](TreeTypeOK /\ TreeInv)
<1>1. Init => Inv
  BY InitInv
<1>2. Inv /\ [Next]_tree => Inv'
  BY NextInv
<1> QED BY <1>1, <1>2, PTL DEF Spec, Inv

-----------------------------------------------------------------------------
(* active_threads *)

LiveLeaves == {n \in Leaf : state[n] \in Live}

\* Steps that end and begin no task leave the set of live leaves alone.
LEMMA SameLeaves ==
  ASSUME Inv, ActiveCountsLeaves, active' = active,
         \A n \in Leaf : (state'[n] \in Live) = (state[n] \in Live)
  PROVE  ActiveCountsLeaves'
BY DEF ActiveCountsLeaves

\* Only a leaf spawn and an exit change active_threads and the live leaves.
LEMMA NextActive ==
  ASSUME Inv, ActiveCountsLeaves, [Next]_tree
  PROVE  ActiveCountsLeaves'
<1> USE TreeAssumption DEF Node
<1>0. IsFiniteSet(LiveLeaves) /\ active = Cardinality(LiveLeaves)
  <2>1. LiveLeaves \subseteq Leaf
    BY DEF LiveLeaves
  <2> QED BY <2>1, FS_Subset DEF ActiveCountsLeaves, LiveLeaves
<1>1. CASE on_tick
  BY <1>1, SameLeaves DEF on_tick, MakeReady, Expired, Live
<1>2. ASSUME NEW freed \in SUBSET pending, reclaim_finished_tasks(freed)
      PROVE  ActiveCountsLeaves'
  <2>1. \A n \in freed : state[n] = "Dead"
    BY <1>2 DEF Inv, TreeInv, PendingIsDead
  <2> QED BY <1>2, <2>1, SameLeaves DEF reclaim_finished_tasks, Live
<1>3. ASSUME NEW freed \in SUBSET pending, schedule_next(PickNextLeaf(LinkedCurrent), freed)
      PROVE  ActiveCountsLeaves'
  <2> DEFINE next == PickNextLeaf(LinkedCurrent).leaf
  <2>1. LinkedCurrent \in Leaf \cup {Null} /\ (LinkedCurrent # Null => state[LinkedCurrent] \in Live)
    BY DEF LinkedCurrent, IsLinked, Inv, TreeTypeOK, TreeInv, LinkedIffLive
  <2>2. next # Null => state[next] \in {"Ready", "Running"}
    BY <2>1, PickNextLeafOK DEF PickOK, CanRun
  <2>3. \A n \in freed : state[n] = "Dead"
    BY <1>3 DEF Inv, TreeInv, PendingIsDead
  <2>4. /\ state' = [n \in Node |->
                     CASE n \in freed -> "Free"
                       [] n \notin freed /\ n = next /\ next # LinkedCurrent -> "Running"
                       [] n \notin freed /\ n = LinkedCurrent /\ next \notin {LinkedCurrent, Null}
                            /\ state[n] = "Running" -> "Ready"
                       [] OTHER -> state[n]]
        /\ active' = active
    BY <1>3 DEF schedule_next
  <2> HIDE DEF next
  <2>5. \A n \in Leaf : (state'[n] \in Live) = (state[n] \in Live)
    BY <2>1, <2>2, <2>3, <2>4 DEF Live
  <2> QED BY <2>4, <2>5, SameLeaves
<1>4. ASSUME NEW n \in Node, NEW g \in Group, Spawn(n, g)
      PROVE  ActiveCountsLeaves'
  <2>1. state[n] = "Free" /\ state' = [state EXCEPT ![n] = "Ready"] /\ active' = ActiveAfterSpawn(n)
    BY <1>4 DEF Spawn
  <2>2. CASE n \notin Leaf
    BY <2>1, <2>2, SameLeaves DEF Inv, TreeTypeOK, ActiveAfterSpawn
  <2>3. CASE n \in Leaf
    <3>1. n \notin LiveLeaves /\ LiveLeaves' = LiveLeaves \cup {n}
      BY <2>1, <2>3 DEF LiveLeaves, Live, Inv, TreeTypeOK
    <3>2. Cardinality(LiveLeaves') = Cardinality(LiveLeaves) + 1
      BY <1>0, <3>1, FS_AddElement
    <3>3. active' = active + 1
      BY <2>1, <2>3 DEF ActiveAfterSpawn
    <3> QED BY <1>0, <3>2, <3>3 DEF ActiveCountsLeaves, LiveLeaves
  <2> QED BY <2>2, <2>3
<1>5. CASE SpawnFails
  BY <1>5, SameLeaves DEF SpawnFails
<1>6. ASSUME NEW r \in Resource \cup {Null}, NEW t \in Sleeps \cup {Never},
             mark_blocked_locked(r, t)
      PROVE  ActiveCountsLeaves'
  BY <1>6, SameLeaves DEF mark_blocked_locked, Inv, TreeTypeOK, TreeInv, CurrentIsLive, Live
<1>7. ASSUME NEW S, Wake(S), \A n \in S : state[n] = "Blocked"
      PROVE  ActiveCountsLeaves'
  BY <1>7, SameLeaves DEF Wake, MakeReady, Live
<1>8. ASSUME NEW me \in Leaf, exit_task(me)
      PROVE  ActiveCountsLeaves'
  <2>1. /\ state[me] \in Live /\ state' = [state EXCEPT ![me] = "Dead"]
        /\ active' = IF active > 0 THEN active - 1 ELSE 0
    BY <1>8 DEF exit_task, Leave
  <2>2. me \in LiveLeaves /\ LiveLeaves' = LiveLeaves \ {me}
    BY <2>1 DEF LiveLeaves, Live, CanRun, Inv, TreeTypeOK
  <2>3. Cardinality(LiveLeaves') = Cardinality(LiveLeaves) - 1
    BY <1>0, <2>2, FS_RemoveElement
  <2>4. Cardinality(LiveLeaves') \in Nat
    BY <1>0, <2>2, FS_RemoveElement, FS_CardinalityType
  <2>5. active \in Nat
    BY DEF Inv, TreeTypeOK
  <2>6. active' = active - 1
    BY <1>0, <2>1, <2>3, <2>4, <2>5
  <2> QED BY <1>0, <2>3, <2>6 DEF ActiveCountsLeaves, LiveLeaves
<1>9. ASSUME NEW n \in Leaf, wake_task(n)
      PROVE  ActiveCountsLeaves'
  <2>1. Wake({n}) /\ \A x \in {n} : state[x] = "Blocked"
    BY <1>9 DEF wake_task
  <2> QED BY <1>7, <2>1
<1>10. ASSUME NEW r \in Resource, wake_blocked_on(r)
       PROVE  ActiveCountsLeaves'
  <2>1. Wake(BlockedOn(r) \cap Walked) /\ \A x \in BlockedOn(r) \cap Walked : state[x] = "Blocked"
    BY <1>10 DEF wake_blocked_on, BlockedOn
  <2> QED BY <1>7, <2>1
<1>11. ASSUME NEW r \in Resource, wake_first_blocked_on(r)
       PROVE  ActiveCountsLeaves'
  <2>1. PICK i \in DOMAIN Walk : Walk[i] \in BlockedOn(r) /\ Wake({Walk[i]})
    BY <1>11 DEF wake_first_blocked_on
  <2>2. \A x \in {Walk[i]} : state[x] = "Blocked"
    BY <2>1 DEF BlockedOn
  <2> QED BY <1>7, <2>1, <2>2
<1>12. CASE UNCHANGED tree
  BY <1>12 DEF tree, ActiveCountsLeaves
<1> QED BY <1>1, <1>2, <1>3, <1>4, <1>5, <1>6, <1>8, <1>9, <1>10, <1>11, <1>12 DEF Next

\* active_threads is the number of live leaves in every reachable state.
THEOREM ActiveIsExact == Spec => []ActiveCountsLeaves
<1>1. Init => Inv /\ ActiveCountsLeaves
  <2> SUFFICES ASSUME Init PROVE ActiveCountsLeaves
    BY InitInv
  <2>1. {n \in Leaf : state[n] \in Live} = {Main}
    BY TreeAssumption DEF Init, Live, Node
  <2> QED BY <2>1, FS_Singleton DEF ActiveCountsLeaves, Init
<1>2. Inv /\ ActiveCountsLeaves /\ [Next]_tree => (Inv /\ ActiveCountsLeaves)'
  BY NextInv, NextActive
<1> QED BY <1>1, <1>2, PTL DEF Spec

-----------------------------------------------------------------------------
(* Quanta *)

\* No step but a tick on the running path takes time from a live node, and
\* none but an arm from zero gives it any: a preempted child keeps its rest.
THEOREM LeftoversSurvive == Spec => LeftoverKept
<1> DEFINE Kept == \A n \in Node : state[n] \in Live /\ rem'[n] # rem[n] =>
                     \/ rem'[n] = rem[n] - 1 /\ n \in Path(current)
                     \/ rem[n] = 0 /\ rem'[n] = Quantum[n]
<1>1. ASSUME Inv, on_tick PROVE Kept
  <2>1. rem' = [n \in Node |-> IF n \in Drained THEN Spend(n) ELSE rem[n]]
    BY <1>1 DEF on_tick
  <2>2. rem \in [Node -> Nat] /\ Drained \subseteq Path(current)
    BY <1>1 DEF Inv, TreeTypeOK, Drained
  <2> QED BY <2>1, <2>2 DEF Spend
<1>2. \A c, adv, e : \A n \in Node :
        Outcome(c, adv, e).rem[n] \in {rem[n], Arm(n)}
  BY DEF Outcome
<1>3. \A cur : \A n \in Node : PickNextLeaf(cur).rem[n] \in {rem[n], Arm(n)}
  BY <1>2 DEF PickNextLeaf
<1>4. ASSUME Inv, NEW freed \in SUBSET pending,
             schedule_next(PickNextLeaf(LinkedCurrent), freed)
      PROVE  Kept
  <2>1. \A n \in freed : state[n] \notin Live
    BY <1>4 DEF Inv, TreeInv, PendingIsDead, Live
  <2>2. rem' = Forget(PickNextLeaf(LinkedCurrent).rem, freed, 0)
    BY <1>4 DEF schedule_next
  <2> QED BY <1>3, <2>1, <2>2 DEF Forget, Arm
<1>5. ASSUME Inv, NEW freed \in SUBSET pending, reclaim_finished_tasks(freed)
      PROVE  Kept
  BY <1>5 DEF Inv, TreeInv, PendingIsDead, Live, reclaim_finished_tasks, Forget
<1>6. ASSUME Inv, NEW n \in Node, NEW g \in Group, Spawn(n, g)
      PROVE  Kept
  BY <1>6 DEF Spawn, Inv, TreeTypeOK, Live
<1>7. ASSUME UNCHANGED rem PROVE Kept
  BY <1>7
<1>8. ASSUME Inv, Next PROVE Kept
  BY <1>1, <1>4, <1>5, <1>6, <1>7, <1>8 DEF Next, SpawnFails, mark_blocked_locked,
     wake_task, wake_blocked_on, wake_first_blocked_on, Wake, exit_task, Leave
<1>9. Inv /\ [Next]_tree => [Kept]_tree
  BY <1>8
<1>10. Init => Inv
  BY InitInv
<1>11. Inv /\ [Next]_tree => Inv'
  BY NextInv
<1> QED BY <1>9, <1>10, <1>11, PTL DEF Spec, LeftoverKept

-----------------------------------------------------------------------------
(* Paths.  What Up and Descent return is known once every node has a finite *)
(* path to the root.  U gives that path; that there is such a U, no longer  *)
(* anywhere than D, is part of the invariant.                               *)

Paths(U, D) ==
  /\ U \in [Node \cup {Null} -> Seq(Node)] /\ D \in Nat
  /\ U[Null] = <<>>
  /\ \A x \in Node : U[x] = <<x>> \o U[parent[x]]
  /\ \A x \in Node : Len(U[x]) =< D

\* A parent is a group that runs, and groups never stop.
GroupsReady ==
  /\ \A g \in Group : state[g] \in {"Ready", "Free"}
  /\ \A n \in Node : parent[n] # Null => state[parent[n]] = "Ready"

\* The root's window outlasts the horizon.
RootKept == ~RootDrains => rem[Root] > 0

PathInv == GroupsReady /\ RootKept /\ \E U, D : Paths(U, D)

\* A parent's path is the shorter by one.
LEMMA PathLength ==
  ASSUME Inv, NEW U, NEW D, Paths(U, D), NEW x \in Node
  PROVE  /\ parent[x] \in Node \cup {Null} /\ U[parent[x]] \in Seq(Node)
         /\ Len(U[x]) = Len(U[parent[x]]) + 1 /\ Len(U[x]) \in Nat
         /\ Len(U[parent[x]]) \in Nat
<1>1. parent[x] \in Node \cup {Null}
  BY DEF Inv, TreeTypeOK, Node
<1>2. U[parent[x]] \in Seq(Node) /\ U[x] \in Seq(Node) /\ U[x] = <<x>> \o U[parent[x]]
  BY <1>1 DEF Paths
<1> HIDE DEF Paths
<1>3. <<x>> \in Seq(Node) /\ Len(<<x>>) = 1
  OBVIOUS
<1>4. Len(<<x>> \o U[parent[x]]) = 1 + Len(U[parent[x]])
  BY <1>2, <1>3, ConcatProperties
<1>5. Len(U[parent[x]]) \in Nat
  BY <1>2, LenProperties
<1> QED BY <1>1, <1>2, <1>4, <1>5

\* Induction along the paths: a set of nodes has one whose parent is outside
\* it, and one that is the parent of none of them.
LEMMA PathEnds ==
  ASSUME Inv, NEW U, NEW D, Paths(U, D), NEW S \in SUBSET Node, S # {}
  PROVE  /\ \E x \in S : parent[x] \notin S
         /\ \E x \in S : \A y \in S : parent[y] # x
<1> DEFINE short == {Len(U[x]) : x \in S}
           long  == {D - Len(U[x]) : x \in S}
<1>1. \A x \in S : /\ Len(U[x]) \in Nat /\ D - Len(U[x]) \in Nat
                   /\ Len(U[x]) = Len(U[parent[x]]) + 1 /\ Len(U[parent[x]]) \in Nat
  <2> TAKE x \in S
  <2>1. /\ Len(U[x]) \in Nat /\ Len(U[x]) = Len(U[parent[x]]) + 1 /\ Len(U[parent[x]]) \in Nat
    BY PathLength
  <2>2. D \in Nat /\ Len(U[x]) =< D
    BY DEF Paths
  <2> QED BY <2>1, <2>2
<1>2. D \in Nat
  BY DEF Paths
<1>3. \E x \in S : parent[x] \notin S
  <2>1. short \subseteq Nat /\ short # {}
    BY <1>1
  <2>2. Min(short) \in short /\ \A y \in short : Min(short) =< y
    BY <2>1, MinInSet
  <2>3. PICK x \in S : \A y \in S : Len(U[x]) =< Len(U[y])
    BY <2>2
  <2> QED BY <1>1, <2>3
<1>4. \E x \in S : \A y \in S : parent[y] # x
  <2>1. long \subseteq Nat /\ long # {}
    BY <1>1
  <2>2. Min(long) \in long /\ \A y \in long : Min(long) =< y
    BY <2>1, MinInSet
  <2>3. PICK x \in S : \A y \in S : D - Len(U[x]) =< D - Len(U[y])
    BY <2>2
  <2>4. \A y \in S : Len(U[y]) =< Len(U[x])
    <3> TAKE y \in S
    <3>1. Len(U[x]) \in Nat /\ Len(U[y]) \in Nat /\ D - Len(U[x]) =< D - Len(U[y])
      BY <1>1, <2>3
    <3> QED BY <1>2, <3>1
  <2>5. \A y \in S : parent[y] # x
    <3>1. \A y \in S : Len(U[parent[y]]) + 1 =< Len(U[x])
      BY <1>1, <2>4
    <3> QED BY <1>1, <3>1
  <2> QED BY <2>5
<1> QED BY <1>3, <1>4

\* Up computes those paths.
LEMMA UpIs ==
  ASSUME Inv, NEW U, NEW D, Paths(U, D), NEW n \in Node \cup {Null}
  PROVE  Up(n) = U[n]
<1> DEFINE Step(f) == [x \in Node \cup {Null} |-> IF x = Null THEN <<>> ELSE <<x>> \o f[parent[x]]]
           up == CHOOSE f : f = Step(f)
           wrong == {x \in Node : up[x] # U[x]}
<1>1. U = Step(U) /\ Null \notin Node
  BY TreeAssumption DEF Paths
<1>2. up = Step(up)
  BY <1>1
<1>3. Up(n) = up[n]
  BY DEF Up, up
<1> HIDE DEF up
<1>4. up[Null] = U[Null]
  BY <1>1, <1>2
<1>5. ASSUME wrong # {} PROVE FALSE
  <2>1. PICK x \in wrong : parent[x] \notin wrong
    BY <1>5, PathEnds
  <2>2. parent[x] \in Node \cup {Null}
    BY <2>1, PathLength
  <2>3. up[parent[x]] = U[parent[x]]
    BY <1>4, <2>1, <2>2
  <2>4. up[x] = <<x>> \o up[parent[x]] /\ U[x] = <<x>> \o U[parent[x]]
    BY <1>1, <1>2, <2>1
  <2> QED BY <2>1, <2>3, <2>4
<1> QED BY <1>3, <1>4, <1>5

\* A path is the node and its parent's path.
LEMMA UpStep ==
  ASSUME Inv, PathInv, NEW x \in Node
  PROVE  /\ parent[x] \in Group \cup {Null}
         /\ Up(Null) = <<>> /\ Up(parent[x]) \in Seq(Node)
         /\ Up(x) = <<x>> \o Up(parent[x])
         /\ Path(x) = {x} \cup Path(parent[x])
<1>1. PICK U, D : Paths(U, D)
  BY DEF PathInv
<1>2. parent[x] \in Group \cup {Null} /\ parent[x] \in Node \cup {Null}
  BY DEF Inv, TreeTypeOK, Node
<1>3. Up(Null) = U[Null] /\ Up(x) = U[x] /\ Up(parent[x]) = U[parent[x]]
  BY <1>1, <1>2, UpIs
<1>4. Up(Null) = <<>> /\ Up(parent[x]) \in Seq(Node) /\ Up(x) = <<x>> \o Up(parent[x])
  BY <1>1, <1>2, <1>3 DEF Paths
<1> DEFINE s == Up(parent[x])
<1> HIDE DEF s
<1>5. ToSet(<<x>> \o s) = {x} \cup ToSet(s)
  <2>1. s \in Seq(Node) /\ <<x>> \in Seq(Node) /\ Len(<<x>>) = 1 /\ <<x>>[1] = x
    BY <1>4 DEF s
  <2>2. /\ Len(<<x>> \o s) = 1 + Len(s) /\ DOMAIN (<<x>> \o s) = 1..1 + Len(s)
        /\ \A i \in 1..1 + Len(s) : (<<x>> \o s)[i] = IF i =< 1 THEN <<x>>[i] ELSE s[i - 1]
    BY <2>1, ConcatProperties
  <2>3. DOMAIN s = 1..Len(s) /\ Len(s) \in Nat
    BY <2>1
  <2>4. \A i \in 1..Len(s) : (<<x>> \o s)[i + 1] = s[i]
    BY <2>2, <2>3
  <2>5. (<<x>> \o s)[1] = x
    BY <2>1, <2>2, <2>3
  <2>6. \A i \in 2..1 + Len(s) : i - 1 \in 1..Len(s) /\ (<<x>> \o s)[i] = s[i - 1]
    BY <2>2, <2>3
  <2>7. \A i \in 1..Len(s) : i + 1 \in 1..1 + Len(s)
    BY <2>3
  <2>8. 1 \in 1..1 + Len(s) /\ \A i \in 1..1 + Len(s) : i = 1 \/ i \in 2..1 + Len(s)
    BY <2>3
  <2> HIDE DEF s
  <2> DEFINE w == <<x>> \o s
             L == Len(s)
  <2>9. /\ DOMAIN w = 1..1 + L /\ DOMAIN s = 1..L /\ w[1] = x
        /\ \A i \in 2..1 + L : i - 1 \in 1..L /\ w[i] = s[i - 1]
        /\ \A i \in 1..L : i + 1 \in 1..1 + L /\ w[i + 1] = s[i]
        /\ 1 \in 1..1 + L /\ \A i \in 1..1 + L : i = 1 \/ i \in 2..1 + L
    BY <2>2, <2>3, <2>4, <2>5, <2>6, <2>7, <2>8
  <2> HIDE DEF w, L
  <2>10. ToSet(w) = {x} \cup ToSet(s)
    BY <2>9 DEF ToSet
  <2> QED BY <2>10 DEF w
<1>6. x \in Node
  OBVIOUS
<1> QED BY <1>2, <1>4, <1>5, <1>6 DEF Path, s

\* Above a node's i-th ancestor lie the later ones, and they are its path.
LEMMA PathAbove ==
  ASSUME Inv, PathInv, NEW x \in Node, NEW i \in 1..Len(Up(x))
  PROVE  /\ Up(x)[i] \in Node /\ Len(Up(x)) \in Nat
         /\ Path(parent[Up(x)[i]]) \subseteq {Up(x)[j] : j \in i + 1..Len(Up(x))}
         /\ Path(Up(x)[i]) \subseteq Path(x)
<1> DEFINE Above(y, k) == Path(parent[Up(y)[k]]) \subseteq {Up(y)[j] : j \in k + 1..Len(Up(y))}
           wrong == {y \in Node : \E k \in 1..Len(Up(y)) : ~Above(y, k)}
<1>1. PICK U, D : Paths(U, D)
  BY DEF PathInv
<1>2. ASSUME NEW y \in Node
      PROVE  /\ Up(y) \in Seq(Node) /\ Up(parent[y]) \in Seq(Node)
             /\ Len(Up(parent[y])) \in Nat /\ Len(Up(y)) = Len(Up(parent[y])) + 1
             /\ Up(y)[1] = y /\ \A k \in 1..Len(Up(parent[y])) : Up(y)[k + 1] = Up(parent[y])[k]
  <2> DEFINE s == Up(parent[y])
             w == <<y>> \o s
  <2>1. s \in Seq(Node) /\ Up(y) = w
    BY UpStep
  <2>2. <<y>> \in Seq(Node) /\ Len(<<y>>) = 1 /\ <<y>>[1] = y
    OBVIOUS
  <2>3. Len(s) \in Nat
    BY <2>1
  <2> HIDE DEF s
  <2>4. /\ w \in Seq(Node) /\ Len(w) = 1 + Len(s)
        /\ \A k \in 1..1 + Len(s) : w[k] = IF k =< 1 THEN <<y>>[k] ELSE s[k - 1]
    BY <2>1, <2>2, ConcatProperties
  <2>5. w[1] = y /\ \A k \in 1..Len(s) : w[k + 1] = s[k]
    BY <2>2, <2>3, <2>4
  <2> HIDE DEF w
  <2> QED BY <2>1, <2>3, <2>4, <2>5 DEF s
<1>3. ASSUME wrong # {} PROVE FALSE
  <2>1. PICK y \in wrong : parent[y] \notin wrong
    BY <1>1, <1>3, PathEnds
  <2>2. PICK k \in 1..Len(Up(y)) : ~Above(y, k)
    BY <2>1
  <2> DEFINE s == Up(parent[y])
             L == Len(s)
             up == Up(y)
  <2>3. /\ L \in Nat /\ Len(up) = L + 1 /\ up[1] = y /\ \A m \in 1..L : up[m + 1] = s[m]
        /\ s \in Seq(Node)
    BY <1>2, <2>1
  <2>4. CASE k = 1
    <3>1. Path(parent[y]) \subseteq {s[m] : m \in 1..L}
      BY <2>3 DEF Path, ToSet
    <3> HIDE DEF s, L, up
    <3>2. \A m \in 1..L : m + 1 \in 1 + 1..L + 1
      BY <2>3
    <3>3. {s[m] : m \in 1..L} \subseteq {up[j] : j \in 1 + 1..L + 1}
      BY <2>3, <3>2
    <3> QED BY <2>2, <2>3, <2>4, <3>1, <3>3 DEF up
  <2>5. CASE k # 1
    <3>1. PICK m \in 1..L : k = m + 1
      <4> HIDE DEF s, L
      <4>1. k - 1 \in 1..L /\ k = (k - 1) + 1
        BY <2>2, <2>3, <2>5
      <4> QED BY <4>1
    <3>2. parent[y] \in Node
      <4>1. parent[y] \in Group \cup {Null} /\ Up(Null) = <<>>
        BY <2>1, UpStep
      <4>2. L # 0
        BY <2>3, <3>1
      <4> QED BY <4>1, <4>2 DEF Node
    <3>3. Path(parent[s[m]]) \subseteq {s[j] : j \in m + 1..L}
      BY <2>1, <3>1, <3>2
    <3> HIDE DEF s, L, up
    <3>4. \A j \in m + 1..L : j \in 1..L /\ j + 1 \in k + 1..L + 1
      BY <2>3, <3>1
    <3>5. {s[j] : j \in m + 1..L} \subseteq {up[j] : j \in k + 1..L + 1}
      BY <2>3, <3>4
    <3>6. up[k] = s[m]
      BY <2>3, <3>1
    <3> QED BY <2>2, <2>3, <3>3, <3>5, <3>6 DEF up
  <2> QED BY <2>4, <2>5
<1>4. Above(x, i)
  BY <1>3
<1>5. Up(x)[i] \in Node /\ Len(Up(x)) \in Nat
  <2>1. Up(x) \in Seq(Node)
    BY <1>2
  <2> QED BY <2>1
<1>6. Path(Up(x)[i]) = {Up(x)[i]} \cup Path(parent[Up(x)[i]])
  BY <1>5, UpStep
<1>7. Up(x)[i] \in Path(x) /\ {Up(x)[j] : j \in i + 1..Len(Up(x))} \subseteq ToSet(Up(x))
  <2>1. DOMAIN Up(x) = 1..Len(Up(x))
    BY <1>2
  <2> QED BY <1>5, <2>1 DEF Path, ToSet
<1>8. Path(parent[Up(x)[i]]) \subseteq Node
  BY DEF Path
<1>9. Path(Up(x)[i]) \subseteq Path(x)
  BY <1>4, <1>6, <1>7, <1>8 DEF Path
<1> QED BY <1>4, <1>5, <1>9

\* The ancestors of a node are groups that can run.
LEMMA AncestorsRun ==
  ASSUME Inv, PathInv, NEW x \in Node
  PROVE  \A y \in Path(parent[x]) : y \in Group /\ y \in CanRun
<1> DEFINE Fine(z) == \A y \in Path(parent[z]) : y \in Group /\ y \in CanRun
           wrong == {z \in Node : ~Fine(z)}
<1>1. PICK U, D : Paths(U, D)
  BY DEF PathInv
<1>2. ASSUME wrong # {} PROVE FALSE
  <2>1. PICK z \in wrong : parent[z] \notin wrong
    BY <1>1, <1>2, PathEnds
  <2>2. CASE parent[z] = Null
    <3>1. z \in Node
      BY <2>1
    <3>2. Up(Null) = <<>>
      BY <3>1, UpStep
    <3>3. Path(Null) = {}
      BY <3>2 DEF Path, ToSet
    <3> QED BY <2>1, <2>2, <3>3
  <2>3. CASE parent[z] # Null
    <3>1. parent[z] \in Group /\ parent[z] \in Node
      BY <2>1, <2>3, UpStep DEF Node
    <3>2. parent[z] \in CanRun
      BY <2>1, <2>3, <3>1 DEF PathInv, GroupsReady, CanRun
    <3>3. Path(parent[z]) = {parent[z]} \cup Path(parent[parent[z]])
      BY <3>1, UpStep
    <3> QED BY <2>1, <3>1, <3>2, <3>3
  <2> QED BY <2>2, <2>3
<1> QED BY <1>2

\* What a descent from each node passes: the least fixed point of the steps
\* down is one, so the function the definition chooses is a fixed point too.
DownStep(c, f) ==
  [x \in Node \cup {Null} |-> IF x \in Group THEN {x} \cup f[ResumeChild(c, x)] ELSE {x}]

Down(c) == CHOOSE f : f = DownStep(c, f)

\* Such a fixed point exists, so Down is one, and Descent is its runnable part.
LEMMA DescentIs ==
  ASSUME Inv, NEW c, CursorsOK(c)
  PROVE  /\ Down(c) = DownStep(c, Down(c))
         /\ \A p : Descent(c, p) = CanRun \cap Down(c)[p]
<1> DEFINE All == Node \cup {Null}
           Closed(S) == \A z \in S \cap Group : ResumeChild(c, z) \in S
           reach == [x \in All |-> {y \in All : \A S \in SUBSET All : x \in S /\ Closed(S) => y \in S}]
<1>1. \A z \in Group : z \in All /\ ResumeChild(c, z) \in All
  <2>1. \A g \in Group : ToSet(kids[g]) \subseteq Node
    BY DEF Inv, TreeTypeOK, ToSet
  <2> QED BY <2>1, ResumeChildInRing DEF Node
<1> HIDE DEF All
<1>2. ASSUME NEW x \in All
      PROVE  reach[x] = IF x \in Group THEN {x} \cup reach[ResumeChild(c, x)] ELSE {x}
  <2>1. x \in reach[x] /\ reach[x] \subseteq All
    OBVIOUS
  <2>2. CASE x \notin Group
    <3>1. {x} \in SUBSET All /\ Closed({x})
      BY <2>2
    <3> QED BY <2>1, <2>2, <3>1
  <2>3. CASE x \in Group
    <3> DEFINE q == ResumeChild(c, x)
               S == {x} \cup reach[q]
    <3>1. q \in All /\ q \in reach[q] /\ reach[q] \subseteq All
      BY <1>1, <2>3
    <3>2. S \in SUBSET All
      BY <3>1
    <3>3. ASSUME NEW z \in reach[q], z \in Group PROVE ResumeChild(c, z) \in reach[q]
      BY <1>1, <3>1, <3>3
    <3>4. Closed(S)
      BY <3>1, <3>3
    <3>5. reach[x] \subseteq S
      BY <3>2, <3>4
    <3>6. reach[q] \subseteq reach[x]
      BY <2>3, <3>1
    <3> QED BY <2>1, <2>3, <3>5, <3>6
  <2> QED BY <2>2, <2>3
<1> HIDE DEF reach
<1>3. reach = DownStep(c, reach)
  <2>1. reach = [x \in All |-> reach[x]]
    BY DEF reach
  <2> QED BY <1>2, <2>1 DEF DownStep, All
<1>4. Down(c) = DownStep(c, Down(c))
  BY <1>3 DEF Down
<1>5. \A p : Descent(c, p) = CanRun \cap Down(c)[p]
  BY DEF Descent, Down, DownStep
<1> QED BY <1>4, <1>5

\* A descent passes all of the path between where it starts and where it gets.
LEMMA DescentPath ==
  ASSUME Inv, PathInv, NEW c, CursorsOK(c), NEW p \in Node, NEW x \in Descent(c, p)
  PROVE  Path(x) \subseteq Descent(c, p) \cup Path(parent[p])
<1> DEFINE f == Down(c)
           Fine(q) == \A y \in f[q] \ {Null} : Path(y) \subseteq f[q] \cup Path(parent[q])
           wrong == {q \in Node : ~Fine(q)}
<1>1. PICK U, D : Paths(U, D)
  BY DEF PathInv
<1>2. \A q \in Node \cup {Null} :
         f[q] = IF q \in Group THEN {q} \cup f[ResumeChild(c, q)] ELSE {q}
  <2>1. f = DownStep(c, f)
    BY DescentIs
  <2> QED BY <2>1 DEF DownStep
<1> HIDE DEF f
<1>3. ASSUME wrong # {} PROVE FALSE
  <2>1. PICK q \in wrong : \A y \in wrong : parent[y] # q
    BY <1>1, <1>3, PathEnds
  <2>2. PICK y \in f[q] \ {Null} : ~(Path(y) \subseteq f[q] \cup Path(parent[q]))
    BY <2>1
  <2>3. q \in f[q] /\ Path(q) = {q} \cup Path(parent[q])
    <3>1. q \in Node
      BY <2>1
    <3>2. q \in f[q]
      BY <1>2, <3>1
    <3>3. Path(q) = {q} \cup Path(parent[q])
      BY <3>1, UpStep
    <3> QED BY <3>2, <3>3
  <2>4. y # q
    BY <2>2, <2>3
  <2>5. q \in Group /\ y \in f[ResumeChild(c, q)]
    BY <1>2, <2>1, <2>2, <2>4
  <2>6. ResumeChild(c, q) \in Node /\ parent[ResumeChild(c, q)] = q
    <3>1. f[Null] = {Null}
      BY <1>2, TreeAssumption DEF Node
    <3>2. ResumeChild(c, q) \in ToSet(kids[q])
      BY <2>2, <2>5, <3>1, ResumeChildInRing
    <3>3. ToSet(kids[q]) \subseteq Node
      BY <2>5 DEF Inv, TreeTypeOK, ToSet
    <3> QED BY <2>5, <3>2, <3>3 DEF Inv, TreeInv, LinkedIffLive
  <2>7. Path(y) \subseteq f[ResumeChild(c, q)] \cup Path(q)
    BY <2>1, <2>2, <2>5, <2>6
  <2>8. f[ResumeChild(c, q)] \subseteq f[q]
    BY <1>2, <2>1, <2>5
  <2> QED BY <2>2, <2>3, <2>7, <2>8
<1>4. Descent(c, p) = CanRun \cap f[p] /\ x \in f[p] /\ x \in Node /\ x \in CanRun
  <2>1. Descent(c, p) = CanRun \cap f[p]
    BY DescentIs DEF f
  <2> QED BY <2>1 DEF CanRun
<1>5. Path(x) \subseteq f[p] \cup Path(parent[p])
  BY <1>3, <1>4, TreeAssumption
<1>6. Path(x) \subseteq CanRun
  BY <1>4, UpStep, AncestorsRun
<1> QED BY <1>4, <1>5, <1>6

\* A node that gets time keeps having it: PathLeft(n, r) says that no node of
\* n's path has run out, the root excepted, when r is left of the quanta.
PathLeft(n, r) == \A x \in Path(n) : x = Root \/ r[x] > 0

\* Whatever an advance or a descent chooses has time on its whole path when
\* there was time above the entry: below it the descent arms every node.
LEMMA OutcomePath ==
  ASSUME Inv, PathInv, NEW c, CursorsOK(c), NEW adv, NEW entered,
         adv.group # Null => adv.entry \in adv.tried,
         NEW out, out = Outcome(c, adv, entered), out.leaf # Null,
         \A p \in (IF adv.group # Null THEN {adv.entry} ELSE entered) :
           p \in Node \cup {Null} /\ (p \in Node => \A x \in Path(parent[p]) : x = Root \/ rem[x] > 0)
  PROVE  PathLeft(out.leaf, out.rem)
<1> DEFINE touched == UNION {Descent(c, p) : p \in adv.tried \cup entered}
           chosen  == IF adv.group # Null THEN {adv.entry} ELSE entered
           ends    == {l \in Leaf : \E p \in chosen : DescentLeaf(c, p) = l}
<1>1. /\ out.leaf = IF ends = {} THEN Null ELSE CHOOSE l \in ends : TRUE
      /\ out.rem = [n \in Node |-> IF n \in touched THEN Arm(n) ELSE rem[n]]
  BY DEF Outcome
<1>2. out.leaf \in ends
  BY <1>1
<1>3. PICK p \in chosen : DescentLeaf(c, p) = out.leaf
  BY <1>2
<1>4. out.leaf \in Descent(c, p)
  BY <1>3 DEF DescentLeaf
<1>5. p \in Node
  <2>1. Down(c) = DownStep(c, Down(c)) /\ Descent(c, p) = CanRun \cap Down(c)[p]
    BY DescentIs
  <2>2. CASE p = Null
    <3>1. Down(c)[Null] = {Null}
      BY <2>1, TreeAssumption DEF DownStep, Node
    <3> QED BY <1>4, <2>1, <2>2, <3>1, TreeAssumption DEF CanRun
  <2> QED BY <1>3, <2>2
<1>6. Path(out.leaf) \subseteq Descent(c, p) \cup Path(parent[p])
  BY <1>4, <1>5, DescentPath
<1>7. Descent(c, p) \subseteq touched
  BY <1>3
<1>8. \A x \in Path(parent[p]) : x = Root \/ rem[x] > 0
  BY <1>3, <1>5
<1>9. \A x \in Node : Arm(x) > 0 /\ (rem[x] > 0 => out.rem[x] > 0) /\ (x \in touched => out.rem[x] = Arm(x))
  <2> HIDE DEF touched
  <2>1. \A x \in Node : rem[x] \in Nat /\ Quantum[x] \in Nat \ {0}
    BY TreeAssumption DEF Inv, TreeTypeOK
  <2> QED BY <1>1, <2>1 DEF Arm
<1>10. Path(out.leaf) \subseteq Node
  BY DEF Path
<1> HIDE DEF touched, ends, chosen
<1> QED BY <1>6, <1>7, <1>8, <1>9, <1>10 DEF PathLeft

\* advance_from goes up the path it is given and tries the child it serves.
LEMMA AdvancePath ==
  ASSUME Inv, PathInv, NEW c, CursorsOK(c), NEW g \in Group \cup {Null},
         NEW a, a = AdvanceFrom(c, g), a.group # Null
  PROVE  /\ a.entry \in a.tried \cap Node
         /\ a.group \in Path(g) /\ parent[a.entry] = a.group /\ Path(a.group) \subseteq Path(g)
<1> DEFINE up    == Up(g)
           ring(i) == ToSet(kids[up[i]])
           good  == {i \in 1..Len(up) : Serves(c, up[i]) # {}}
           lvl   == Min(good)
           h     == up[lvl]
           round == Round(c, h)
           hits  == Hits(round, Serves(c, h))
<1>1. good # {}
  BY DEF AdvanceFrom
<1>2. /\ a.group = h /\ a.entry = FirstOf(round, Serves(c, h))
      /\ \A k \in 1..Min(hits) : round[k] \in a.tried
  <2> DEFINE below == UNION {ring(i) : i \in 1..lvl - 1}
             here  == {round[k] : k \in 1..Min(hits)}
             entry == FirstOf(round, Serves(c, h))
  <2>1. a = [group |-> h, entry |-> entry, tried |-> below \cup here]
    BY <1>1 DEF AdvanceFrom
  <2>2. a.group = h /\ a.entry = FirstOf(round, Serves(c, h))
    BY <2>1
  <2>3. here \subseteq a.tried
    <3> HIDE DEF below, here, entry
    <3> QED BY <2>1
  <2> HIDE DEF round, hits, h
  <2> QED BY <2>2, <2>3
<1>3. lvl \in good
  <2>1. good \subseteq Nat
    BY LevelIsNat
  <2> QED BY <1>1, <2>1, MinInSet
<1>4. g \in Node
  <2>1. CASE g = Null
    <3>1. Main \in Node
      BY TreeAssumption DEF Node
    <3>2. Up(Null) = <<>>
      BY <3>1, UpStep
    <3>3. FALSE
      BY <1>3, <2>1, <3>2
    <3> QED BY <3>3
  <2> QED BY <2>1 DEF Node
<1>5. lvl \in 1..Len(Up(g)) /\ Serves(c, h) # {} /\ h = Up(g)[lvl]
  BY <1>3
<1> HIDE DEF good, lvl
<1>6. h \in Node /\ Path(h) \subseteq Path(g)
  BY <1>4, <1>5, PathAbove
<1>7. h \in Path(g)
  <2>1. Path(h) = {h} \cup Path(parent[h])
    BY <1>6, UpStep
  <2> QED BY <1>6, <2>1
<1>8. h \in Group
  <2>1. Path(g) = {g} \cup Path(parent[g])
    BY <1>4, UpStep
  <2> QED BY <1>4, <1>7, <2>1, AncestorsRun, TreeAssumption DEF Node
<1> HIDE DEF h
<1>9. a.group = h /\ a.entry \in ToSet(kids[h])
  <2>1. AdvanceFrom(c, g).group \in Group
    BY <1>2, <1>8
  <2>2. AdvanceFrom(c, g).entry \in ToSet(kids[AdvanceFrom(c, g).group])
    BY <2>1, AdvanceEntry
  <2> QED BY <1>2, <2>2
<1>10. a.entry \in Node /\ parent[a.entry] = h
  BY <1>8, <1>9 DEF Inv, TreeTypeOK, TreeInv, LinkedIffLive, ToSet
<1>11. a.entry \in a.tried
  <2>1. a.entry # Null
    BY <1>10, TreeAssumption
  <2>2. hits # {} /\ a.entry = round[Min(hits)]
    BY <1>2, <2>1 DEF FirstOf
  <2>3. hits \subseteq 1..Len(round) /\ hits \subseteq Nat
    <3>1. round \in Seq(Node)
      BY <1>8, LapFacts DEF Round, Inv, TreeTypeOK
    <3>2. DOMAIN round = 1..Len(round) /\ Len(round) \in Nat
      BY <3>1
    <3> QED BY <3>2 DEF Hits
  <2>4. Min(hits) \in Nat /\ Min(hits) >= 1
    BY <2>2, <2>3, MinInSet
  <2>5. Min(hits) \in 1..Min(hits)
    BY <2>4
  <2> QED BY <1>2, <2>2, <2>5
<1> QED BY <1>6, <1>7, <1>9, <1>10, <1>11

\* Above the outermost spent node of a path every node has time left.
LEMMA AboveSpent ==
  ASSUME Inv, PathInv, NEW x \in Node, ExhaustedLevels(Up(x)) # {},
         NEW z, z = Up(x)[Max(ExhaustedLevels(Up(x)))]
  PROVE  z \in Node /\ rem[z] = 0 /\ \A y \in Path(parent[z]) : rem[y] > 0
<1> DEFINE up   == Up(x)
           L    == Len(up)
           zero == ExhaustedLevels(up)
           m    == Max(zero)
           low  == {L - i : i \in zero}
<1>1. L \in Nat /\ zero \subseteq 1..L
  <2>1. up \in Seq(Node)
    <3>1. Up(parent[x]) \in Seq(Node) /\ up = <<x>> \o Up(parent[x])
      BY UpStep
    <3> QED BY <3>1
  <2>2. L \in Nat
    BY <2>1
  <2>3. zero \subseteq 1..L
    BY DEF ExhaustedLevels
  <2> QED BY <2>2, <2>3
<1> HIDE DEF L, zero
<1>2. m \in zero /\ \A i \in zero : i =< m
  <2>1. low \subseteq Nat /\ low # {}
    BY <1>1 DEF zero
  <2>2. Min(low) \in low /\ \A k \in low : Min(low) =< k
    BY <2>1, MinInSet
  <2>3. PICK i \in zero : \A k \in zero : L - i =< L - k
    BY <2>2
  <2>4. \A k \in zero : i >= k
    BY <1>1, <2>3
  <2>5. m \in zero /\ \A k \in zero : m >= k
    BY <2>4 DEF Max
  <2> QED BY <1>1, <2>5
<1>3. m \in 1..L /\ m \in Nat /\ z = up[m] /\ rem[z] = 0
  BY <1>1, <1>2 DEF zero, ExhaustedLevels
<1> HIDE DEF m
<1>4. z \in Node /\ Path(parent[z]) \subseteq {up[j] : j \in m + 1..L}
  BY <1>3, PathAbove DEF L
<1>5. \A j \in m + 1..L : j \in 1..L /\ j \notin zero
  BY <1>1, <1>2, <1>3
<1>6. \A j \in m + 1..L : rem[up[j]] # 0
  BY <1>5 DEF zero, ExhaustedLevels, L
<1>7. rem \in [Node -> Nat] /\ Path(parent[z]) \subseteq Node
  BY DEF Inv, TreeTypeOK, Path
<1>8. \A y \in Path(parent[z]) : rem[y] # 0 /\ rem[y] \in Nat
  BY <1>4, <1>6, <1>7
<1> QED BY <1>3, <1>4, <1>8

\* The leaf that pick_next_leaf returns has time left, and so has every group
\* it is nested in.
LEMMA PickPath ==
  ASSUME Inv, PathInv, NEW cur \in Leaf \cup {Null},
         NEW pick, pick = PickNextLeaf(cur), pick.leaf # Null
  PROVE  PathLeft(pick.leaf, pick.rem)
<1>1. CursorsOK(cursor)
  BY DEF Inv, TreeTypeOK, TreeInv, CursorInRing, CursorsOK
<1>2. Root \in Node /\ Path(Root) = {Root} /\ Path(Null) = {}
  <2>1. Root \in Node /\ parent[Root] = Null
    BY TreeAssumption DEF Node, Inv, TreeInv, LinkedIffLive
  <2>2. Up(Null) = <<>>
    BY <2>1, UpStep
  <2>3. Path(Null) = {}
    BY <2>2 DEF Path, ToSet
  <2>4. Path(Root) = {Root} \cup Path(Null)
    BY <2>1, UpStep
  <2> QED BY <2>1, <2>3, <2>4
<1>3. ASSUME NEW c, CursorsOK(c), NEW g \in Group \cup {Null}, NEW entered,
             \A p \in entered : p \in Node \cup {Null} /\ (p \in Node => parent[p] = Root),
             \A y \in Path(g) : y = Root \/ rem[y] > 0,
             pick = Outcome(c, AdvanceFrom(c, g), entered)
      PROVE  PathLeft(pick.leaf, pick.rem)
  <2> DEFINE a == AdvanceFrom(c, g)
  <2>1. CASE a.group # Null
    <3>1. /\ a.entry \in a.tried \cap Node /\ parent[a.entry] = a.group
          /\ Path(a.group) \subseteq Path(g)
      BY <1>3, <2>1, AdvancePath
    <3> HIDE DEF a
    <3>2. \A p \in {a.entry} :
             p \in Node \cup {Null} /\ (p \in Node => \A x \in Path(parent[p]) : x = Root \/ rem[x] > 0)
      BY <1>3, <3>1
    <3>3. pick = Outcome(c, a, entered)
      BY <1>3 DEF a
    <3> QED BY <1>3, <2>1, <3>1, <3>2, <3>3, OutcomePath
  <2>2. CASE a.group = Null
    <3> HIDE DEF a
    <3>1. \A p \in entered :
             p \in Node \cup {Null} /\ (p \in Node => \A x \in Path(parent[p]) : x = Root \/ rem[x] > 0)
      BY <1>2, <1>3
    <3>2. pick = Outcome(c, a, entered)
      BY <1>3 DEF a
    <3> QED BY <1>3, <2>2, <3>1, <3>2, OutcomePath
  <2> QED BY <2>1, <2>2
<1>4. CASE cur = Null
  <2> DEFINE p == ResumeChild(cursor, Root)
  <2>1. p \in Node \cup {Null} /\ (p \in Node => parent[p] = Root)
    <3>1. Root \in Group
      BY TreeAssumption
    <3>2. p \in ToSet(kids[Root]) \cup {Null}
      BY <1>1, <3>1, ResumeChildInRing
    <3> HIDE DEF p
    <3> QED BY <3>1, <3>2, TreeAssumption DEF Inv, TreeTypeOK, TreeInv, LinkedIffLive, ToSet
  <2> HIDE DEF p
  <2>2. CASE pick = Outcome(cursor, NoAdvance, {p})
    <3>1. ~(NoAdvance.group # Null)
      BY DEF NoAdvance
    <3>2. \A q \in {p} :
             q \in Node \cup {Null} /\ (q \in Node => \A x \in Path(parent[q]) : x = Root \/ rem[x] > 0)
      BY <1>2, <2>1
    <3> QED BY <1>1, <2>2, <3>1, <3>2, OutcomePath
  <2>3. CASE pick = Outcome(cursor, AdvanceFrom(cursor, Root), {p})
    BY <1>1, <1>2, <1>3, <2>1, <2>3, TreeAssumption
  <2> QED BY <1>4, <2>2, <2>3 DEF PickNextLeaf, p
<1>5. CASE cur # Null
  <2>1. cur \in Node
    BY <1>5 DEF Node
  <2> DEFINE up   == Up(cur)
             zero == ExhaustedLevels(up)
             z    == up[Max(zero)]
  <2>2. CASE zero = {} /\ cur \in CanRun
    <3>1. pick = [leaf |-> cur, cursor |-> cursor, rem |-> rem]
      BY <1>5, <2>2 DEF PickNextLeaf
    <3>2. \A y \in Path(cur) : rem[y] > 0
      <4>1. up \in Seq(Node)
        <5>1. Up(parent[cur]) \in Seq(Node) /\ up = <<cur>> \o Up(parent[cur])
          BY <2>1, UpStep
        <5> QED BY <2>1, <5>1
      <4>2. \A i \in DOMAIN up : rem[up[i]] # 0
        BY <2>2, <4>1 DEF ExhaustedLevels
      <4>3. \A y \in Path(cur) : rem[y] # 0 /\ y \in Node
        BY <4>2 DEF Path, ToSet
      <4> QED BY <4>3 DEF Inv, TreeTypeOK
    <3> QED BY <3>1, <3>2 DEF PathLeft
  <2>3. CASE zero = {} /\ cur \notin CanRun
    <3>1. pick = Outcome(cursor, AdvanceFrom(cursor, Root), {})
      BY <1>5, <2>3 DEF PickNextLeaf
    <3> QED BY <1>1, <1>2, <1>3, <3>1, TreeAssumption
  <2>4. CASE zero # {}
    <3> DEFINE c == SpentCursors(up)
               g == IF z = Root THEN Root ELSE parent[z]
    <3>1. pick = Outcome(c, AdvanceFrom(c, g), {})
      BY <1>5, <2>4 DEF PickNextLeaf
    <3>2. CursorsOK(c)
      BY MoveOnCursors DEF SpentCursors
    <3>3. z \in Node /\ \A y \in Path(parent[z]) : rem[y] > 0
      BY <2>1, <2>4, AboveSpent
    <3> HIDE DEF z, c
    <3>4. g \in Group \cup {Null}
      <4>1. parent[z] \in Group \cup {Null}
        BY <3>3, UpStep
      <4> QED BY <4>1, TreeAssumption
    <3>5. \A y \in Path(g) : y = Root \/ rem[y] > 0
      BY <1>2, <3>3
    <3> HIDE DEF g
    <3> QED BY <1>3, <3>1, <3>2, <3>4, <3>5
  <2> QED BY <2>2, <2>3, <2>4
<1> QED BY <1>4, <1>5

-----------------------------------------------------------------------------
(* The paths through a step *)

\* The paths of init_with's tree.
LEMMA InitPaths == Init => PathInv
<1> SUFFICES ASSUME Init PROVE PathInv
  OBVIOUS
<1>1. /\ Main \in Node /\ Root \in Node /\ Main # Root /\ Null \notin Node /\ Root \in Group
      /\ Main \notin Group /\ Group \subseteq Node /\ Quantum[Root] \in Nat \ {0}
  BY TreeAssumption DEF Node
<1>2. GroupsReady
  BY <1>1 DEF Init, GroupsReady
<1>3. RootKept
  BY <1>1 DEF Init, RootKept
<1> DEFINE U == [x \in Node \cup {Null} |->
                   IF x = Null THEN <<>> ELSE IF x = Main THEN <<x>> \o <<Root>> ELSE <<x>> \o <<>>]
<1>4. Paths(U, 2)
  <2>1. /\ U[Null] = <<>> /\ U[Main] = <<Main>> \o <<Root>>
        /\ \A x \in Node \ {Main} : U[x] = <<x>> \o <<>>
    BY <1>1
  <2>2. \A x \in Node : <<x>> \in Seq(Node) /\ <<x>> \o <<>> = <<x>> /\ Len(<<x>>) = 1
    OBVIOUS
  <2>3. U[Root] = <<Root>>
    BY <1>1, <2>1, <2>2
  <2>4. \A x \in Node : U[x] = <<x>> \o U[parent[x]]
    BY <1>1, <2>1, <2>3 DEF Init
  <2>5. <<Main>> \o <<Root>> \in Seq(Node) /\ Len(<<Main>> \o <<Root>>) = 2
    BY <1>1
  <2>6. U \in [Node \cup {Null} -> Seq(Node)]
    BY <2>2, <2>5
  <2>7. \A x \in Node : Len(U[x]) =< 2
    BY <2>1, <2>2, <2>5
  <2> HIDE DEF U
  <2> QED BY <2>1, <2>4, <2>6, <2>7 DEF Paths
<1> QED BY <1>2, <1>3, <1>4 DEF PathInv

\* Reclaiming leaves cuts them off and leaves every other path as it was.
LEMMA ForgetPaths ==
  ASSUME Inv, PathInv, NEW freed \in SUBSET Leaf,
         \A x \in Node : parent'[x] = IF x \in freed THEN Null ELSE parent[x],
         \A g \in Group : state'[g] = state[g],
         RootKept'
  PROVE  PathInv'
<1>1. PICK U, D : Paths(U, D)
  BY DEF PathInv
<1>2. Null \notin Node /\ Leaf \cap Group = {} /\ Leaf \subseteq Node /\ Group \subseteq Node
  BY TreeAssumption DEF Node
<1>3. \A x \in Node : parent[x] \in Group \cup {Null}
  BY DEF Inv, TreeTypeOK
<1>4. GroupsReady'
  <2>1. GroupsReady
    BY DEF PathInv
  <2> QED BY <1>2, <1>3, <2>1 DEF GroupsReady
<1> DEFINE V == [x \in Node \cup {Null} |-> IF x \in freed THEN <<x>> \o <<>> ELSE U[x]]
<1>5. Paths(V, D + 1)'
  <2>1. /\ U \in [Node \cup {Null} -> Seq(Node)] /\ D \in Nat /\ U[Null] = <<>>
        /\ \A x \in Node : U[x] = <<x>> \o U[parent[x]] /\ Len(U[x]) =< D
    BY <1>1 DEF Paths
  <2>2. \A x \in Node : <<x>> \o <<>> \in Seq(Node) /\ Len(<<x>> \o <<>>) = 1
    OBVIOUS
  <2>3. V[Null] = <<>> /\ \A x \in Group : V[x] = U[x]
    BY <1>2, <2>1
  <2>4. V \in [Node \cup {Null} -> Seq(Node)]
    BY <1>2, <2>1, <2>2
  <2>5. \A x \in Node : V[x] = <<x>> \o V[parent'[x]]
    <3> TAKE x \in Node
    <3>1. CASE x \in freed
      BY <2>3, <3>1
    <3>2. CASE x \notin freed
      <4>1. parent'[x] = parent[x] /\ V[x] = U[x]
        BY <3>2
      <4>2. V[parent[x]] = U[parent[x]]
        BY <1>3, <2>1, <2>3
      <4> QED BY <2>1, <4>1, <4>2
    <3> QED BY <3>1, <3>2
  <2>6. \A x \in Node : Len(V[x]) =< D + 1
    <3> TAKE x \in Node
    <3>1. CASE x \in freed
      BY <2>1, <2>2, <3>1
    <3>2. CASE x \notin freed
      <4>1. V[x] = U[x] /\ Len(U[x]) =< D /\ U[x] \in Seq(Node)
        BY <2>1, <3>2
      <4>2. Len(U[x]) \in Nat
        BY <4>1
      <4> QED BY <2>1, <4>1, <4>2
    <3> QED BY <3>1, <3>2
  <2> HIDE DEF V
  <2> QED BY <2>1, <2>3, <2>4, <2>5, <2>6 DEF Paths
<1> QED BY <1>4, <1>5 DEF PathInv

\* A new node hangs below a group that runs; no path leads through it yet.
LEMMA SpawnPaths ==
  ASSUME Inv, PathInv, NEW n \in Node, NEW g \in Group, Spawn(n, g)
  PROVE  PathInv'
<1>1. /\ state[n] = "Free" /\ state[g] = "Ready"
      /\ parent' = [parent EXCEPT ![n] = g]
      /\ state' = [state EXCEPT ![n] = "Ready"]
      /\ rem' = [rem EXCEPT ![n] = Quantum[n]]
  BY DEF Spawn
<1>2. /\ Null \notin Node /\ Group \subseteq Node /\ Root \in Node
      /\ parent \in [Node -> Group \cup {Null}] /\ rem \in [Node -> Nat]
      /\ state \in [Node -> Live \cup {"Dead", "Free"}] /\ Quantum[n] \in Nat \ {0}
  BY TreeAssumption DEF Inv, TreeTypeOK, Node
<1>3. PICK U, D : Paths(U, D)
  BY DEF PathInv
<1>4. GroupsReady /\ RootKept
  BY DEF PathInv
<1>5. \A x \in Node : parent[x] # n
  BY <1>1, <1>2, <1>4 DEF GroupsReady
<1>6. GroupsReady'
  <2>1. \A x \in Group : state'[x] \in {"Ready", "Free"}
    BY <1>1, <1>2, <1>4 DEF GroupsReady
  <2>2. \A x \in Node : parent'[x] # Null => state'[parent'[x]] = "Ready"
    <3> TAKE x \in Node
    <3>1. CASE x = n
      BY <1>1, <1>2, <3>1
    <3>2. CASE x # n
      BY <1>1, <1>2, <1>4, <1>5, <3>2 DEF GroupsReady
    <3> QED BY <3>1, <3>2
  <2> QED BY <2>1, <2>2 DEF GroupsReady
<1>7. RootKept'
  BY <1>1, <1>2, <1>4 DEF RootKept
<1> DEFINE V == [x \in Node \cup {Null} |-> IF x = n THEN <<x>> \o U[g] ELSE U[x]]
<1>8. Paths(V, D + 1)'
  <2>1. /\ U \in [Node \cup {Null} -> Seq(Node)] /\ D \in Nat /\ U[Null] = <<>>
        /\ \A x \in Node : U[x] = <<x>> \o U[parent[x]] /\ Len(U[x]) =< D
    BY <1>3 DEF Paths
  <2>2. U[g] \in Seq(Node) /\ Len(U[g]) =< D
    BY <1>2, <2>1
  <2>3. <<n>> \o U[g] \in Seq(Node) /\ Len(<<n>> \o U[g]) = 1 + Len(U[g]) /\ Len(U[g]) \in Nat
    <3>1. <<n>> \in Seq(Node) /\ Len(<<n>>) = 1
      OBVIOUS
    <3> QED BY <2>2, <3>1, ConcatProperties, LenProperties
  <2>4. V[Null] = <<>> /\ V[n] = <<n>> \o U[g] /\ \A x \in (Node \cup {Null}) \ {n} : V[x] = U[x]
    BY <1>2, <2>1
  <2>5. V \in [Node \cup {Null} -> Seq(Node)]
    BY <2>1, <2>3
  <2> HIDE DEF V
  <2>6. n # g
    BY <1>1
  <2>7. \A x \in Node : V[x] = <<x>> \o V[parent'[x]]
    <3> TAKE x \in Node
    <3>1. CASE x = n
      BY <1>1, <1>2, <2>4, <2>6, <3>1
    <3>2. CASE x # n
      <4>1. parent'[x] = parent[x] /\ parent[x] \in (Node \cup {Null}) \ {n}
        BY <1>1, <1>2, <1>5, <3>2
      <4> QED BY <2>1, <2>4, <3>2, <4>1
    <3> QED BY <3>1, <3>2
  <2>8. \A x \in Node : Len(V[x]) =< D + 1
    <3> TAKE x \in Node
    <3>1. CASE x = n
      BY <2>1, <2>2, <2>3, <2>4, <3>1
    <3>2. CASE x # n
      <4>1. V[x] = U[x] /\ Len(U[x]) =< D /\ U[x] \in Seq(Node)
        BY <2>1, <2>4, <3>2
      <4>2. Len(U[x]) \in Nat
        BY <4>1
      <4> QED BY <2>1, <4>1, <4>2
    <3> QED BY <3>1, <3>2
  <2>9. D + 1 \in Nat /\ V[Null] = <<>>
    BY <2>1, <2>4
  <2> QED BY <2>5, <2>7, <2>8, <2>9 DEF Paths
<1> QED BY <1>6, <1>7, <1>8 DEF PathInv

\* Every step of the kernel keeps the paths finite, the groups running and,
\* within the horizon, the root's window open.
LEMMA NextPaths ==
  ASSUME Inv, PathInv, [Next]_tree
  PROVE  PathInv'
<1>1. /\ Leaf \cap Group = {} /\ Leaf \subseteq Node /\ Group \subseteq Node /\ Root \in Group
      /\ Null \notin Node /\ current \in Leaf \cup {Null} /\ pending \subseteq Leaf
      /\ state \in [Node -> Live \cup {"Dead", "Free"}] /\ rem \in [Node -> Nat]
      /\ parent \in [Node -> Group \cup {Null}]
      /\ \A x \in Node : Quantum[x] \in Nat \ {0}
  BY TreeAssumption DEF Inv, TreeTypeOK, Node
<1>2. \A g \in Group : state[g] \in {"Ready", "Free"}
  BY DEF PathInv, GroupsReady
<1>3. RootKept
  BY DEF PathInv
<1>4. ASSUME parent' = parent, \A g \in Group : state'[g] = state[g], RootKept'
      PROVE  PathInv'
  <2>1. PICK none \in SUBSET Leaf : none = {}
    OBVIOUS
  <2>2. \A x \in Node : parent'[x] = IF x \in none THEN Null ELSE parent[x]
    BY <1>4, <2>1
  <2> QED BY <1>4, <2>2, ForgetPaths
<1>5. CASE on_tick
  <2>1. /\ rem' = [n \in Node |-> IF n \in Drained THEN Spend(n) ELSE rem[n]]
        /\ state' = [n \in Node |-> IF n \in Expired THEN "Ready" ELSE state[n]]
        /\ parent' = parent
    BY <1>5 DEF on_tick, MakeReady
  <2>2. \A g \in Group : state'[g] = state[g]
    BY <1>1, <1>2, <2>1 DEF Expired
  <2>3. RootKept'
    BY <1>1, <1>3, <2>1 DEF Drained, RootKept
  <2> QED BY <1>4, <2>1, <2>2, <2>3
<1>6. ASSUME NEW freed \in SUBSET pending, schedule_next(PickNextLeaf(LinkedCurrent), freed)
      PROVE  PathInv'
  <2> DEFINE cur  == LinkedCurrent
             pick == PickNextLeaf(cur)
             next == pick.leaf
  <2>1. cur \in Leaf \cup {Null}
    BY <1>1 DEF LinkedCurrent
  <2>2. next \in Leaf \cup {Null} /\ pick.rem \in [Node -> Nat]
    BY <2>1, PickNextLeafOK DEF PickOK
  <2>3. /\ parent' = Forget(parent, freed, Null) /\ rem' = Forget(pick.rem, freed, 0)
        /\ state' = [n \in Node |->
                       CASE n \in freed -> "Free"
                         [] n \notin freed /\ n = next /\ next # cur -> "Running"
                         [] n \notin freed /\ n = cur /\ next \notin {cur, Null}
                              /\ state[n] = "Running" -> "Ready"
                         [] OTHER -> state[n]]
    BY <1>6 DEF schedule_next
  <2>4. pick.rem[Root] \in {rem[Root], Arm(Root)}
    <3>1. \A c, adv, e : Outcome(c, adv, e).rem[Root] \in {rem[Root], Arm(Root)}
      BY <1>1 DEF Outcome
    <3> QED BY <3>1 DEF PickNextLeaf
  <2> HIDE DEF cur, pick, next
  <2>5. \A g \in Group : g \notin freed /\ g # cur /\ g # next
    BY <1>1, <2>1, <2>2
  <2>6. \A g \in Group : state'[g] = state[g]
    BY <1>1, <2>3, <2>5
  <2>7. RootKept'
    BY <1>1, <1>3, <2>3, <2>4, <2>5 DEF RootKept, Forget, Arm
  <2>8. freed \in SUBSET Leaf /\ \A x \in Node : parent'[x] = IF x \in freed THEN Null ELSE parent[x]
    BY <1>1, <2>3 DEF Forget
  <2> QED BY <2>6, <2>7, <2>8, ForgetPaths
<1>7. ASSUME NEW freed \in SUBSET pending, reclaim_finished_tasks(freed)
      PROVE  PathInv'
  <2>1. /\ parent' = Forget(parent, freed, Null) /\ rem' = Forget(rem, freed, 0)
        /\ state' = [n \in Node |-> IF n \in freed THEN "Free" ELSE state[n]]
    BY <1>7 DEF reclaim_finished_tasks
  <2>2. freed \in SUBSET Leaf /\ \A x \in Node : parent'[x] = IF x \in freed THEN Null ELSE parent[x]
    BY <1>1, <2>1 DEF Forget
  <2>3. (\A g \in Group : state'[g] = state[g]) /\ RootKept'
    BY <1>1, <1>3, <2>1 DEF RootKept, Forget
  <2> QED BY <2>2, <2>3, ForgetPaths
<1>8. ASSUME NEW S, Wake(S), \A n \in S : state[n] = "Blocked"
      PROVE  PathInv'
  <2>1. state' = [n \in Node |-> IF n \in S THEN "Ready" ELSE state[n]] /\ parent' = parent /\ rem' = rem
    BY <1>8 DEF Wake, MakeReady
  <2>2. \A g \in Group : state'[g] = state[g]
    BY <1>1, <1>2, <1>8, <2>1
  <2> QED BY <1>3, <1>4, <2>1, <2>2 DEF RootKept
<1>9. ASSUME NEW n \in Leaf, wake_task(n) \/ exit_task(n) PROVE PathInv'
  <2>1. CASE wake_task(n)
    <3>1. Wake({n}) /\ \A x \in {n} : state[x] = "Blocked"
      BY <2>1 DEF wake_task
    <3> QED BY <1>8, <3>1
  <2>2. CASE exit_task(n)
    <3>1. state' = [state EXCEPT ![n] = "Dead"] /\ parent' = parent /\ rem' = rem
      BY <2>2 DEF exit_task
    <3>2. \A g \in Group : state'[g] = state[g]
      BY <1>1, <3>1
    <3> QED BY <1>3, <1>4, <3>1, <3>2 DEF RootKept
  <2> QED BY <1>9, <2>1, <2>2
<1>10. ASSUME NEW r \in Resource, wake_blocked_on(r) \/ wake_first_blocked_on(r) PROVE PathInv'
  <2>1. \A n \in BlockedOn(r) : state[n] = "Blocked"
    BY DEF BlockedOn
  <2>2. CASE wake_blocked_on(r)
    <3>1. Wake(BlockedOn(r) \cap Walked)
      BY <2>2 DEF wake_blocked_on
    <3> QED BY <1>8, <2>1, <3>1
  <2>3. CASE wake_first_blocked_on(r)
    <3>1. PICK i \in DOMAIN Walk : Walk[i] \in BlockedOn(r) /\ Wake({Walk[i]})
      BY <2>3 DEF wake_first_blocked_on
    <3> QED BY <1>8, <2>1, <3>1
  <2> QED BY <1>10, <2>2, <2>3
<1>11. ASSUME NEW r \in Resource \cup {Null}, NEW t \in Sleeps \cup {Never}, mark_blocked_locked(r, t)
       PROVE  PathInv'
  <2>1. current \in Leaf /\ state' = [state EXCEPT ![current] = "Blocked"] /\ parent' = parent /\ rem' = rem
    BY <1>1, <1>11 DEF mark_blocked_locked
  <2>2. \A g \in Group : state'[g] = state[g]
    BY <1>1, <2>1
  <2> QED BY <1>3, <1>4, <2>1, <2>2 DEF RootKept
<1>12. CASE SpawnFails \/ UNCHANGED tree
  BY <1>3, <1>4, <1>12 DEF SpawnFails, tree, RootKept
<1> QED BY <1>5, <1>6, <1>7, <1>9, <1>10, <1>11, <1>12, SpawnPaths DEF Next

\* Along every path of the tree the steps to the root are finitely many, and
\* within the horizon the root's own window never closes.
THEOREM PathsSafe == Spec => [](Inv /\ PathInv)
<1>1. Init => Inv /\ PathInv
  BY InitInv, InitPaths
<1>2. Inv /\ PathInv /\ [Next]_tree => (Inv /\ PathInv)'
  BY NextInv, NextPaths
<1> QED BY <1>1, <1>2, PTL DEF Spec

\* UpStep in the state after a step.
LEMMA UpStepNext ==
  Inv' /\ PathInv' => Path(Null)' = {} /\ \A x \in Node : Path(x)' = {x} \cup Path(parent[x])'
<1> DEFINE F == Path(Null) = {} /\ \A x \in Node : Path(x) = {x} \cup Path(parent[x])
<1>1. Inv /\ PathInv => F
  <2> SUFFICES ASSUME Inv, PathInv PROVE F
    OBVIOUS
  <2>1. Root \in Node
    BY TreeAssumption DEF Node
  <2>2. Up(Null) = <<>>
    BY <2>1, UpStep
  <2>3. Path(Null) = {}
    BY <2>2 DEF Path, ToSet
  <2>4. \A x \in Node : Path(x) = {x} \cup Path(parent[x])
    BY UpStep
  <2> QED BY <2>3, <2>4
<1>2. Inv' /\ PathInv' => F'
  BY <1>1, PTL
<1> QED BY <1>2

\* Nodes that keep their parents keep their paths, as long as no path leads
\* through one that does not.
LEMMA SamePaths ==
  ASSUME Inv, PathInv, Inv', PathInv', NEW S \in SUBSET Node,
         \A x \in Node \ S : parent'[x] = parent[x] /\ parent[x] \notin S
  PROVE  \A x \in Node \ S : Path(x)' = Path(x)
<1> DEFINE wrong == {x \in Node \ S : Path(x)' # Path(x)}
<1>1. PICK U, D : Paths(U, D)
  BY DEF PathInv
<1>2. Path(Null)' = {} /\ \A x \in Node : Path(x)' = {x} \cup Path(parent[x])'
  BY UpStepNext
<1>3. Path(Null) = {}
  <2>1. Root \in Node
    BY TreeAssumption DEF Node
  <2>2. Up(Null) = <<>>
    BY <2>1, UpStep
  <2> QED BY <2>2 DEF Path, ToSet
<1>4. ASSUME wrong # {} PROVE FALSE
  <2>1. PICK x \in wrong : parent[x] \notin wrong
    BY <1>1, <1>4, PathEnds
  <2>2. x \in Node \ S /\ parent'[x] = parent[x] /\ parent[x] \notin S
    BY <2>1
  <2>3. parent[x] \in Node \cup {Null}
    BY <2>2, UpStep DEF Node
  <2>4. Path(parent[x])' = Path(parent[x])
    <3>1. CASE parent[x] = Null
      BY <1>2, <1>3, <2>2, <3>1
    <3>2. CASE parent[x] # Null
      BY <2>1, <2>2, <2>3, <3>2
    <3> QED BY <3>1, <3>2
  <2>5. Path(x) = {x} \cup Path(parent[x]) /\ Path(x)' = {x} \cup Path(parent[x])'
    BY <1>2, <2>2, UpStep
  <2> QED BY <2>1, <2>4, <2>5
<1> QED BY <1>4

-----------------------------------------------------------------------------
(* Trees of two levels: groups hang below the root only *)

TwoLevel == \A g \in Group : Home[g] \subseteq {Root}

GroupsAtRoot == \A g \in Group : parent[g] \in {Root, Null}

\* At the start no group has a parent.
LEMMA InitAtRoot == Init => GroupsAtRoot
BY TreeAssumption DEF Init, GroupsAtRoot, Node

\* Groups are spawned below the root and never move.
LEMMA GroupsAtRootNext ==
  ASSUME TwoLevel, Inv, GroupsAtRoot, [Next]_tree
  PROVE  GroupsAtRoot'
<1>1. /\ Leaf \cap Group = {} /\ Group \subseteq Node /\ pending \subseteq Leaf
      /\ parent \in [Node -> Group \cup {Null}]
  BY TreeAssumption DEF Inv, TreeTypeOK, Node
<1>2. ASSUME NEW n \in Node, NEW g \in Group, Spawn(n, g) PROVE GroupsAtRoot'
  <2>1. parent' = [parent EXCEPT ![n] = g] /\ g \in Home[n]
    BY <1>2 DEF Spawn
  <2> QED BY <1>1, <2>1 DEF TwoLevel, GroupsAtRoot
<1>3. ASSUME NEW freed \in SUBSET pending, parent' = Forget(parent, freed, Null) PROVE GroupsAtRoot'
  BY <1>1, <1>3 DEF Forget, GroupsAtRoot
<1>4. ASSUME NEW freed \in SUBSET pending,
             schedule_next(PickNextLeaf(LinkedCurrent), freed) \/ reclaim_finished_tasks(freed)
      PROVE  GroupsAtRoot'
  BY <1>3, <1>4 DEF schedule_next, reclaim_finished_tasks
<1>5. ASSUME parent' = parent PROVE GroupsAtRoot'
  BY <1>5 DEF GroupsAtRoot
<1>6. CASE on_tick \/ SpawnFails \/ UNCHANGED tree
  BY <1>5, <1>6 DEF on_tick, SpawnFails, tree
<1>7. CASE \E r \in Resource \cup {Null}, t \in Sleeps \cup {Never} : mark_blocked_locked(r, t)
  BY <1>5, <1>7 DEF mark_blocked_locked
<1>8. CASE \E n \in Leaf : wake_task(n) \/ exit_task(n)
  BY <1>5, <1>8 DEF wake_task, exit_task, Wake
<1>9. CASE \E r \in Resource : wake_blocked_on(r) \/ wake_first_blocked_on(r)
  BY <1>5, <1>9 DEF wake_blocked_on, wake_first_blocked_on, Wake
<1> QED BY <1>2, <1>4, <1>6, <1>7, <1>8, <1>9 DEF Next

\* Then the children of a child group are leaves.
LEMMA GroupsHoldLeaves ==
  ASSUME Inv, GroupsAtRoot, NEW g \in Group \ {Root}
  PROVE  ToSet(kids[g]) \subseteq Leaf
<1> SUFFICES ASSUME NEW n \in ToSet(kids[g]) PROVE n \in Leaf
  OBVIOUS
<1>1. n \in Node /\ parent[n] = g
  BY DEF Inv, TreeTypeOK, TreeInv, LinkedIffLive, ToSet
<1>2. g # Null /\ g # Root
  BY TreeAssumption DEF Node
<1> QED BY <1>1, <1>2 DEF GroupsAtRoot, Node

\* A live leaf is a child of the root, or of a child of the root that can run.
LEMMA LeafAbove ==
  ASSUME Inv, PathInv, GroupsAtRoot, NEW l \in Leaf, state[l] \in Live
  PROVE  LET g == parent[l]
         IN  /\ g \in Group /\ l \in ToSet(kids[g]) /\ g \in CanRun
             /\ g # Root => g \in ToSet(kids[Root]) /\ parent[g] = Root
<1>1. l \in Node /\ l # Root /\ Null \notin Node /\ Group \subseteq Node
  BY TreeAssumption DEF Node
<1>2. parent[l] \in Group /\ l \in ToSet(kids[parent[l]])
  BY <1>1 DEF Inv, TreeInv, LinkedIffLive
<1>3. state[parent[l]] = "Ready" /\ parent[l] \in Node /\ parent[l] # Null
  BY <1>1, <1>2 DEF PathInv, GroupsReady
<1>4. parent[l] # Root => parent[parent[l]] \in Group /\ parent[l] \in ToSet(kids[parent[parent[l]]])
  BY <1>3 DEF Inv, TreeInv, LinkedIffLive, Live
<1>5. parent[l] # Root => parent[parent[l]] = Root
  BY <1>1, <1>2, <1>4 DEF GroupsAtRoot
<1> QED BY <1>2, <1>3, <1>4, <1>5 DEF CanRun

\* resume_child finds a child that can run if there is one.
LEMMA ResumeChildRuns ==
  ASSUME Inv, NEW c, CursorsOK(c), NEW g \in Group, ToSet(kids[g]) \cap CanRun # {}
  PROVE  ResumeChild(c, g) \in ToSet(kids[g]) \cap CanRun
<1>1. kids[g] # <<>>
  BY DEF ToSet
<1>2. c[g] \in ToSet(kids[g])
  BY <1>1 DEF CursorsOK
<1>3. CASE c[g] \in CanRun
  BY <1>1, <1>2, <1>3 DEF ResumeChild
<1>4. CASE c[g] \notin CanRun
  <2>1. parent[c[g]] = g
    BY <1>2 DEF Inv, TreeInv, LinkedIffLive
  <2>2. Lap(g, c[g]) \in Seq(Node) /\ ToSet(Lap(g, c[g])) = ToSet(kids[g])
    BY <1>2, LapFacts DEF Inv
  <2>3. NextRunnable(c[g]) \in ToSet(kids[g]) \cap CanRun
    BY <2>1, <2>2, FirstOfFound DEF NextRunnable
  <2>4. NextRunnable(c[g]) # Null
    BY <2>3, TreeAssumption DEF CanRun
  <2> QED BY <1>1, <1>2, <1>4, <2>3, <2>4 DEF ResumeChild
<1> QED BY <1>3, <1>4

\* A descent in such a tree: from a leaf it finds that leaf, if it can run.
LEMMA DescentOfLeaf ==
  ASSUME Inv, NEW c, CursorsOK(c), NEW l \in Leaf
  PROVE  /\ Descent(c, l) = {l} \cap CanRun
         /\ DescentLeaf(c, l) = IF l \in CanRun THEN l ELSE Null
<1>1. l \in Node \cup {Null} /\ l \notin Group
  BY TreeAssumption DEF Node
<1>2. Down(c)[l] = {l}
  BY <1>1, DescentIs DEF DownStep
<1>3. Descent(c, l) = {l} \cap CanRun
  BY <1>2, DescentIs
<1> QED BY <1>3 DEF DescentLeaf

\* A descent from nowhere finds nothing.
LEMMA DescentOfNull ==
  ASSUME Inv, NEW c, CursorsOK(c)
  PROVE  Descent(c, Null) = {} /\ DescentLeaf(c, Null) = Null
<1>1. Null \notin Group /\ Null \notin CanRun
  BY TreeAssumption DEF CanRun, Node
<1>2. Down(c)[Null] = {Null}
  BY <1>1, DescentIs DEF DownStep
<1>3. Descent(c, Null) = {}
  BY <1>1, <1>2, DescentIs
<1> QED BY <1>3 DEF DescentLeaf

\* A descent from a child group ends at the child it resumes at, if that can run.
LEMMA DescentOfGroup ==
  ASSUME Inv, GroupsAtRoot, NEW c, CursorsOK(c), NEW g \in Group \ {Root}, g \in CanRun
  PROVE  LET r == ResumeChild(c, g)
         IN  /\ r \in Leaf \cup {Null}
             /\ Descent(c, g) = {g} \cup ({r} \cap CanRun)
             /\ DescentLeaf(c, g) = IF r \in CanRun THEN r ELSE Null
<1> DEFINE r == ResumeChild(c, g)
<1>1. r \in Leaf \cup {Null}
  BY ResumeChildInRing, GroupsHoldLeaves
<1>2. Null \notin Group /\ Leaf \cap Group = {} /\ Leaf \subseteq Node /\ g \in Node
  BY TreeAssumption DEF Node
<1> HIDE DEF r
<1>3. Down(c)[r] = {r}
  <2>1. r \in Node \cup {Null} /\ r \notin Group
    BY <1>1, <1>2
  <2> QED BY <2>1, DescentIs DEF DownStep
<1>4. Down(c)[g] = {g} \cup {r}
  <2>1. Down(c)[g] = {g} \cup Down(c)[ResumeChild(c, g)]
    BY <1>2, DescentIs DEF DownStep
  <2> QED BY <1>3, <2>1 DEF r
<1>5. Descent(c, g) = {g} \cup ({r} \cap CanRun)
  BY <1>4, DescentIs
<1>6. r \in CanRun => r \in Leaf
  BY <1>1, TreeAssumption DEF CanRun
<1>7. Descent(c, g) \cap Leaf = {r} \cap CanRun
  BY <1>2, <1>5, <1>6
<1>8. DescentLeaf(c, g) = IF r \in CanRun THEN r ELSE Null
  BY <1>7 DEF DescentLeaf
<1> QED BY <1>1, <1>5, <1>8 DEF r

\* A child of a group that can run serves it when it is a leaf or has a child
\* that can run.
LEMMA Serving ==
  ASSUME Inv, GroupsAtRoot, NEW c, CursorsOK(c), NEW g \in Group, NEW p \in ToSet(kids[g]) \cap CanRun,
         p \in Leaf \/ (p \in Group /\ ToSet(kids[p]) \cap CanRun # {})
  PROVE  p \in Serves(c, g)
<1>1. Null \notin CanRun
  BY TreeAssumption DEF CanRun
<1>2. CASE p \in Leaf
  BY <1>1, <1>2, DescentOfLeaf DEF Serves
<1>3. CASE p \in Group /\ ToSet(kids[p]) \cap CanRun # {}
  <2>1. parent[p] = g /\ parent[Root] = Null /\ g # Null
    BY TreeAssumption DEF Inv, TreeInv, LinkedIffLive, Node
  <2>2. p \in Group \ {Root}
    BY <1>3, <2>1
  <2>3. ResumeChild(c, p) \in CanRun
    BY <1>3, ResumeChildRuns
  <2>4. DescentLeaf(c, p) # Null
    BY <1>1, <2>2, <2>3, DescentOfGroup
  <2> QED BY <2>4 DEF Serves
<1> QED BY <1>2, <1>3

\* While some task can run, a child of the root serves it.
LEMMA RootServes ==
  ASSUME Inv, PathInv, GroupsAtRoot, NEW c, CursorsOK(c), NEW l \in Leaf, l \in CanRun
  PROVE  Serves(c, Root) # {}
<1>1. state[l] \in Live
  BY DEF CanRun, Live
<1> DEFINE g == parent[l]
<1>2. /\ g \in Group /\ l \in ToSet(kids[g]) /\ g \in CanRun
      /\ g # Root => g \in ToSet(kids[Root]) /\ parent[g] = Root
  BY <1>1, LeafAbove
<1> HIDE DEF g
<1>3. Root \in Group
  BY TreeAssumption
<1>4. CASE g = Root
  BY <1>2, <1>3, <1>4, Serving
<1>5. CASE g # Root
  BY <1>2, <1>3, <1>5, Serving
<1> QED BY <1>4, <1>5

\* The root is its own path.
LEMMA RootPath ==
  ASSUME Inv, PathInv
  PROVE  Root \in Node /\ Path(Root) = {Root} /\ Path(Null) = {}
<1>1. Root \in Node /\ parent[Root] = Null
  BY TreeAssumption DEF Node, Inv, TreeInv, LinkedIffLive
<1>2. Up(Null) = <<>>
  BY <1>1, UpStep
<1>3. Path(Null) = {}
  BY <1>2 DEF Path, ToSet
<1> QED BY <1>1, <1>3, UpStep

\* The path of a live leaf is the leaf, its group and the root.
LEMMA LeafPath ==
  ASSUME Inv, PathInv, GroupsAtRoot, NEW l \in Leaf, state[l] \in Live
  PROVE  Path(l) = {l, parent[l], Root} /\ Path(parent[l]) = {parent[l], Root}
<1>1. /\ parent[l] \in Group /\ (parent[l] # Root => parent[parent[l]] = Root)
      /\ l \in Node /\ parent[l] \in Node
  BY LeafAbove DEF Node
<1>2. Path(l) = {l} \cup Path(parent[l]) /\ Path(parent[l]) = {parent[l]} \cup Path(parent[parent[l]])
  BY <1>1, UpStep
<1>3. Path(parent[l]) = {parent[l], Root}
  BY <1>1, <1>2, RootPath
<1> QED BY <1>2, <1>3

\* An advance past a ring with a child to serve finds a child to serve.
LEMMA AdvanceServes ==
  ASSUME Inv, PathInv, NEW c, CursorsOK(c), NEW g \in Group \cup {Null},
         NEW r \in Path(g), Serves(c, r) # {}, NEW a, a = AdvanceFrom(c, g)
  PROVE  a.group \in Group /\ a.group \in Path(g) /\ a.entry \in Serves(c, a.group)
<1> DEFINE up   == Up(g)
           good == {i \in 1..Len(up) : Serves(c, up[i]) # {}}
           h    == up[Min(good)]
<1>1. g \in Node
  BY RootPath DEF Node
<1>2. up \in Seq(Node)
  <2>1. Up(parent[g]) \in Seq(Node) /\ up = <<g>> \o Up(parent[g])
    BY <1>1, UpStep
  <2> QED BY <1>1, <2>1
<1>3. good # {}
  <2>1. PICK i \in DOMAIN up : up[i] = r
    BY DEF Path, ToSet
  <2>2. i \in 1..Len(up)
    BY <1>2, <2>1
  <2> QED BY <2>1, <2>2
<1>4. Min(good) \in good
  <2>1. good \subseteq Nat
    BY LevelIsNat
  <2> QED BY <1>3, <2>1, MinInSet
<1>5. a.group = h /\ a.entry = FirstOf(Round(c, h), Serves(c, h))
  BY <1>3 DEF AdvanceFrom
<1>6. h \in Node /\ Serves(c, h) # {} /\ h # Null
  <2>1. Min(good) \in 1..Len(up) /\ Serves(c, up[Min(good)]) # {}
    BY <1>4
  <2> HIDE DEF good
  <2>2. h \in Node
    BY <1>2, <2>1
  <2> QED BY <2>1, <2>2, TreeAssumption
<1> HIDE DEF h, good
<1>7. h \in Path(g) /\ a.entry \in Node /\ parent[a.entry] = h
  BY <1>5, <1>6, AdvancePath
<1>8. h \in Group
  BY <1>6, <1>7, UpStep
<1>9. Round(c, h) \in Seq(Node) /\ ToSet(Round(c, h)) = ToSet(kids[h])
  BY <1>8, LapFacts DEF Round, Inv, TreeTypeOK
<1>10. a.entry \in Serves(c, h)
  <2>1. ToSet(Round(c, h)) \cap Serves(c, h) # {}
    BY <1>6, <1>9 DEF Serves
  <2> QED BY <1>5, <1>9, <2>1, FirstOfFound
<1> QED BY <1>5, <1>7, <1>8, <1>10

\* What is served is the leaf below the entry.
LEMMA OutcomeServes ==
  ASSUME NEW c, NEW a, NEW entered, NEW p,
         (IF a.group # Null THEN {a.entry} ELSE entered) = {p}, DescentLeaf(c, p) # Null
  PROVE  Outcome(c, a, entered).leaf = DescentLeaf(c, p)
<1> DEFINE chosen == IF a.group # Null THEN {a.entry} ELSE entered
           ends   == {l \in Leaf : \E q \in chosen : DescentLeaf(c, q) = l}
<1>1. Outcome(c, a, entered).leaf = IF ends = {} THEN Null ELSE CHOOSE l \in ends : TRUE
  BY DEF Outcome
<1>2. DescentLeaf(c, p) \in Leaf
  BY DescentLeafRuns
<1>3. ends = {DescentLeaf(c, p)}
  BY <1>2
<1> QED BY <1>1, <1>3

\* The highest of some levels is one of them.
LEMMA MaxOfLevels ==
  ASSUME NEW L \in Nat, NEW S \in SUBSET (1..L), S # {}
  PROVE  Max(S) \in S
<1> DEFINE low == {L - i : i \in S}
<1>1. low \subseteq Nat /\ low # {}
  OBVIOUS
<1>2. Min(low) \in low /\ \A k \in low : Min(low) =< k
  BY <1>1, MinInSet
<1>3. PICK i \in S : \A k \in S : L - i =< L - k
  BY <1>2
<1>4. \A k \in S : i >= k
  BY <1>3
<1> QED BY <1>4 DEF Max

\* The outermost spent node lies on the path and is spent.
LEMMA SpentOnPath ==
  ASSUME Inv, PathInv, NEW x \in Leaf, ExhaustedLevels(Up(x)) # {}
  PROVE  /\ Up(x)[Max(ExhaustedLevels(Up(x)))] \in Path(x)
         /\ rem[Up(x)[Max(ExhaustedLevels(Up(x)))]] = 0
<1> DEFINE up   == Up(x)
           zero == ExhaustedLevels(up)
<1>1. x \in Node
  BY DEF Node
<1>2. up \in Seq(Node)
  <2>1. Up(parent[x]) \in Seq(Node) /\ up = <<x>> \o Up(parent[x])
    BY <1>1, UpStep
  <2> QED BY <1>1, <2>1
<1>3. Max(zero) \in zero
  <2>1. zero \subseteq 1..Len(up) /\ Len(up) \in Nat
    BY <1>2 DEF ExhaustedLevels
  <2>2. zero # {}
    OBVIOUS
  <2> HIDE DEF zero
  <2> QED BY <2>1, <2>2, MaxOfLevels
<1>4. Max(zero) \in DOMAIN up /\ rem[up[Max(zero)]] = 0
  BY <1>2, <1>3 DEF ExhaustedLevels
<1> QED BY <1>2, <1>4 DEF Path, ToSet

\* Wherever on the running path an advance starts from, it passes the root.
LEMMA StartsBelowRoot ==
  ASSUME Inv, PathInv, GroupsAtRoot, NEW cur \in Leaf, state[cur] \in Live, NEW z \in Path(cur)
  PROVE  LET g == IF z = Root THEN Root ELSE parent[z]
         IN  g \in Group /\ Root \in Path(g)
<1>1. Path(cur) = {cur, parent[cur], Root} /\ Path(parent[cur]) = {parent[cur], Root}
  BY LeafPath
<1>2. /\ parent[cur] \in Group /\ (parent[cur] # Root => parent[parent[cur]] = Root)
      /\ Root \in Group /\ cur # Root
  BY LeafAbove, TreeAssumption
<1>3. Path(Root) = {Root}
  BY RootPath
<1> QED BY <1>1, <1>2, <1>3

\* pick_next_leaf finds a task to run if the tree has one.
LEMMA PickServes ==
  ASSUME Inv, PathInv, GroupsAtRoot, NEW cur \in Leaf \cup {Null}, cur # Null => state[cur] \in Live,
         NEW l \in Leaf, l \in CanRun
  PROVE  PickNextLeaf(cur).leaf # Null
<1>1. CursorsOK(cursor)
  BY DEF Inv, TreeTypeOK, TreeInv, CursorInRing, CursorsOK
<1>2. Root \in Group /\ Null \notin Group /\ Root \in Path(Root)
  BY RootPath, TreeAssumption DEF Node
<1>3. ASSUME NEW c, CursorsOK(c), NEW g \in Group, Root \in Path(g), NEW e
      PROVE  Outcome(c, AdvanceFrom(c, g), e).leaf # Null
  <2> DEFINE a == AdvanceFrom(c, g)
  <2>1. Serves(c, Root) # {}
    BY <1>3, RootServes
  <2>2. a.group \in Group /\ a.entry \in Serves(c, a.group)
    BY <1>3, <2>1, AdvanceServes
  <2> HIDE DEF a
  <2>3. a.group # Null /\ DescentLeaf(c, a.entry) # Null
    BY <1>2, <2>2 DEF Serves
  <2>4. Outcome(c, a, e).leaf = DescentLeaf(c, a.entry)
    BY <2>3, OutcomeServes
  <2> QED BY <2>3, <2>4 DEF a
<1>4. CASE cur = Null
  <2> DEFINE p == ResumeChild(cursor, Root)
  <2>1. CASE DescentLeaf(cursor, p) # Null
    <3> HIDE DEF p
    <3>1. NoAdvance.group = Null
      BY DEF NoAdvance
    <3>2. Outcome(cursor, NoAdvance, {p}).leaf = DescentLeaf(cursor, p)
      BY <2>1, <3>1, OutcomeServes
    <3> QED BY <1>4, <2>1, <3>2 DEF PickNextLeaf, p
  <2>2. CASE DescentLeaf(cursor, p) = Null
    <3>1. PickNextLeaf(cur) = Outcome(cursor, AdvanceFrom(cursor, Root), {p})
      BY <1>4, <2>2 DEF PickNextLeaf
    <3> HIDE DEF p
    <3> QED BY <1>1, <1>2, <1>3, <3>1
  <2> QED BY <2>1, <2>2
<1>5. CASE cur # Null
  <2> DEFINE up   == Up(cur)
             zero == ExhaustedLevels(up)
             z    == up[Max(zero)]
  <2>1. CASE zero = {} /\ cur \in CanRun
    BY <1>5, <2>1 DEF PickNextLeaf
  <2>2. CASE zero = {} /\ cur \notin CanRun
    <3>1. PickNextLeaf(cur) = Outcome(cursor, AdvanceFrom(cursor, Root), {})
      BY <1>5, <2>2 DEF PickNextLeaf
    <3> QED BY <1>1, <1>2, <1>3, <3>1
  <2>3. CASE zero # {}
    <3> DEFINE c == SpentCursors(up)
               g == IF z = Root THEN Root ELSE parent[z]
    <3>1. PickNextLeaf(cur) = Outcome(c, AdvanceFrom(c, g), {})
      BY <1>5, <2>3 DEF PickNextLeaf
    <3>2. CursorsOK(c)
      BY MoveOnCursors DEF SpentCursors
    <3>3. z \in Path(cur)
      BY <1>5, <2>3, SpentOnPath
    <3> HIDE DEF z, c
    <3>4. g \in Group /\ Root \in Path(g)
      BY <1>5, <3>3, StartsBelowRoot
    <3> HIDE DEF g
    <3> QED BY <1>3, <3>1, <3>2, <3>4
  <2> QED BY <2>1, <2>2, <2>3
<1> QED BY <1>4, <1>5

-----------------------------------------------------------------------------
(* The cursors of such a tree follow the running task *)

\* Below the root the cursor of the running task's group is that task.
CursorFollows ==
  current # Null /\ parent[current] # Root => cursor[parent[current]] = current

\* A descent leaves the cursor of the group it ends in at the leaf.
LEMMA OutcomeFollows ==
  ASSUME Inv, PathInv, GroupsAtRoot, NEW c, CursorsOK(c), NEW a, NEW entered,
         NEW q \in Group, NEW p \in ToSet(kids[q]),
         (IF a.group # Null THEN {a.entry} ELSE entered) = {p}, p \in a.tried \cup entered,
         a.group = q \/ (a.group = Null /\ q = Root),
         NEW l, l = Outcome(c, a, entered).leaf, l # Null, parent[l] # Root
  PROVE  parent[l] \in Group /\ Outcome(c, a, entered).cursor[parent[l]] = l
<1> DEFINE touched == UNION {Descent(c, x) : x \in a.tried \cup entered}
           chosen  == IF a.group # Null THEN {a.entry} ELSE entered
           ends    == {x \in Leaf : \E y \in chosen : DescentLeaf(c, y) = x}
           newc    == Outcome(c, a, entered).cursor
<1>1. /\ l = IF ends = {} THEN Null ELSE CHOOSE x \in ends : TRUE
      /\ newc = [g \in Group |->
                   IF g = a.group THEN a.entry
                   ELSE IF g \in touched /\ ResumeChild(c, g) \in CanRun
                        THEN ResumeChild(c, g) ELSE c[g]]
  BY DEF Outcome
<1>2. l \in ends
  BY <1>1
<1>3. l = DescentLeaf(c, p) /\ l \in Leaf /\ l \in CanRun
  BY <1>2, DescentLeafRuns, TreeAssumption DEF Node
<1>4. Descent(c, p) \subseteq touched
  OBVIOUS
<1> HIDE DEF touched, chosen, ends, newc
<1>5. p \in Node /\ parent[p] = q /\ state[p] \in Live
  BY DEF Inv, TreeTypeOK, TreeInv, LinkedIffLive, ToSet
<1>6. state[l] \in Live /\ parent[l] \in Group
  BY <1>3, LeafAbove DEF CanRun, Live
<1>7. CASE p \in Leaf
  <2>1. p = l
    BY <1>3, <1>7, DescentOfLeaf, TreeAssumption DEF Node
  <2>2. a.group = q /\ q # Null
    BY <1>5, <2>1, TreeAssumption DEF Node
  <2>3. a.entry = l
    BY <2>1, <2>2
  <2> QED BY <1>1, <1>5, <1>6, <2>1, <2>2, <2>3 DEF newc
<1>8. CASE p \in Group
  <2>1. p # Root /\ q = Root
    <3>1. parent[Root] = Null /\ Null \notin Group
      BY TreeAssumption DEF Inv, TreeInv, LinkedIffLive, Node
    <3> QED BY <1>5, <1>8, <3>1 DEF GroupsAtRoot
  <2>2. p \in CanRun
    BY <1>5, <1>8 DEF PathInv, GroupsReady, CanRun, Live
  <2>3. p \in Descent(c, p) /\ l = ResumeChild(c, p)
    BY <1>3, <1>8, <2>1, <2>2, DescentOfGroup, TreeAssumption DEF Node
  <2>4. parent[l] = p
    <3>1. l \in ToSet(kids[p])
      BY <1>3, <1>8, <2>3, ResumeChildInRing, TreeAssumption DEF Node
    <3> QED BY <1>8, <3>1 DEF Inv, TreeInv, LinkedIffLive
  <2>5. p # a.group
    BY <2>1, TreeAssumption, <1>8 DEF Node
  <2> QED BY <1>1, <1>3, <1>4, <1>8, <2>3, <2>4, <2>5 DEF newc
<1> QED BY <1>5, <1>7, <1>8 DEF Node

\* next_runnable finds a node that can run, or nothing.
LEMMA NextRunnableRuns ==
  ASSUME TreeTypeOK, NEW g \in Group, NEW n \in ToSet(kids[g]), parent[n] = g
  PROVE  NextRunnable(n) \in CanRun \cup {Null}
<1>1. Lap(g, n) \in Seq(Node)
  BY LapFacts
<1> QED BY <1>1, FirstOfFound DEF NextRunnable

\* The cursors below the root stay where they are when no task can run.
LEMMA NothingMoves ==
  ASSUME Inv, GroupsAtRoot, \A l \in Leaf : l \notin CanRun,
         NEW c, CursorsOK(c), NEW x, NEW g \in Group \ {Root},
         NEW S, \A n \in S : parent[n] = g => n \in ToSet(kids[g])
  PROVE  /\ Outcome(c, AdvanceFrom(c, x), {}).cursor[g] = c[g]
         /\ MoveOn(S)[g] = cursor[g]
<1> DEFINE a       == AdvanceFrom(c, x)
           touched == UNION {Descent(c, y) : y \in a.tried \cup {}}
<1>1. Null \notin Group /\ Null \notin CanRun /\ ToSet(kids[g]) \subseteq Leaf
  BY GroupsHoldLeaves, TreeAssumption DEF CanRun, Node
<1>2. a.group = Null
  <2>1. \A h : Serves(c, h) = {}
    BY DescentLeafRuns DEF Serves
  <2> QED BY <2>1 DEF AdvanceFrom
<1>3. ResumeChild(c, g) \notin CanRun
  BY <1>1, ResumeChildInRing
<1>4. Outcome(c, a, {}).cursor =
        [h \in Group |-> IF h = a.group THEN a.entry
                         ELSE IF h \in touched /\ ResumeChild(c, h) \in CanRun
                              THEN ResumeChild(c, h) ELSE c[h]]
  BY DEF Outcome
<1> HIDE DEF a, touched
<1>5. Outcome(c, a, {}).cursor[g] = c[g]
  BY <1>1, <1>2, <1>3, <1>4
<1>6. MoveOn(S)[g] = cursor[g]
  <2> DEFINE left(h) == {n \in S : parent[n] = h /\ NextRunnable(n) \in ToSet(kids[h])}
  <2>1. left(g) = {}
    <3> SUFFICES ASSUME NEW n \in S, parent[n] = g, NextRunnable(n) \in ToSet(kids[g]) PROVE FALSE
      OBVIOUS
    <3>1. NextRunnable(n) # Null
      BY <1>1, TreeAssumption DEF Node
    <3>2. NextRunnable(n) \in CanRun
      BY <3>1, NextRunnableRuns DEF Inv
    <3> QED BY <1>1, <3>2
  <2>2. MoveOn(S) = [h \in Group |-> IF left(h) = {} THEN cursor[h]
                                     ELSE NextRunnable(CHOOSE n \in left(h) : TRUE)]
    BY DEF MoveOn
  <2> HIDE DEF left
  <2> QED BY <2>1, <2>2
<1> QED BY <1>5, <1>6 DEF a

\* The nodes above a live leaf are linked.
LEMMA PathLinked ==
  ASSUME Inv, PathInv, GroupsAtRoot, NEW l \in Leaf, state[l] \in Live, NEW n \in Path(l),
         NEW g \in Group, parent[n] = g
  PROVE  /\ n \in ToSet(kids[g])
         /\ g # Root => n = l
<1>1. Path(l) = {l, parent[l], Root}
  BY LeafPath
<1>2. /\ l \in ToSet(kids[parent[l]])
      /\ parent[l] # Root => parent[l] \in ToSet(kids[Root]) /\ parent[parent[l]] = Root
  BY LeafAbove
<1>3. parent[Root] # g
  BY TreeAssumption DEF Inv, TreeInv, LinkedIffLive, Node
<1> QED BY <1>1, <1>2, <1>3

\* The spent nodes it moves past are on the path, and spent.
LEMMA SpentLevels ==
  ASSUME Inv, PathInv, NEW x \in Leaf, NEW i \in ExhaustedLevels(Up(x))
  PROVE  Up(x)[i] \in Path(x) /\ rem[Up(x)[i]] = 0
<1>1. x \in Node
  BY DEF Node
<1>2. Up(x) \in Seq(Node)
  <2>1. Up(parent[x]) \in Seq(Node) /\ Up(x) = <<x>> \o Up(parent[x])
    BY <1>1, UpStep
  <2> QED BY <1>1, <2>1
<1>3. i \in DOMAIN Up(x) /\ rem[Up(x)[i]] = 0
  BY <1>2 DEF ExhaustedLevels
<1> QED BY <1>2, <1>3 DEF Path, ToSet

\* A current task is linked.
LEMMA CurrentLinked ==
  ASSUME Inv
  PROVE  LinkedCurrent = current
<1>1. CASE current = Null
  BY <1>1 DEF LinkedCurrent
<1>2. CASE current # Null
  <2>1. current \in Node /\ current # Root /\ state[current] \in Live
    BY <1>2, TreeAssumption DEF Inv, TreeTypeOK, TreeInv, CurrentIsLive, Node
  <2>2. parent[current] \in Group /\ current \in ToSet(kids[parent[current]])
    BY <2>1 DEF Inv, TreeInv, LinkedIffLive
  <2> QED BY <2>2 DEF LinkedCurrent, IsLinked
<1> QED BY <1>1, <1>2

\* Where pick_next_leaf takes a leaf from, its cursor is that leaf.
LEMMA PickFollows ==
  ASSUME Inv, PathInv, GroupsAtRoot, CursorFollows, LinkedCurrent = current,
         NEW pick, pick = PickNextLeaf(current),
         NEW l, l = (IF pick.leaf = Null THEN current ELSE pick.leaf), l # Null, parent[l] # Root
  PROVE  pick.cursor[parent[l]] = l
<1>1. /\ CursorsOK(cursor) /\ current \in Leaf \cup {Null}
      /\ current # Null => state[current] \in Live
  BY DEF Inv, TreeTypeOK, TreeInv, CursorInRing, CurrentIsLive, CursorsOK
<1>2. Root \in Group /\ Null \notin Node /\ Root \in Path(Root)
  BY RootPath, TreeAssumption
<1>3. ASSUME NEW c, CursorsOK(c), NEW g \in Group, Root \in Path(g), pick.leaf # Null, NEW e,
             pick = Outcome(c, AdvanceFrom(c, g), e)
      PROVE  pick.cursor[parent[l]] = l
  <2> DEFINE a == AdvanceFrom(c, g)
  <2>1. pick.leaf \in CanRun /\ pick.leaf \in Leaf
    BY <1>1, <1>3, PickNextLeafOK DEF PickOK
  <2>2. Serves(c, Root) # {}
    BY <1>3, <2>1, RootServes
  <2>3. a.group \in Group /\ a.group \in Path(g) /\ a.entry \in Serves(c, a.group)
    BY <1>3, <2>2, AdvanceServes
  <2> HIDE DEF a
  <2>4. a.group # Null /\ a.entry \in ToSet(kids[a.group])
    BY <1>2, <2>3 DEF Serves, Node
  <2>5. a.entry \in a.tried
    BY <1>3, <2>4, AdvancePath DEF a
  <2>6. pick = Outcome(c, a, e) /\ l = pick.leaf
    BY <1>3 DEF a
  <2> QED BY <1>3, <2>3, <2>4, <2>5, <2>6, OutcomeFollows
<1>4. CASE pick.leaf = Null
  <2>1. current # Null /\ l = current /\ current \in Leaf
    BY <1>1, <1>4
  <2>2. \A x \in Leaf : x \notin CanRun
    BY <1>1, <1>4, PickServes
  <2>3. parent[l] \in Group \ {Root}
    BY <1>1, <2>1, LeafAbove
  <2>4. cursor[parent[l]] = l
    BY <2>1 DEF CursorFollows
  <2> DEFINE up   == Up(current)
             zero == ExhaustedLevels(up)
             z    == up[Max(zero)]
             c    == SpentCursors(up)
             g    == IF z = Root THEN Root ELSE parent[z]
  <2>5. CASE zero = {}
    <3>1. pick = Outcome(cursor, AdvanceFrom(cursor, Root), {})
      BY <2>1, <2>2, <2>5 DEF PickNextLeaf
    <3>2. \A n \in {} : parent[n] = parent[l] => n \in ToSet(kids[parent[l]])
      OBVIOUS
    <3> QED BY <1>1, <2>2, <2>3, <2>4, <3>1, <3>2, NothingMoves
  <2>6. CASE zero # {}
    <3> DEFINE S == {up[i] : i \in zero \ {Max(zero)}}
    <3>1. pick = Outcome(c, AdvanceFrom(c, g), {})
      BY <2>1, <2>6 DEF PickNextLeaf
    <3>2. CursorsOK(c) /\ c = MoveOn(S)
      BY MoveOnCursors DEF SpentCursors
    <3>3. \A n \in S : parent[n] = parent[l] => n \in ToSet(kids[parent[l]])
      <4>1. S \subseteq Path(current)
        BY <2>1, SpentLevels
      <4> QED BY <1>1, <2>1, <2>3, <4>1, PathLinked
    <3> HIDE DEF S, c, g, zero
    <3>4. c[parent[l]] = cursor[parent[l]]
      BY <1>1, <2>2, <2>3, <3>2, <3>3, NothingMoves
    <3>5. Outcome(c, AdvanceFrom(c, g), {}).cursor[parent[l]] = c[parent[l]]
      BY <2>2, <2>3, <3>2, <3>3, NothingMoves
    <3> QED BY <2>4, <3>1, <3>4, <3>5
  <2> QED BY <2>5, <2>6
<1>5. CASE pick.leaf # Null /\ current = Null
  <2> DEFINE p == ResumeChild(cursor, Root)
  <2>1. CASE DescentLeaf(cursor, p) # Null
    <3>1. pick = Outcome(cursor, NoAdvance, {p})
      BY <1>5, <2>1 DEF PickNextLeaf
    <3>2. p \in ToSet(kids[Root])
      <4>1. p # Null
        BY <1>1, <2>1, DescentOfNull
      <4> QED BY <1>1, <1>2, <4>1, ResumeChildInRing
    <3> HIDE DEF p
    <3>3. NoAdvance.group = Null
      BY DEF NoAdvance
    <3> QED BY <1>1, <1>2, <1>5, <3>1, <3>2, <3>3, OutcomeFollows
  <2>2. CASE DescentLeaf(cursor, p) = Null
    <3>1. pick = Outcome(cursor, AdvanceFrom(cursor, Root), {p})
      BY <1>5, <2>2 DEF PickNextLeaf
    <3> HIDE DEF p
    <3> QED BY <1>1, <1>2, <1>3, <1>5, <3>1
  <2> QED BY <2>1, <2>2
<1>6. CASE pick.leaf # Null /\ current # Null
  <2> DEFINE up   == Up(current)
             zero == ExhaustedLevels(up)
             z    == up[Max(zero)]
  <2>1. CASE zero = {} /\ current \in CanRun
    <3>1. pick = [leaf |-> current, cursor |-> cursor, rem |-> rem]
      BY <1>6, <2>1 DEF PickNextLeaf
    <3> QED BY <1>6, <3>1 DEF CursorFollows
  <2>2. CASE zero = {} /\ current \notin CanRun
    <3>1. pick = Outcome(cursor, AdvanceFrom(cursor, Root), {})
      BY <1>6, <2>2 DEF PickNextLeaf
    <3> QED BY <1>1, <1>2, <1>3, <1>6, <3>1
  <2>3. CASE zero # {}
    <3> DEFINE c == SpentCursors(up)
               g == IF z = Root THEN Root ELSE parent[z]
    <3>1. pick = Outcome(c, AdvanceFrom(c, g), {})
      BY <1>6, <2>3 DEF PickNextLeaf
    <3>2. CursorsOK(c)
      BY MoveOnCursors DEF SpentCursors
    <3>3. z \in Path(current)
      BY <1>1, <1>6, <2>3, SpentOnPath
    <3> HIDE DEF z, c
    <3>4. g \in Group /\ Root \in Path(g)
      BY <1>1, <1>6, <3>3, StartsBelowRoot
    <3> HIDE DEF g
    <3> QED BY <1>3, <1>6, <3>1, <3>2, <3>4
  <2> QED BY <2>1, <2>2, <2>3
<1> QED BY <1>4, <1>5, <1>6

\* No step leaves the cursor behind.
LEMMA CursorFollowsNext ==
  ASSUME Inv, PathInv, GroupsAtRoot, CursorFollows, [Next]_tree
  PROVE  CursorFollows'
<1>0. /\ Null \notin Node /\ Leaf \subseteq Node /\ pending \subseteq Leaf
      /\ current \in Leaf \cup {Null} /\ (current # Null => state[current] \in Live)
      /\ cursor \in [Group -> Node \cup {Null}] /\ parent \in [Node -> Group \cup {Null}]
      /\ \A x \in pending : state[x] = "Dead"
  BY TreeAssumption DEF Inv, TreeTypeOK, TreeInv, CurrentIsLive, PendingIsDead, Node
<1>1. ASSUME cursor' = cursor, parent' = parent, current' = current PROVE CursorFollows'
  BY <1>1 DEF CursorFollows
<1>2. CASE on_tick \/ SpawnFails \/ UNCHANGED tree
  BY <1>1, <1>2 DEF on_tick, SpawnFails, tree
<1>3. CASE \E r \in Resource \cup {Null}, t \in Sleeps \cup {Never} : mark_blocked_locked(r, t)
  BY <1>1, <1>3 DEF mark_blocked_locked
<1>4. CASE \E n \in Leaf : wake_task(n)
  BY <1>1, <1>4 DEF wake_task, Wake
<1>5. CASE \E r \in Resource : wake_blocked_on(r) \/ wake_first_blocked_on(r)
  BY <1>1, <1>5 DEF wake_blocked_on, wake_first_blocked_on, Wake
<1>6. CASE \E n \in Leaf : exit_task(n)
  BY <1>6 DEF exit_task, CursorFollows
<1>7. ASSUME NEW n \in Node, NEW g \in Group, Spawn(n, g) PROVE CursorFollows'
  <2>1. /\ state[n] = "Free" /\ parent' = [parent EXCEPT ![n] = g] /\ current' = current
        /\ cursor' = [cursor EXCEPT ![g] = IF @ = Null THEN n ELSE @]
    BY <1>7 DEF Spawn, InsertChild
  <2> SUFFICES ASSUME current # Null, parent'[current] # Root
               PROVE  cursor'[parent'[current]] = current
    BY <2>1 DEF CursorFollows
  <2>2. current \in Node /\ current # n /\ parent'[current] = parent[current]
    BY <1>0, <2>1 DEF Live
  <2>3. parent[current] \in Group /\ cursor[parent[current]] = current
    BY <1>0, <2>2, LeafAbove DEF CursorFollows
  <2> QED BY <1>0, <2>1, <2>2, <2>3
<1>8. ASSUME NEW freed \in SUBSET pending, reclaim_finished_tasks(freed) PROVE CursorFollows'
  <2>1. cursor' = cursor /\ current' = current /\ parent' = Forget(parent, freed, Null)
    BY <1>8 DEF reclaim_finished_tasks
  <2>2. current # Null => parent'[current] = parent[current]
    BY <1>0, <2>1 DEF Forget, Live
  <2> QED BY <2>1, <2>2 DEF CursorFollows
<1>9. ASSUME NEW freed \in SUBSET pending, schedule_next(PickNextLeaf(LinkedCurrent), freed)
      PROVE  CursorFollows'
  <2> DEFINE pick == PickNextLeaf(LinkedCurrent)
             l    == IF pick.leaf = Null THEN current ELSE pick.leaf
  <2>1. LinkedCurrent = current
    BY <1>0, CurrentLinked
  <2>2. current' = l /\ cursor' = pick.cursor /\ parent' = Forget(parent, freed, Null)
    BY <1>9, <2>1 DEF schedule_next
  <2>3. pick.leaf \in (Leaf \cap CanRun) \cup {Null}
    BY <1>0, <2>1, PickNextLeafOK DEF PickOK
  <2> HIDE DEF pick
  <2>4. l # Null => l \in Node /\ l \notin freed
    BY <1>0, <2>3 DEF CanRun, Live
  <2> SUFFICES ASSUME l # Null, parent'[l] # Root PROVE cursor'[parent'[l]] = l
    BY <2>2 DEF CursorFollows
  <2>5. parent'[l] = parent[l]
    BY <2>2, <2>4 DEF Forget
  <2>6. pick = PickNextLeaf(current)
    BY <2>1 DEF pick
  <2> HIDE DEF l
  <2>7. pick.cursor[parent[l]] = l
    BY <2>1, <2>5, <2>6, PickFollows DEF l
  <2> QED BY <2>2, <2>5, <2>7
<1> QED BY <1>2, <1>3, <1>4, <1>5, <1>6, <1>7, <1>8, <1>9 DEF Next

\* An advance from a group with a child to serve stays in that group.
LEMMA AdvanceHere ==
  ASSUME Inv, PathInv, NEW c, CursorsOK(c), NEW g \in Group, Serves(c, g) # {},
         NEW a, a = AdvanceFrom(c, g)
  PROVE  a.group = g /\ a.tried \subseteq ToSet(kids[g])
<1> DEFINE up    == Up(g)
           ring(i) == ToSet(kids[up[i]])
           good  == {i \in 1..Len(up) : Serves(c, up[i]) # {}}
           lvl   == Min(good)
           h     == up[lvl]
           round == Round(c, h)
           hits  == Hits(round, Serves(c, h))
           below == UNION {ring(i) : i \in 1..lvl - 1}
           here  == {round[k] : k \in 1..Min(hits)}
           entry == FirstOf(round, Serves(c, h))
<1>1. g \in Node
  BY DEF Node
<1>2. up[1] = g /\ Len(up) \in Nat /\ Len(up) >= 1
  <2> DEFINE s == Up(parent[g])
  <2>1. s \in Seq(Node) /\ up = <<g>> \o s
    BY <1>1, UpStep
  <2> HIDE DEF s, up
  <2>2. <<g>> \in Seq(Node) /\ Len(<<g>>) = 1 /\ <<g>>[1] = g
    BY <1>1
  <2>3. /\ Len(<<g>> \o s) = 1 + Len(s) /\ Len(s) \in Nat
        /\ \A i \in 1..1 + Len(s) : (<<g>> \o s)[i] = IF i =< 1 THEN <<g>>[i] ELSE s[i - 1]
    BY <2>1, <2>2, ConcatProperties
  <2> QED BY <2>1, <2>2, <2>3
<1>3. 1 \in good
  BY <1>2
<1>4. good # {} /\ lvl = 1
  <2>1. good \subseteq Nat /\ \A i \in good : i >= 1
    BY LevelIsNat
  <2>2. Min(good) \in good /\ \A i \in good : Min(good) =< i
    BY <1>3, <2>1, MinInSet
  <2>3. lvl \in Nat /\ lvl >= 1 /\ lvl =< 1
    <3> HIDE DEF good
    <3> QED BY <1>3, <2>1, <2>2
  <2>4. lvl = 1
    <3> HIDE DEF lvl
    <3> QED BY <2>3
  <2> QED BY <1>3, <2>4
<1>5. a = [group |-> h, entry |-> entry, tried |-> below \cup here]
  BY <1>4 DEF AdvanceFrom
<1>6. h = g
  BY <1>2, <1>4
<1>7. below = {}
  <2> HIDE DEF lvl
  <2>1. 1..lvl - 1 = {}
    BY <1>4
  <2> QED BY <2>1
<1>8. a.group = g /\ a.tried = here
  <2> HIDE DEF h, entry, below, here
  <2> QED BY <1>5, <1>6, <1>7
<1> HIDE DEF h
<1>9. round \in Seq(Node) /\ ToSet(round) = ToSet(kids[g])
  BY <1>6, LapFacts DEF Round, Inv, TreeTypeOK
<1>10. hits # {}
  <2>1. ToSet(round) \cap Serves(c, h) # {}
    BY <1>6, <1>9 DEF Serves
  <2> HIDE DEF round
  <2> QED BY <2>1 DEF Hits, ToSet
<1>11. here \subseteq ToSet(round)
  <2> HIDE DEF round
  <2>1. hits \subseteq 1..Len(round) /\ Len(round) \in Nat
    BY <1>9 DEF Hits
  <2>2. Min(hits) \in hits
    <3>1. hits \subseteq Nat
      BY <2>1
    <3> HIDE DEF hits
    <3> QED BY <1>10, <3>1, MinInSet
  <2>3. 1..Min(hits) \subseteq DOMAIN round
    <3> DEFINE m == Min(hits)
    <3>1. m \in 1..Len(round) /\ Len(round) \in Nat /\ DOMAIN round = 1..Len(round)
      <4>1. DOMAIN round = 1..Len(round)
        BY <1>9
      <4>2. m \in 1..Len(round)
        BY <2>1, <2>2
      <4> QED BY <2>1, <4>1, <4>2
    <3> HIDE DEF m
    <3>2. \A k \in 1..m : k \in 1..Len(round)
      BY <3>1
    <3> QED BY <3>1, <3>2 DEF m
  <2> QED BY <2>3 DEF ToSet
<1> QED BY <1>8, <1>9, <1>11

\* When pick_next_leaf passes the turn on, it stays in the ring of the
\* outermost spent node, which is still served itself.
LEMMA SpentServes ==
  ASSUME Inv, PathInv, GroupsAtRoot, NEW cur \in Leaf, cur \in CanRun, NEW c, CursorsOK(c),
         NEW z \in Path(cur), z # Root
  PROVE  parent[z] \in Group /\ z \in Serves(c, parent[z])
<1>1. state[cur] \in Live
  BY DEF CanRun, Live
<1>2. Path(cur) = {cur, parent[cur], Root}
  BY <1>1, LeafPath
<1>3. /\ parent[cur] \in Group /\ cur \in ToSet(kids[parent[cur]]) /\ parent[cur] \in CanRun
      /\ parent[cur] # Root => parent[cur] \in ToSet(kids[Root]) /\ parent[parent[cur]] = Root
      /\ Root \in Group
  BY <1>1, LeafAbove, TreeAssumption
<1>4. CASE z = cur
  BY <1>3, <1>4, Serving
<1>5. CASE z = parent[cur]
  BY <1>3, <1>5, Serving
<1> QED BY <1>2, <1>4, <1>5

\* A descent from a child of the root or of a group passes no group but that
\* child.
LEMMA DescentGroups ==
  ASSUME Inv, PathInv, GroupsAtRoot, NEW c, CursorsOK(c), NEW q \in Group, NEW p \in ToSet(kids[q]),
         NEW g \in Group, g \in Descent(c, p)
  PROVE  g = p /\ g # Root
<1>1. p \in Node /\ parent[p] = q /\ state[p] \in Live
  BY DEF Inv, TreeTypeOK, TreeInv, LinkedIffLive, ToSet
<1>2. p # Root /\ Leaf \cap Group = {} /\ Null \notin Group
  BY <1>1, TreeAssumption DEF Inv, TreeInv, LinkedIffLive, Node
<1>3. CASE p \in Leaf
  BY <1>2, <1>3, DescentOfLeaf
<1>4. CASE p \in Group
  <2>1. p \in CanRun
    BY <1>1, <1>4 DEF PathInv, GroupsReady, CanRun, Live
  <2>2. /\ ResumeChild(c, p) \in Leaf \cup {Null}
        /\ Descent(c, p) = {p} \cup ({ResumeChild(c, p)} \cap CanRun)
    BY <1>2, <1>4, <2>1, DescentOfGroup
  <2> QED BY <1>2, <2>2
<1> QED BY <1>1, <1>3, <1>4 DEF Node

\* What a switch does to the cursors when the running task could go on.
LEMMA PickKeeps ==
  ASSUME Inv, PathInv, GroupsAtRoot, CursorFollows, ~RootDrains, current \in CanRun,
         NEW g \in Group, cursor[g] # Null, PickNextLeaf(current).cursor[g] # cursor[g]
  PROVE  \/ \E n \in Path(current) : parent[n] = g /\ rem[n] = 0 /\ (g # Root => n = cursor[g])
         \/ DescentLeaf(cursor, cursor[g]) = Null
<1> DEFINE up   == Up(current)
           zero == ExhaustedLevels(up)
           z    == up[Max(zero)]
           S    == {up[i] : i \in zero \ {Max(zero)}}
           c    == SpentCursors(up)
           h    == IF z = Root THEN Root ELSE parent[z]
           a    == AdvanceFrom(c, h)
           touched == UNION {Descent(c, p) : p \in a.tried \cup {}}
           pick == PickNextLeaf(current)
           left(x) == {n \in S : parent[n] = x /\ NextRunnable(n) \in ToSet(kids[x])}
<1>1. /\ current \in Leaf /\ current # Null /\ state[current] \in Live
      /\ CursorsOK(cursor)
  BY TreeAssumption DEF Inv, TreeTypeOK, TreeInv, CursorInRing, CursorsOK, CanRun, Live, Node
<1>2. zero # {}
  <2> SUFFICES ASSUME zero = {} PROVE FALSE
    OBVIOUS
  <2>1. pick = [leaf |-> current, cursor |-> cursor, rem |-> rem]
    BY <1>1 DEF PickNextLeaf
  <2> QED BY <2>1
<1>3. pick = Outcome(c, a, {})
  BY <1>1, <1>2 DEF PickNextLeaf
<1>4. CursorsOK(c) /\ c = MoveOn(S)
  BY MoveOnCursors DEF SpentCursors
<1>5. z \in Path(current) /\ rem[z] = 0
  BY <1>1, <1>2, SpentOnPath
<1>6. \A n \in S : n \in Path(current) /\ rem[n] = 0
  BY <1>1, SpentLevels
<1>7. c = [x \in Group |-> IF left(x) = {} THEN cursor[x]
                           ELSE NextRunnable(CHOOSE n \in left(x) : TRUE)]
  BY <1>4 DEF MoveOn
<1>8. pick.cursor = [x \in Group |->
                       IF x = a.group THEN a.entry
                       ELSE IF x \in touched /\ ResumeChild(c, x) \in CanRun
                            THEN ResumeChild(c, x) ELSE c[x]]
  <2>1. Outcome(c, a, {}).cursor = [x \in Group |->
                       IF x = a.group THEN a.entry
                       ELSE IF x \in touched /\ ResumeChild(c, x) \in CanRun
                            THEN ResumeChild(c, x) ELSE c[x]]
    BY DEF Outcome
  <2> QED BY <1>3, <2>1
<1> HIDE DEF pick, c, S, z
\* A spent node of the path is a witness for the group it is a child of.
<1>9. ASSUME NEW n \in Path(current), parent[n] = g, rem[n] = 0
      PROVE  \E m \in Path(current) : parent[m] = g /\ rem[m] = 0 /\ (g # Root => m = cursor[g])
  <2>1. g # Root => n = current
    BY <1>1, <1>9, PathLinked
  <2>2. g # Root => n = cursor[g]
    BY <1>1, <1>9, <2>1 DEF CursorFollows
  <2> QED BY <1>9, <2>2
<1>10. z # Root
  <2>1. rem[Root] > 0
    BY DEF PathInv, RootKept
  <2> QED BY <1>5, <2>1
<1>11. h \in Group /\ h = parent[z] /\ Serves(c, h) # {}
  BY <1>1, <1>4, <1>5, <1>10, SpentServes
<1> HIDE DEF h
<1>12. a.group = h /\ a.tried \subseteq ToSet(kids[h])
  BY <1>4, <1>11, AdvanceHere
<1> HIDE DEF a
<1>13. CASE g = h
  BY <1>5, <1>9, <1>11, <1>13
<1>14. CASE left(g) # {}
  <2>1. PICK n \in S : parent[n] = g
    BY <1>14
  <2> QED BY <1>6, <1>9, <2>1
<1>15. CASE g # h /\ left(g) = {}
  <2>1. c[g] = cursor[g]
    <3> HIDE DEF left
    <3> QED BY <1>7, <1>15
  <2>2. g \in touched /\ ResumeChild(c, g) \in CanRun /\ ResumeChild(c, g) # cursor[g]
    <3> HIDE DEF touched
    <3> QED BY <1>8, <1>12, <1>15, <2>1 DEF pick
  <2>3. PICK p \in a.tried : g \in Descent(c, p)
    BY <2>2
  <2>4. p \in ToSet(kids[h])
    BY <1>12, <2>3
  <2>5. g = p /\ g # Root
    BY <1>4, <1>11, <2>3, <2>4, DescentGroups
  <2>6. kids[g] # <<>> /\ cursor[g] \in ToSet(kids[g])
    BY <1>1 DEF CursorsOK
  <2>7. cursor[g] \notin CanRun
    BY <2>1, <2>2, <2>6 DEF ResumeChild
  <2>8. cursor[g] \in Leaf
    BY <2>5, <2>6, GroupsHoldLeaves
  <2> QED BY <1>1, <2>7, <2>8, DescentOfLeaf
<1> QED BY <1>13, <1>14, <1>15

\* A step takes a group's cursor off a child only when that child's turn is
\* over, in every tree whose groups hang below the root, within the horizon
\* of the root's own window.
THEOREM PlacesKept ==
  ASSUME TwoLevel, ~RootDrains
  PROVE  Spec => CursorKeepsPreempted
<1> DEFINE I == Inv /\ PathInv /\ GroupsAtRoot /\ CursorFollows
<1>1. Init => I
  <2>1. Init => CursorFollows
    BY TreeAssumption DEF Init, CursorFollows, Node
  <2> QED BY <2>1, InitInv, InitPaths, InitAtRoot
<1>2. I /\ [Next]_tree => I'
  BY NextInv, NextPaths, GroupsAtRootNext, CursorFollowsNext
<1>3. I /\ [Next]_tree =>
        [\A g \in Group : cursor[g] # Null /\ cursor'[g] # cursor[g] =>
           \/ \E n \in Path(current) : parent[n] = g /\ rem[n] = 0 /\ (g # Root => n = cursor[g])
           \/ DescentLeaf(cursor, cursor[g]) = Null
           \/ current \notin CanRun \/ state'[current] = "Dead"]_tree
  <2> SUFFICES ASSUME I, Next, NEW g \in Group, cursor[g] # Null, cursor'[g] # cursor[g],
                      current \in CanRun, state'[current] # "Dead"
               PROVE  \/ \E n \in Path(current) :
                           parent[n] = g /\ rem[n] = 0 /\ (g # Root => n = cursor[g])
                      \/ DescentLeaf(cursor, cursor[g]) = Null
    OBVIOUS
  <2>1. cursor \in [Group -> Node \cup {Null}] /\ state \in [Node -> Live \cup {"Dead", "Free"}]
    BY DEF Inv, TreeTypeOK
  <2>2. ~ \E n \in Node, h \in Group : Spawn(n, h)
    BY <2>1 DEF Spawn, InsertChild
  <2>3. ~ \E n \in Leaf : exit_task(n)
    BY <2>1 DEF exit_task, CanRun
  <2>4. \E freed \in SUBSET pending : schedule_next(PickNextLeaf(LinkedCurrent), freed)
    BY <2>2, <2>3 DEF Next, on_tick, SpawnFails, mark_blocked_locked, wake_task, wake_blocked_on,
       wake_first_blocked_on, Wake, reclaim_finished_tasks
  <2>5. cursor' = PickNextLeaf(current).cursor
    BY <2>4, CurrentLinked DEF schedule_next
  <2> QED BY <2>5, PickKeeps
<1> QED BY <1>1, <1>2, <1>3, PTL DEF Spec, CursorKeepsPreempted
===============================================================================
