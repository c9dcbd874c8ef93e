---------------------------- MODULE Holding_proofs ----------------------------
(***************************************************************************)
(* What is held.  The locks of sync.rs: the records of held locks stay in  *)
(* order and agree with the guards, for any tasks, locks, nesting depth    *)
(* and registry, whatever the order in which guards are dropped and        *)
(* however often the recovery runs.  The blocks of the arena: every        *)
(* allocation has a block of its own, none is lost, and no more are carved *)
(* than were ever needed at once, for any tasks, groups, sizes and         *)
(* alignments, through spawns that fail half-way, exits and reclamation.   *)
(***************************************************************************)
EXTENDS Mutex, Memory, RingLemmas, FiniteSetTheorems, TLAPS

-----------------------------------------------------------------------------
(* The locks *)

Increasing(s) == \A i, j \in DOMAIN s : i < j => s[i] < s[j]

LockTypeOK ==
  /\ held \in [Task -> Seq(LockId)]
  /\ guards \in [Task -> [LockId -> Nat]]
  /\ wants \in [Task -> LockId \cup {Free}]
  /\ dropping \in [Task -> Seq(LockId)]
  /\ bypassed \subseteq Task

\* Only a task that has begun the recovery has locks left to drop.
DropsAfterRecovery == \A t \in Task : dropping[t] # <<>> => t \in bypassed

LockInv == LockTypeOK /\ DropsAfterRecovery /\ HeldInOrder /\ RecordsAgree

-----------------------------------------------------------------------------
\* Removing a lock from increasing records leaves increasing records of the
\* other locks (held_remove).
LEMMA WithoutRemoves ==
  ASSUME NEW s \in Seq(LockId), Increasing(s), NEW l \in LockId
  PROVE  /\ Without(s, l) \in Seq(LockId)
         /\ Len(Without(s, l)) <= Len(s)
         /\ Increasing(Without(s, l))
         /\ ToSet(Without(s, l)) = ToSet(s) \ {l}
<1>1. CASE l \notin ToSet(s)
  BY <1>1 DEF Without
<1>2. CASE l \in ToSet(s)
  <2> DEFINE k == First(s, l)
             w == [i \in 1 .. Len(s) - 1 |-> s[IF i < k THEN i ELSE i + 1]]
  <2>1. PICK m \in DOMAIN s : s[m] = l
    BY <1>2 DEF ToSet
  <2>2. \A j \in DOMAIN s : s[j] = l => j = m
    BY <2>1, LockAssumption DEF Increasing
  <2>3. s[m] = l /\ \A j \in 1 .. m - 1 : s[j] # l
    BY <2>1, <2>2
  <2>4. k \in DOMAIN s /\ s[k] = l
    BY <2>1, <2>3 DEF First
  <2>5. k = m
    BY <2>2, <2>4
  <2>6. Without(s, l) = w
    BY <1>2 DEF Without
  <2>7. w \in Seq(LockId) /\ Len(w) = Len(s) - 1 /\ DOMAIN w = 1 .. Len(s) - 1
    BY <2>1
  <2>8. Increasing(w)
    BY <2>1, <2>5, <2>7, LockAssumption DEF Increasing
  <2>9. ToSet(w) = ToSet(s) \ {l}
    <3>1. ASSUME NEW i \in DOMAIN w PROVE w[i] \in ToSet(s) \ {l}
      BY <2>1, <2>2, <2>5, <2>7 DEF ToSet
    <3>2. ASSUME NEW i \in DOMAIN s, i # k PROVE s[i] \in ToSet(w)
      <4>1. CASE i < k
        <5>1. i \in DOMAIN w /\ w[i] = s[i]
          BY <4>1, <2>1, <2>5, <2>7
        <5> QED
          BY <5>1 DEF ToSet
      <4>2. CASE i > k
        <5>1. i - 1 \in DOMAIN w /\ w[i - 1] = s[i]
          BY <4>2, <2>1, <2>5, <2>7
        <5> QED
          BY <5>1 DEF ToSet
      <4> QED
        BY <4>1, <4>2, <3>2, <2>1, <2>5
    <3> QED
      BY <3>1, <3>2, <2>4 DEF ToSet
  <2> QED
    BY <2>6, <2>7, <2>8, <2>9
<1> QED
  BY <1>1, <1>2

\* A lock above the last of increasing records is above all of them.
LEMMA AppendKeepsOrder ==
  ASSUME NEW s \in Seq(LockId), Increasing(s), NEW l \in LockId,
         s = <<>> \/ l > Last(s)
  PROVE  Increasing(Append(s, l)) /\ l \notin ToSet(s) /\ ToSet(Append(s, l)) = ToSet(s) \cup {l}
<1>1. ASSUME NEW i \in DOMAIN s PROVE s[i] < l
  <2>1. /\ Len(s) \in DOMAIN s /\ i \in 1 .. Len(s) /\ s # <<>>
        /\ s[i] \in LockId /\ s[Len(s)] \in LockId
    OBVIOUS
  <2>2. s[Len(s)] < l
    <3>1. Last(s) = s[Len(s)]
      BY DEF Last
    <3> QED
      BY <2>1, <3>1, LockAssumption
  <2>3. CASE i = Len(s)
    BY <2>2, <2>3
  <2>4. CASE i # Len(s)
    <3>1. s[i] < s[Len(s)]
      BY <2>1, <2>4 DEF Increasing
    <3>2. s[i] \in Nat /\ s[Len(s)] \in Nat /\ l \in Nat
      BY <2>1, LockAssumption
    <3> QED
      BY <2>2, <3>1, <3>2
  <2> QED
    BY <2>3, <2>4
<1>2. l \notin ToSet(s)
  BY <1>1, LockAssumption DEF ToSet
<1>3. Increasing(Append(s, l))
  BY <1>1, LockAssumption DEF Increasing
<1>4. \A i \in DOMAIN s : Append(s, l)[i] = s[i] /\ i \in DOMAIN Append(s, l)
  OBVIOUS
<1>5. Append(s, l)[Len(s) + 1] = l /\ DOMAIN Append(s, l) = DOMAIN s \cup {Len(s) + 1}
  OBVIOUS
<1>6. ToSet(Append(s, l)) = ToSet(s) \cup {l}
  BY <1>4, <1>5 DEF ToSet
<1> QED
  BY <1>2, <1>3, <1>6

-----------------------------------------------------------------------------
\* The invariant of the locks holds at the start.
LEMMA InitLocks == Init => LockInv
BY LockAssumption
DEF Init, LockInv, LockTypeOK, DropsAfterRecovery, HeldInOrder, RecordsAgree, ToSet

\* What taking a lock does, when the order allows it.
LEMMA TakesKeeps ==
  ASSUME LockInv, NEW t \in Task, NEW l \in LockId, wants[t] = l, Takes(t, l),
         UNCHANGED <<dropping, bypassed>>
  PROVE  LockInv'
<1> USE LockAssumption
<1>1. CASE ~InOrder(t, l)
  BY <1>1 DEF Takes, LockInv, LockTypeOK, DropsAfterRecovery, HeldInOrder, RecordsAgree
<1>2. CASE InOrder(t, l)
  <2> DEFINE s == held[t]
  <2>1. s \in Seq(LockId) /\ Increasing(s)
    BY DEF LockInv, LockTypeOK, HeldInOrder, Increasing
  <2>2. s = <<>> \/ l > Last(s)
    BY <1>2 DEF InOrder
  <2>3. /\ held' = [held EXCEPT ![t] = Append(s, l)]
        /\ guards' = [guards EXCEPT ![t][l] = @ + 1]
        /\ wants' = [wants EXCEPT ![t] = Free]
    BY <1>2 DEF Takes
  <2>4. LockTypeOK'
    BY <2>3 DEF LockInv, LockTypeOK
  <2>5. Increasing(Append(s, l)) /\ l \notin ToSet(s) /\ ToSet(Append(s, l)) = ToSet(s) \cup {l}
    BY <2>1, <2>2, AppendKeepsOrder
  <2>6. Len(Append(s, l)) <= MaxHeld
    BY <1>2, <2>1 DEF InOrder, LockInv, HeldInOrder
  <2>7. \A u \in Task : held'[u] = IF u = t THEN Append(s, l) ELSE held[u]
    BY <2>3 DEF LockInv, LockTypeOK
  <2>8. HeldInOrder'
    BY <2>5, <2>6, <2>7 DEF LockInv, HeldInOrder, Increasing
  <2>9. \A u \in Task, m \in LockId :
          guards'[u][m] = IF u = t /\ m = l THEN guards[t][l] + 1 ELSE guards[u][m]
    BY <2>3 DEF LockInv, LockTypeOK
  <2>10. RecordsAgree'
    <3> SUFFICES ASSUME NEW u \in Task, NEW m \in LockId
                 PROVE  /\ m \in ToSet(held'[u]) => guards'[u][m] > 0
                        /\ u \notin bypassed =>
                             guards'[u][m] = IF m \in ToSet(held'[u]) THEN 1 ELSE 0
      BY DEF RecordsAgree
    <3>1. /\ guards[u][m] \in Nat
          /\ m \in ToSet(held[u]) => guards[u][m] > 0
          /\ u \notin bypassed => guards[u][m] = IF m \in ToSet(held[u]) THEN 1 ELSE 0
      BY DEF LockInv, LockTypeOK, RecordsAgree
    <3>2. CASE u = t /\ m = l
      BY <3>1, <3>2, <2>5, <2>7, <2>9
    <3>3. CASE ~(u = t /\ m = l)
      BY <3>1, <3>3, <2>5, <2>7, <2>9
    <3> QED
      BY <3>2, <3>3
  <2>11. DropsAfterRecovery'
    BY DEF LockInv, DropsAfterRecovery
  <2> QED
    BY <2>4, <2>8, <2>10, <2>11 DEF LockInv
<1> QED
  BY <1>1, <1>2

\* Removing the record of a lock, with a guard of it or past the guards.
LEMMA RemovalKeeps ==
  ASSUME LockInv, NEW t \in Task, NEW l \in LockId,
         held' = [held EXCEPT ![t] = Without(@, l)],
         \/ guards' = guards /\ t \in bypassed'
         \/ guards' = [guards EXCEPT ![t][l] = @ - 1] /\ guards[t][l] > 0,
         wants' \in [Task -> LockId \cup {Free}],
         dropping' \in [Task -> Seq(LockId)],
         \A u \in Task : dropping'[u] # <<>> => dropping[u] # <<>>,
         bypassed \subseteq bypassed', bypassed' \subseteq Task
  PROVE  LockInv'
<1> USE LockAssumption
<1> DEFINE s == held[t]
           w == Without(s, l)
<1>1. s \in Seq(LockId) /\ Increasing(s) /\ Len(s) <= MaxHeld
  BY DEF LockInv, LockTypeOK, HeldInOrder, Increasing
<1>2. /\ w \in Seq(LockId) /\ Len(w) <= Len(s) /\ Increasing(w)
      /\ ToSet(w) = ToSet(s) \ {l}
  BY <1>1, WithoutRemoves
<1> HIDE DEF w
<1>3. held' \in [Task -> Seq(LockId)] /\ \A u \in Task : held'[u] = IF u = t THEN w ELSE held[u]
  BY <1>2 DEF LockInv, LockTypeOK, w
<1>4. Len(w) <= MaxHeld
  BY <1>1, <1>2
<1>5. HeldInOrder'
  BY <1>2, <1>3, <1>4 DEF LockInv, HeldInOrder, Increasing
<1>6. guards' \in [Task -> [LockId -> Nat]]
  <2>1. guards \in [Task -> [LockId -> Nat]]
    BY DEF LockInv, LockTypeOK
  <2>2. CASE guards[t][l] > 0 /\ guards' = [guards EXCEPT ![t][l] = @ - 1]
    <3>1. guards[t][l] - 1 \in Nat
      BY <2>1, <2>2
    <3> QED
      BY <2>1, <2>2, <3>1
  <2> QED
    BY <2>1, <2>2
<1>7. LockTypeOK' /\ DropsAfterRecovery'
  BY <1>3, <1>6 DEF LockInv, LockTypeOK, DropsAfterRecovery
<1>8. RecordsAgree'
  <2> SUFFICES ASSUME NEW u \in Task, NEW m \in LockId
               PROVE  /\ m \in ToSet(held'[u]) => guards'[u][m] > 0
                      /\ u \notin bypassed' =>
                           guards'[u][m] = IF m \in ToSet(held'[u]) THEN 1 ELSE 0
    BY DEF RecordsAgree
  <2>1. /\ guards[u][m] \in Nat
        /\ m \in ToSet(held[u]) => guards[u][m] > 0
        /\ u \notin bypassed => guards[u][m] = IF m \in ToSet(held[u]) THEN 1 ELSE 0
    BY DEF LockInv, LockTypeOK, RecordsAgree
  <2>2. m \in ToSet(held'[u]) <=> m \in ToSet(held[u]) /\ ~(u = t /\ m = l)
    BY <1>2, <1>3
  <2>3. CASE guards' = guards /\ t \in bypassed'
    BY <2>1, <2>2, <2>3
  <2>4. CASE guards' = [guards EXCEPT ![t][l] = @ - 1] /\ guards[t][l] > 0
    <3>1. guards'[u][m] = IF u = t /\ m = l THEN guards[u][m] - 1 ELSE guards[u][m]
      BY <2>4 DEF LockInv, LockTypeOK
    <3> QED
      BY <2>1, <2>2, <2>4, <3>1
  <2> QED
    BY <2>3, <2>4
<1> QED
  BY <1>5, <1>7, <1>8 DEF LockInv

\* A step that leaves the records and the guards alone.
LEMMA RecordsUntouched ==
  ASSUME LockInv, UNCHANGED <<held, guards, dropping, bypassed>>,
         wants' \in [Task -> LockId \cup {Free}]
  PROVE  LockInv'
BY DEF LockInv, LockTypeOK, DropsAfterRecovery, HeldInOrder, RecordsAgree

\* It holds through one turn of a task that wants a lock.
LEMMA TurnKeeps ==
  ASSUME LockInv, NEW t \in Task, NEW l \in LockId, Turn(t, l)
  PROVE  LockInv'
<1>1. wants[t] = l /\ UNCHANGED <<dropping, bypassed>>
  BY DEF Turn
<1>2. wants \in [Task -> LockId \cup {Free}]
  BY DEF LockInv, LockTypeOK
<1>3. CASE Takes(t, l)
  BY <1>1, <1>3, TakesKeeps
<1>4. CASE GivesUp(t)
  BY <1>1, <1>2, <1>4, RecordsUntouched DEF GivesUp
<1>5. CASE Blocks(t) \/ Resumes(t)
  BY <1>1, <1>2, <1>5, RecordsUntouched DEF Blocks, Resumes
<1>6. Takes(t, l) \/ GivesUp(t) \/ Blocks(t) \/ Resumes(t)
  <2>1. CASE t \in blocked
    BY <2>1 DEF Turn
  <2>2. CASE t \notin blocked
    <3>1. CASE owner[l] = Free
      <4>1. owner[l] # t
        BY <3>1, LockAssumption
      <4> QED
        BY <2>2, <3>1, <4>1 DEF Turn
    <3>2. CASE owner[l] = t
      <4>1. owner[l] # Free
        BY <3>2, LockAssumption
      <4> QED
        BY <2>2, <3>2, <4>1 DEF Turn
    <3>3. CASE owner[l] \notin {Free, t}
      BY <2>2, <3>3 DEF Turn
    <3> QED
      BY <3>1, <3>2, <3>3
  <2> QED
    BY <2>1, <2>2
<1> QED
  BY <1>3, <1>4, <1>5, <1>6

\* The recovery: the records of t are cleared, its guards stay.
LEMMA RecoveryKeeps ==
  ASSUME LockInv, NEW t \in Task, release_all_held_locks(t)
  PROVE  LockInv'
<1> USE DEF release_all_held_locks
<1>1. \A u \in Task : /\ held'[u] = IF u = t THEN <<>> ELSE held[u]
                      /\ dropping'[u] = IF u = t THEN held[t] ELSE dropping[u]
  BY DEF LockInv, LockTypeOK
<1>2. LockTypeOK'
  BY DEF LockInv, LockTypeOK
<1>3. DropsAfterRecovery'
  BY <1>1 DEF LockInv, DropsAfterRecovery
<1>4. HeldInOrder'
  BY <1>1, LockAssumption DEF LockInv, HeldInOrder
<1>5. RecordsAgree'
  BY <1>1 DEF LockInv, RecordsAgree, ToSet
<1> QED
  BY <1>2, <1>3, <1>4, <1>5 DEF LockInv

\* It holds when a guard is dropped.
LEMMA DropsKeeps ==
  ASSUME LockInv, NEW t \in Task, Drops(t)
  PROVE  LockInv'
<1> DEFINE l == Head(dropping[t])
<1>1. l \in LockId /\ dropping' \in [Task -> Seq(LockId)] /\ t \in bypassed
  BY DEF Drops, LockInv, LockTypeOK, DropsAfterRecovery
<1>2. \A u \in Task : dropping'[u] # <<>> => dropping[u] # <<>>
  BY DEF Drops, LockInv, LockTypeOK
<1>3. /\ wants' \in [Task -> LockId \cup {Free}] /\ guards' = guards
      /\ bypassed' = bypassed /\ bypassed \subseteq Task
  BY DEF Drops, LockInv, LockTypeOK
<1>4. CASE l \in ToSet(registered)
  <2>1. held' = [held EXCEPT ![t] = Without(@, l)]
    BY <1>4 DEF Drops
  <2> HIDE DEF l
  <2> QED
    BY <1>1, <1>2, <1>3, <2>1, RemovalKeeps
<1>5. CASE l \notin ToSet(registered)
  <2>1. held' = held
    BY <1>5 DEF Drops
  <2> HIDE DEF l
  <2> QED
    BY <1>1, <1>2, <1>3, <2>1
    DEF LockInv, LockTypeOK, DropsAfterRecovery, HeldInOrder, RecordsAgree
<1> QED
  BY <1>4, <1>5

\* No step of a task breaks it.
LEMMA LockStep == LockInv /\ [Next]_vars => LockInv'
<1> SUFFICES ASSUME LockInv, [Next]_vars PROVE LockInv'
  OBVIOUS
<1>1. ASSUME NEW t \in Task, release_all_held_locks(t) PROVE LockInv'
  BY <1>1, RecoveryKeeps
<1>2. ASSUME NEW t \in Task, Drops(t) PROVE LockInv'
  BY <1>2, DropsKeeps
<1>3. ASSUME NEW t \in Task, NEW l \in LockId, Call(t, l) PROVE LockInv'
  BY <1>3, RecordsUntouched DEF Call, LockInv, LockTypeOK
<1>4. ASSUME NEW t \in Task, NEW l \in LockId, Turn(t, l) PROVE LockInv'
  BY <1>4, TurnKeeps
<1>5. ASSUME NEW t \in Task, NEW l \in LockId, Release(t, l) PROVE LockInv'
  <2>1. /\ held' = [held EXCEPT ![t] = Without(@, l)]
        /\ guards' = [guards EXCEPT ![t][l] = @ - 1] /\ guards[t][l] > 0
        /\ UNCHANGED <<wants, dropping, bypassed>>
    BY <1>5 DEF Release, release_lock
  <2>2. /\ wants' \in [Task -> LockId \cup {Free}] /\ dropping' \in [Task -> Seq(LockId)]
        /\ bypassed' \subseteq Task
    BY <2>1 DEF LockInv, LockTypeOK
  <2>3. \A u \in Task : dropping'[u] # <<>> => dropping[u] # <<>>
    BY <2>1
  <2> QED
    BY <2>1, <2>2, <2>3, RemovalKeeps
<1>6. ASSUME NEW t \in Task, NEW l \in LockId, unlock(t, l) PROVE LockInv'
  <2>1. /\ held' = [held EXCEPT ![t] = Without(@, l)]
        /\ guards' = guards /\ bypassed' = bypassed \cup {t}
        /\ UNCHANGED <<wants, dropping>>
    BY <1>6 DEF unlock, release_lock
  <2>2. /\ wants' \in [Task -> LockId \cup {Free}] /\ dropping' \in [Task -> Seq(LockId)]
        /\ bypassed \subseteq bypassed' /\ bypassed' \subseteq Task /\ t \in bypassed'
    BY <2>1 DEF LockInv, LockTypeOK
  <2>3. \A u \in Task : dropping'[u] # <<>> => dropping[u] # <<>>
    BY <2>1
  <2> QED
    BY <2>1, <2>2, <2>3, RemovalKeeps
<1>7. ASSUME NEW l \in LockId, Register(l) PROVE LockInv'
  BY <1>7, RecordsUntouched DEF Register, LockInv, LockTypeOK
<1>8. CASE UNCHANGED vars
  BY <1>8, RecordsUntouched DEF vars, LockInv, LockTypeOK
<1> QED
  BY <1>1, <1>2, <1>3, <1>4, <1>5, <1>6, <1>7, <1>8 DEF Next

\* So it holds always.
LEMMA LockInvariant == Spec => []LockInv
BY InitLocks, LockStep, PTL DEF Spec

-----------------------------------------------------------------------------
\* The records of held locks increase and fit, which is what makes the check
\* against the last record (held_check_order) enough.
THEOREM LocksInOrder == Spec => []HeldInOrder
<1>1. LockInv => HeldInOrder
  BY DEF LockInv
<1> QED
  BY <1>1, LockInvariant, PTL

\* Every record belongs to a guard, also after unlock and the recovery, and a
\* task that has used neither has one record for each guard (held_push,
\* held_remove).
THEOREM RecordsMatchGuards == Spec => []RecordsAgree
<1>1. LockInv => RecordsAgree
  BY DEF LockInv
<1> QED
  BY <1>1, LockInvariant, PTL

-----------------------------------------------------------------------------
(* Alignment *)

\* Division rounds down by less than the divisor.
LEMMA Quotient ==
  ASSUME NEW a \in Nat, NEW w \in Nat \ {0}
  PROVE  a \div w \in Nat /\ (a \div w) * w <= a /\ a < (a \div w) * w + w
OBVIOUS

\* A multiple leaves no rest.
LEMMA MultipleMod ==
  ASSUME NEW q \in Nat, NEW w \in Nat \ {0}
  PROVE  (q * w) % w = 0 /\ q * w \in Nat
OBVIOUS

\* align_up rounds to a multiple, and never down.
LEMMA AlignUp ==
  ASSUME NEW v \in Nat, NEW a \in Nat \ {0}
  PROVE  align_up(v, a) \in Nat /\ align_up(v, a) >= v /\ align_up(v, a) % a = 0
<1> DEFINE q == (v + a - 1) \div a
<1>1. v + a - 1 \in Nat
  OBVIOUS
<1>2. q \in Nat /\ q * a <= v + a - 1 /\ v + a - 1 < q * a + a
  BY <1>1, Quotient
<1>3. align_up(v, a) = q * a
  BY DEF align_up
<1> HIDE DEF q
<1>4. (q * a) % a = 0 /\ q * a \in Nat
  BY <1>2, MultipleMod
<1> QED BY <1>2, <1>3, <1>4

\* align_down rounds to a multiple, down by less than one, and so not below a
\* multiple that was not above.
LEMMA AlignDown ==
  ASSUME NEW v \in Nat, NEW a \in Nat \ {0}
  PROVE  /\ align_down(v, a) \in Nat /\ align_down(v, a) <= v /\ v < align_down(v, a) + a
         /\ \A b \in Nat : b <= v /\ b % a = 0 => b <= align_down(v, a)
<1> DEFINE q == v \div a
<1>1. q \in Nat /\ q * a <= v /\ v < q * a + a
  BY Quotient
<1>2. align_down(v, a) = q * a
  BY DEF align_down
<1>3. q * a \in Nat
  BY <1>1, MultipleMod
<1>4. ASSUME NEW b \in Nat, b <= v, b % a = 0 PROVE b <= q * a
  <2> DEFINE c == b \div a
  <2>1. c \in Nat /\ b = c * a
    BY <1>4
  <2> HIDE DEF c, q
  <2>2. c * a < (q + 1) * a
    BY <1>1, <1>3, <1>4, <2>1
  <2>3. c < q + 1
    BY <1>1, <2>1, <2>2
  <2>4. c * a <= q * a
    BY <1>1, <2>1, <2>3
  <2> QED BY <2>1, <2>4
<1> QED BY <1>1, <1>2, <1>3, <1>4

-----------------------------------------------------------------------------
(* Sums of payload sizes *)

\* F gives the sum of f over every subset of S.
IsSum(F, f, S) ==
  /\ F \in [SUBSET S -> Nat] /\ F[{}] = 0
  /\ \A s \in SUBSET S : \A x \in s : F[s] = f[x] + F[s \ {x}]

\* A finite set has such sums, whatever the order of summation.
LEMMA SumExists ==
  ASSUME NEW S, IsFiniteSet(S), NEW f \in [S -> Nat]
  PROVE  \E F : IsSum(F, f, S)
<1> DEFINE lacks == {n \in Nat : \E T \in SUBSET S : /\ Cardinality(T) = n
                                                    /\ ~(\E F : IsSum(F, f, T))}
<1> SUFFICES ASSUME lacks # {} PROVE FALSE
  <2>1. S \in SUBSET S /\ Cardinality(S) \in Nat
    BY FS_CardinalityType
  <2> QED BY <2>1
<1>1. lacks \subseteq Nat
  OBVIOUS
<1> HIDE DEF lacks
<1>2. Min(lacks) \in lacks /\ \A n \in lacks : Min(lacks) <= n
  BY <1>1, MinInSet
<1>3. PICK T \in SUBSET S : Cardinality(T) = Min(lacks) /\ ~(\E F : IsSum(F, f, T))
  BY <1>2 DEF lacks
<1>4. T # {}
  <2> SUFFICES ASSUME T = {} PROVE FALSE
    OBVIOUS
  <2> DEFINE F == [s \in {{}} |-> 0]
  <2>1. IsSum(F, f, T)
    BY DEF IsSum
  <2> QED BY <1>3, <2>1
<1>5. PICK e \in T : TRUE
  BY <1>4
<1> DEFINE U == T \ {e}
<1>6. \E F : IsSum(F, f, U)
  <2>1. IsFiniteSet(T)
    BY FS_Subset
  <2>2. Cardinality(U) = Cardinality(T) - 1 /\ Cardinality(T) \in Nat /\ Cardinality(U) \in Nat
    BY <1>5, <2>1, FS_RemoveElement, FS_CardinalityType
  <2>3. ~(Cardinality(U) \in lacks)
    BY <1>2, <1>3, <2>2
  <2>4. U \in SUBSET S
    OBVIOUS
  <2> QED BY <2>2, <2>3, <2>4 DEF lacks
<1>7. PICK G : IsSum(G, f, U)
  BY <1>6
<1> DEFINE F == [s \in SUBSET T |-> IF e \in s THEN f[e] + G[s \ {e}] ELSE G[s]]
<1>8. F \in [SUBSET T -> Nat] /\ F[{}] = 0
  <2>1. ASSUME NEW s \in SUBSET T PROVE F[s] \in Nat
    <3>1. s \ {e} \in SUBSET U /\ (e \notin s => s \in SUBSET U)
      OBVIOUS
    <3>2. f[e] \in Nat
      BY <1>5
    <3> QED BY <1>7, <3>1, <3>2 DEF IsSum
  <2>2. {} \in SUBSET T
    OBVIOUS
  <2> QED BY <1>7, <2>1, <2>2 DEF IsSum
<1>9. ASSUME NEW s \in SUBSET T, NEW x \in s PROVE F[s] = f[x] + F[s \ {x}]
  <2>0. /\ s \ {x} \in SUBSET T /\ s \ {e} \in SUBSET U
        /\ f[x] \in Nat /\ f[e] \in Nat
    OBVIOUS
  <2>1. CASE x = e
    <3>1. F[s \ {x}] = G[s \ {e}]
      BY <2>0, <2>1
    <3> QED BY <2>0, <2>1, <3>1
  <2>2. CASE x # e /\ e \in s
    <3>1. F[s \ {x}] = f[e] + G[(s \ {x}) \ {e}]
      BY <2>0, <2>2
    <3>2. G[s \ {e}] = f[x] + G[(s \ {e}) \ {x}]
      BY <1>7, <2>0, <2>2 DEF IsSum
    <3>3. (s \ {e}) \ {x} = (s \ {x}) \ {e}
      OBVIOUS
    <3>4. (s \ {x}) \ {e} \in SUBSET U
      OBVIOUS
    <3>5. G[(s \ {x}) \ {e}] \in Nat
      BY <1>7, <3>4 DEF IsSum
    <3>6. F[s] = f[e] + G[s \ {e}]
      BY <2>2
    <3> HIDE DEF F
    <3> QED BY <2>0, <3>1, <3>2, <3>3, <3>5, <3>6
  <2>3. CASE e \notin s
    <3>1. s \in SUBSET U /\ e \notin s \ {x}
      BY <2>3
    <3>2. F[s] = G[s] /\ F[s \ {x}] = G[s \ {x}]
      BY <2>0, <2>3, <3>1
    <3> QED BY <1>7, <3>1, <3>2 DEF IsSum
  <2> QED BY <2>1, <2>2, <2>3
<1>10. IsSum(F, f, T)
  <2> HIDE DEF F
  <2> QED BY <1>8, <1>9 DEF IsSum
<1> QED BY <1>3, <1>10

\* What the allocations in L have asked for, as the arena m has it.
Owed(m, L) == MapThenSumSet(LAMBDA p : m.size[m.slot[p - Slot]], L)

\* What stats counts as live is such a sum.
LEMMA OwedIs ==
  ASSUME NEW m, NEW S, IsFiniteSet(S), NEW f \in [S -> Nat], NEW F, IsSum(F, f, S),
         NEW L \in SUBSET S, \A q \in L : f[q] = m.size[m.slot[q - Slot]]
  PROVE  Owed(m, L) = F[L]
<1> DEFINE c(s) == CHOOSE x \in s : TRUE
           g(it) == [s \in SUBSET L |-> IF s = {} THEN 0
                                        ELSE m.size[m.slot[c(s) - Slot]] + it[s \ {c(s)}]]
           iter == CHOOSE it : it = g(it)
           R == [s \in SUBSET L |-> F[s]]
<1>1. Owed(m, L) = iter[L]
  BY DEF Owed, MapThenSumSet, MapThenFoldSet
<1>2. R = g(R)
  <2>1. ASSUME NEW s \in SUBSET L
        PROVE  F[s] = IF s = {} THEN 0 ELSE m.size[m.slot[c(s) - Slot]] + F[s \ {c(s)}]
    <3>1. CASE s = {}
      BY <3>1 DEF IsSum
    <3>2. CASE s # {}
      <4>1. c(s) \in s
        BY <3>2
      <4>2. s \in SUBSET S
        OBVIOUS
      <4>3. F[s] = f[c(s)] + F[s \ {c(s)}]
        BY <4>1, <4>2 DEF IsSum
      <4> QED BY <3>2, <4>1, <4>3
    <3> QED BY <3>1, <3>2
  <2>2. ASSUME NEW s \in SUBSET L PROVE R[s \ {c(s)}] = F[s \ {c(s)}]
    <3>1. s \ {c(s)} \in SUBSET L
      OBVIOUS
    <3> QED BY <3>1
  <2> HIDE DEF c
  <2> QED BY <2>1, <2>2
<1>3. iter = g(iter)
  BY <1>2
<1> HIDE DEF iter
<1> DEFINE wrong == {n \in Nat : \E s \in SUBSET L : Cardinality(s) = n /\ iter[s] # F[s]}
<1>4. wrong = {}
  <2> SUFFICES ASSUME wrong # {} PROVE FALSE
    OBVIOUS
  <2>1. wrong \subseteq Nat
    OBVIOUS
  <2> HIDE DEF wrong
  <2>2. Min(wrong) \in wrong /\ \A n \in wrong : Min(wrong) <= n
    BY <2>1, MinInSet
  <2>3. PICK s \in SUBSET L : Cardinality(s) = Min(wrong) /\ iter[s] # F[s]
    BY <2>2 DEF wrong
  <2>4. s # {}
    BY <1>3, <2>3 DEF IsSum
  <2>5. c(s) \in s
    BY <2>4
  <2>6. s \in SUBSET S /\ s \ {c(s)} \in SUBSET L
    OBVIOUS
  <2>7. iter[s] = f[c(s)] + iter[s \ {c(s)}]
    <3> HIDE DEF c
    <3>1. g(iter)[s] = m.size[m.slot[c(s) - Slot]] + iter[s \ {c(s)}]
      BY <2>4
    <3> HIDE DEF g
    <3>2. f[c(s)] = m.size[m.slot[c(s) - Slot]]
      BY <2>5
    <3> QED BY <1>3, <3>1, <3>2
  <2>8. F[s] = f[c(s)] + F[s \ {c(s)}]
    BY <2>5, <2>6 DEF IsSum
  <2>9. iter[s \ {c(s)}] # F[s \ {c(s)}]
    BY <2>3, <2>7, <2>8
  <2>10. IsFiniteSet(s)
    BY FS_Subset
  <2>11. Cardinality(s \ {c(s)}) = Cardinality(s) - 1 /\ Cardinality(s) \in Nat /\ Cardinality(s \ {c(s)}) \in Nat
    BY <2>5, <2>10, FS_RemoveElement, FS_CardinalityType
  <2>12. Cardinality(s \ {c(s)}) \in wrong
    BY <2>6, <2>9, <2>11 DEF wrong
  <2> QED BY <2>2, <2>3, <2>11, <2>12
<1>5. IsFiniteSet(L) /\ Cardinality(L) \in Nat
  BY FS_Subset, FS_CardinalityType
<1>6. L \in SUBSET L
  OBVIOUS
<1>7. iter[L] = F[L]
  <2> SUFFICES ASSUME iter[L] # F[L] PROVE FALSE
    OBVIOUS
  <2>1. Cardinality(L) \in wrong
    BY <1>5, <1>6
  <2> QED BY <1>4, <2>1
<1> QED BY <1>1, <1>7

\* One allocation more, or one less, the others as they were.
LEMMA OwedStep ==
  ASSUME NEW m, NEW L, IsFiniteSet(L), NEW p, p \notin L, NEW big,
         big.size[big.slot[p - Slot]] \in Nat,
         \A q \in L : /\ m.size[m.slot[q - Slot]] \in Nat
                      /\ big.size[big.slot[q - Slot]] = m.size[m.slot[q - Slot]]
  PROVE  /\ Owed(m, L) \in Nat
         /\ Owed(big, L \cup {p}) = Owed(m, L) + big.size[big.slot[p - Slot]]
<1> DEFINE S == L \cup {p}
           f == [q \in S |-> big.size[big.slot[q - Slot]]]
<1>1. IsFiniteSet(S)
  BY FS_AddElement
<1>2. f \in [S -> Nat]
  OBVIOUS
<1>3. /\ \A q \in L : f[q] = m.size[m.slot[q - Slot]]
      /\ \A q \in S : f[q] = big.size[big.slot[q - Slot]]
  OBVIOUS
<1>4. L \in SUBSET S /\ S \in SUBSET S /\ S \ {p} = L /\ p \in S
  OBVIOUS
<1>5. f[p] = big.size[big.slot[p - Slot]]
  OBVIOUS
<1> HIDE DEF S, f
<1>6. PICK F : IsSum(F, f, S)
  BY <1>1, <1>2, SumExists
<1>7. Owed(m, L) = F[L]
  BY <1>1, <1>2, <1>3, <1>4, <1>6, OwedIs
<1>8. Owed(big, S) = F[S]
  BY <1>1, <1>2, <1>3, <1>4, <1>6, OwedIs
<1>9. F[S] = f[p] + F[S \ {p}] /\ F[L] \in Nat
  BY <1>4, <1>6 DEF IsSum
<1>10. Owed(big, S) = Owed(m, L) + f[p]
  <2>1. f[p] \in Nat
    BY <1>2, <1>4
  <2>2. F[S] = f[p] + F[L]
    BY <1>4, <1>9
  <2> QED BY <1>7, <1>8, <1>9, <2>1, <2>2
<1> QED BY <1>5, <1>7, <1>9, <1>10 DEF S

\* Nothing allocated, nothing owed.
LEMMA OwedNothing == ASSUME NEW m PROVE Owed(m, {}) = 0
<1> DEFINE f == [q \in {} |-> 0]
<1>1. IsFiniteSet({})
  BY FS_EmptySet
<1>2. f \in [{} -> Nat]
  OBVIOUS
<1> HIDE DEF f
<1>3. PICK F : IsSum(F, f, {})
  BY <1>1, <1>2, SumExists
<1>4. {} \in SUBSET {} /\ \A q \in {} : f[q] = m.size[m.slot[q - Slot]]
  OBVIOUS
<1>5. Owed(m, {}) = F[{}]
  BY <1>1, <1>2, <1>3, <1>4, OwedIs
<1> QED BY <1>3, <1>5 DEF IsSum

-----------------------------------------------------------------------------
(* The arena *)

\* The blocks of an arena m: in its carved part, one behind the other, each
\* with a header and a pointer slot.
BlocksInv(m) ==
  /\ m \in [bump : 0..Region, total : {m.total}, size : {m.size}, slot : {m.slot},
            free : {m.free}, live : Nat]
  /\ DOMAIN m.size = DOMAIN m.total
  /\ \A h \in DOMAIN m.total :
       /\ h \in Nat /\ h >= Base /\ m.total[h] \in Nat /\ m.size[h] \in Nat \ {0}
       /\ m.total[h] >= Hdr + Slot + 1 /\ h + m.total[h] <= Base + m.bump
  /\ \A h, g \in DOMAIN m.total : h < g => h + m.total[h] <= g

\* Its blocks are free or belong to one allocation of L each.
SharedOut(m, L) ==
  /\ m.free \in Seq(DOMAIN m.total)
  /\ \A i, j \in DOMAIN m.free : m.free[i] = m.free[j] => i = j
  /\ \A p \in L : m.slot[p - Slot] \notin ToSet(m.free)
  /\ \A p, q \in L : m.slot[p - Slot] = m.slot[q - Slot] => p = q
  /\ DOMAIN m.total = ToSet(m.free) \cup {m.slot[p - Slot] : p \in L}

\* Each allocation lies in its block.
Lodged(m, L) ==
  \A p \in L : LET h == m.slot[p - Slot]
               IN  /\ p \in Nat /\ p - Slot \in DOMAIN m.slot /\ h \in DOMAIN m.total
                   /\ p >= h + Hdr + Slot /\ p + m.size[h] <= h + m.total[h]

\* The figures of stats.
Counted(m, L) ==
  /\ IsFiniteSet(L) /\ IsFiniteSet(DOMAIN m.total)
  /\ Cardinality(DOMAIN m.total) = Len(m.free) + Cardinality(L)
  /\ m.live = Owed(m, L)

ArenaInv(m, L) == BlocksInv(m) /\ SharedOut(m, L) /\ Lodged(m, L) /\ Counted(m, L)

\* A payload is aligned and lies behind its header and pointer slot.
LEMMA PayloadOf ==
  ASSUME NEW h \in Nat, NEW align \in Nat \ {0}
  PROVE  /\ payload_of(h, align) \in Nat /\ payload_of(h, align) >= h + Hdr + Slot
         /\ payload_of(h, align) % align = 0
<1>1. h + Hdr + Slot \in Nat
  BY ArenaAssumption
<1> QED BY <1>1, AlignUp DEF payload_of

\* The null pointer is not in the arena, and neither is a payload above bump.
LEMMA Below ==
  ASSUME NEW m, NEW L, ArenaInv(m, L), NEW p \in L
  PROVE  p \in Nat /\ p # NoPtr /\ p < Base + m.bump
BY ArenaAssumption DEF ArenaInv, BlocksInv, Lodged, NoPtr

\* An allocation that succeeds hands out an aligned payload of its own.
Grants(new, L, align) ==
  /\ new.ptr \in Nat \ {NoPtr} /\ new.ptr \notin L /\ new.ptr % align = 0
  /\ ArenaInv(new.mem, L \cup {new.ptr})

\* Reusing a free block takes it off the list, and leaves the others there.
LEMMA RecycledKeeps ==
  ASSUME NEW m, NEW L, ArenaInv(m, L), NEW i \in DOMAIN m.free,
         NEW size \in Nat \ {0}, NEW align \in Nat \ {0}, Fits(m, m.free[i], size, align)
  PROVE  /\ Grants(Recycled(m, i, size, align), L, align)
         /\ Recycled(m, i, size, align).mem.total = m.total
<1> DEFINE h == m.free[i]
           p == payload_of(h, align)
           r == RemoveAt(m.free, i)
           S == With(m.slot, p - Slot, h)
           Z == With(m.size, h, size)
           big == [m EXCEPT !.free = r, !.slot = S, !.size = Z, !.live = @ + size]
           M == L \cup {p}
<1>1. Recycled(m, i, size, align) = [ptr |-> p, mem |-> big]
  BY DEF Recycled
<1>2. h \in DOMAIN m.total /\ h \in Nat /\ h >= Base /\ h \in ToSet(m.free)
  BY DEF ArenaInv, BlocksInv, SharedOut, ToSet
<1>3. p \in Nat /\ p >= h + Hdr + Slot /\ p % align = 0 /\ p + size <= h + m.total[h]
  BY <1>2, PayloadOf DEF Fits
<1> HIDE DEF h, p
<1>4. p # NoPtr /\ p - Slot \in Nat
  BY <1>2, <1>3, ArenaAssumption DEF NoPtr
<1>5. p \notin L
  <2> SUFFICES ASSUME p \in L PROVE FALSE
    OBVIOUS
  <2> DEFINE g == m.slot[p - Slot]
  <2>1. /\ g \in DOMAIN m.total /\ g # h /\ g \in Nat /\ h \in Nat
        /\ p >= g + Hdr + Slot /\ p + m.size[g] <= g + m.total[g]
        /\ m.size[g] \in Nat \ {0} /\ m.total[g] \in Nat /\ m.total[h] \in Nat
    BY <1>2 DEF ArenaInv, BlocksInv, SharedOut, Lodged
  <2>2. (g < h => g + m.total[g] <= h) /\ (h < g => h + m.total[h] <= g)
    BY <1>2, <2>1 DEF ArenaInv, BlocksInv
  <2> HIDE DEF g
  <2> QED BY <1>3, <2>1, <2>2, ArenaAssumption
<1>6. /\ r \in Seq(DOMAIN m.total) /\ Len(r) = Len(m.free) - 1 /\ ToSet(r) = ToSet(m.free) \ {h}
      /\ \A j, k \in DOMAIN r : r[j] = r[k] => j = k
  <2>1. /\ m.free \in Seq(DOMAIN m.total)
        /\ \A j, k \in DOMAIN m.free : m.free[j] = m.free[k] => j = k
    BY DEF ArenaInv, SharedOut
  <2> QED BY <2>1, Removal DEF h
<1> HIDE DEF r
<1> HIDE DEF S, Z
<1>7. /\ big \in [bump : 0..Region, total : {m.total}, size : {Z}, slot : {S}, free : {r}, live : Nat]
      /\ big.bump = m.bump /\ big.live = m.live + size
  <2>1. m \in [bump : 0..Region, total : {m.total}, size : {m.size}, slot : {m.slot},
               free : {m.free}, live : Nat]
    BY DEF ArenaInv, BlocksInv
  <2>2. big.live = m.live + size /\ m.live + size \in Nat /\ big.bump = m.bump
    BY <2>1
  <2>3. [m EXCEPT !.free = r, !.slot = S, !.size = Z, !.live = m.live + size]
        \in [bump : 0..Region, total : {m.total}, size : {Z}, slot : {S}, free : {r}, live : Nat]
    BY <2>1, <2>2
  <2> QED BY <2>2, <2>3
<1> HIDE DEF big
<1>8. /\ big.bump = m.bump /\ big.total = m.total /\ big.free = r /\ big.live = m.live + size
      /\ big.size = With(m.size, h, size) /\ big.slot = With(m.slot, p - Slot, h)
  BY <1>7 DEF S, Z
<1>9. DOMAIN big.size = DOMAIN m.total
  BY <1>2, <1>8 DEF With, ArenaInv, BlocksInv
<1>10. \A g \in DOMAIN m.total : big.size[g] = IF g = h THEN size ELSE m.size[g]
  BY <1>8 DEF With, ArenaInv, BlocksInv
<1>11. big.slot[p - Slot] = h
  BY <1>8 DEF With
<1>12. \A q \in L : m.slot[q - Slot] \in DOMAIN m.total /\ m.slot[q - Slot] # h /\ q \in Nat
  BY <1>2 DEF ArenaInv, SharedOut, Lodged
<1>13. \A q \in L : big.slot[q - Slot] = m.slot[q - Slot]
  <2> TAKE q \in L
  <2>1. q - Slot # p - Slot
    BY <1>3, <1>5, <1>12, ArenaAssumption
  <2>2. q - Slot \in DOMAIN m.slot
    BY DEF ArenaInv, Lodged
  <2> QED BY <1>8, <2>1, <2>2 DEF With
<1>14. BlocksInv(big)
  BY <1>7, <1>8, <1>9, <1>10 DEF BlocksInv, ArenaInv
<1>15. SharedOut(big, M)
  <2>1. big.free \in Seq(DOMAIN big.total)
    BY <1>6, <1>8
  <2>2. \A j, k \in DOMAIN big.free : big.free[j] = big.free[k] => j = k
    BY <1>6, <1>8
  <2>3. \A q \in M : big.slot[q - Slot] \notin ToSet(big.free)
    BY <1>6, <1>8, <1>11, <1>13 DEF ArenaInv, SharedOut
  <2>4. \A q, s \in M : big.slot[q - Slot] = big.slot[s - Slot] => q = s
    BY <1>11, <1>12, <1>13 DEF ArenaInv, SharedOut
  <2>5. {big.slot[q - Slot] : q \in M} = {m.slot[q - Slot] : q \in L} \cup {h}
    BY <1>11, <1>13
  <2>6. DOMAIN big.total = ToSet(big.free) \cup {big.slot[q - Slot] : q \in M}
    BY <1>2, <1>6, <1>8, <2>5 DEF ArenaInv, SharedOut
  <2> QED BY <2>1, <2>2, <2>3, <2>4, <2>6 DEF SharedOut
<1>16. Lodged(big, M)
  <2> SUFFICES ASSUME NEW q \in M
               PROVE  LET g == big.slot[q - Slot]
                      IN  /\ q \in Nat /\ q - Slot \in DOMAIN big.slot /\ g \in DOMAIN big.total
                          /\ q >= g + Hdr + Slot /\ q + big.size[g] <= g + big.total[g]
    BY DEF Lodged
  <2>0. DOMAIN big.slot = DOMAIN m.slot \cup {p - Slot}
    BY <1>8 DEF With
  <2>1. CASE q = p
    BY <2>0, <2>1, <1>2, <1>3, <1>8, <1>10, <1>11
  <2>2. CASE q \in L
    BY <2>0, <2>2, <1>8, <1>10, <1>12, <1>13 DEF ArenaInv, Lodged
  <2> QED BY <2>1, <2>2
<1>17. Counted(big, M)
  <2>1. IsFiniteSet(L) /\ Cardinality(L) \in Nat
    BY FS_CardinalityType DEF ArenaInv, Counted
  <2>2. IsFiniteSet(M) /\ Cardinality(M) = Cardinality(L) + 1
    BY <1>5, <2>1, FS_AddElement
  <2>3. Len(m.free) \in Nat
    BY DEF ArenaInv, SharedOut
  <2>4. /\ big.size[big.slot[p - Slot]] = size
        /\ \A q \in L : /\ m.size[m.slot[q - Slot]] \in Nat
                        /\ big.size[big.slot[q - Slot]] = m.size[m.slot[q - Slot]]
    <3>1. \A g \in DOMAIN m.total : m.size[g] \in Nat
      BY DEF ArenaInv, BlocksInv
    <3> QED BY <1>2, <1>10, <1>11, <1>12, <1>13, <3>1
  <2>5. Owed(m, L) \in Nat /\ Owed(big, M) = Owed(m, L) + size
    <3> HIDE DEF M
    <3>1. big.size[big.slot[p - Slot]] \in Nat
      BY <2>4
    <3>2. Owed(m, L) \in Nat /\ Owed(big, L \cup {p}) = Owed(m, L) + big.size[big.slot[p - Slot]]
      <4>1. \A q \in L : /\ m.size[m.slot[q - Slot]] \in Nat
                          /\ big.size[big.slot[q - Slot]] = m.size[m.slot[q - Slot]]
        BY <2>4
      <4>2. IsFiniteSet(L) /\ p \notin L
        BY <1>5, <2>1
      <4>3. Owed(m, L) \in Nat
        BY ONLY <3>1, <4>1, <4>2, OwedStep
      <4>4. Owed(big, L \cup {p}) = Owed(m, L) + big.size[big.slot[p - Slot]]
        BY ONLY <3>1, <4>1, <4>2, OwedStep
      <4> QED BY <4>3, <4>4
    <3> QED BY <2>4, <3>2 DEF M
  <2>6. big.live = Owed(big, M)
    BY <1>8, <2>5 DEF ArenaInv, Counted
  <2>7. /\ IsFiniteSet(DOMAIN big.total)
        /\ Cardinality(DOMAIN big.total) = Len(big.free) + Cardinality(M)
    <3> HIDE DEF M
    <3>1. IsFiniteSet(DOMAIN m.total) /\ Cardinality(DOMAIN m.total) = Len(m.free) + Cardinality(L)
      BY DEF ArenaInv, Counted
    <3>2. big.total = m.total /\ Len(big.free) = Len(m.free) - 1
      BY <1>6, <1>8
    <3> QED BY <2>1, <2>2, <2>3, <3>1, <3>2
  <2> QED BY <2>2, <2>6, <2>7 DEF Counted
<1>18. ArenaInv(big, M)
  BY <1>14, <1>15, <1>16, <1>17 DEF ArenaInv
<1> QED BY <1>1, <1>3, <1>4, <1>5, <1>8, <1>18 DEF Grants

\* Carving adds a block above all others, for an allocation of its own.
Carves(new, m, size, align) ==
  LET hdr == new.ptr - Slot - Hdr
  IN  /\ hdr \notin DOMAIN m.total /\ hdr \in Nat
      /\ DOMAIN new.mem.total = DOMAIN m.total \cup {hdr}
      /\ new.mem.total[hdr] = Hdr + Slot + size
      /\ \A h \in DOMAIN m.total : new.mem.total[h] = m.total[h]
      /\ payload_of(hdr, align) = hdr + Hdr + Slot

\* Carving takes the space behind the last block, or fails and changes nothing.
LEMMA CarvedKeeps ==
  ASSUME NEW m, NEW L, ArenaInv(m, L), NEW size \in Nat \ {0}, NEW align \in Nat \ {0}
  PROVE  LET new == Carved(m, size, align)
         IN  \/ new.ptr = NoPtr /\ new.mem = m
             \/ Grants(new, L, align) /\ Carves(new, m, size, align)
<1> DEFINE p == align_up(Base + m.bump + Hdr + Slot, align)
           h == p - Slot - Hdr
           used == p + size - Base
           S == With(m.slot, p - Slot, h)
           Z == With(m.size, h, size)
           T == With(m.total, h, p + size - h)
           big == [m EXCEPT !.bump = used, !.total = T, !.size = Z, !.slot = S, !.live = @ + size]
           M == L \cup {p}
<1>1. Carved(m, size, align) = IF used > Region THEN [ptr |-> NoPtr, mem |-> m]
                               ELSE [ptr |-> p, mem |-> big]
  BY DEF Carved
<1>2. m \in [bump : 0..Region, total : {m.total}, size : {m.size}, slot : {m.slot},
             free : {m.free}, live : Nat]
  BY DEF ArenaInv, BlocksInv
<1>3. p \in Nat /\ p >= Base + m.bump + Hdr + Slot /\ p % align = 0
  <2>1. Base + m.bump + Hdr + Slot \in Nat
    BY <1>2, ArenaAssumption
  <2> QED BY <2>1, AlignUp
<1>4. payload_of(h, align) = p
  <2>1. h + Hdr + Slot = p
    BY <1>3, ArenaAssumption
  <2>2. align_up(p, align) = p
    <3> HIDE DEF p
    <3>1. align_up(p, align) >= p
      BY <1>3, AlignUp
    <3>2. PICK q \in Nat : p = q * align
      <4> DEFINE c == p \div align
      <4>1. c \in Nat /\ p = c * align
        BY <1>3
      <4> QED BY <4>1
    <3>3. PICK d \in Nat : align_up(p, align) = d * align /\ d * align <= p + align - 1
      <4> DEFINE d == (p + align - 1) \div align
      <4>1. p + align - 1 \in Nat
        BY <1>3
      <4>2. d \in Nat /\ d * align <= p + align - 1
        BY <4>1, Quotient
      <4>3. align_up(p, align) = d * align
        BY DEF align_up
      <4> HIDE DEF d
      <4> QED BY <4>2, <4>3
    <3>4. d * align < (q + 1) * align
      BY <1>3, <3>2, <3>3
    <3>5. d < q + 1
      BY <3>4
    <3>6. d * align <= q * align
      BY <3>5
    <3> QED BY <3>1, <3>2, <3>3, <3>6
  <2> QED BY <2>1, <2>2 DEF payload_of
<1> HIDE DEF p
<1>5. h \in Nat /\ h >= Base + m.bump /\ p = h + Hdr + Slot /\ p # NoPtr
  BY <1>2, <1>3, ArenaAssumption DEF NoPtr
<1>6. SUFFICES ASSUME ~(used > Region)
               PROVE  /\ p \in Nat \ {NoPtr} /\ p \notin L /\ p % align = 0
                      /\ ArenaInv(big, M)
                      /\ h \notin DOMAIN m.total /\ h \in Nat
                      /\ DOMAIN big.total = DOMAIN m.total \cup {h}
                      /\ big.total[h] = Hdr + Slot + size
                      /\ \A g \in DOMAIN m.total : big.total[g] = m.total[g]
                      /\ payload_of(h, align) = h + Hdr + Slot
  <2>1. CASE used > Region
    BY <1>1, <2>1
  <2>2. CASE ~(used > Region)
    <3>1. Carved(m, size, align) = [ptr |-> p, mem |-> big]
      BY <1>1, <2>2
    <3> HIDE DEF big, used
    <3>2. Carved(m, size, align).ptr = p /\ Carved(m, size, align).mem = big
      BY <3>1
    <3>3. Grants(Carved(m, size, align), L, align)
      BY <2>2, <3>2 DEF Grants, used
    <3>4. Carves(Carved(m, size, align), m, size, align)
      BY <2>2, <3>2 DEF Carves, used
    <3> QED BY <3>3, <3>4
  <2> QED BY <2>1, <2>2
<1> HIDE DEF h
<1>7. h \notin DOMAIN m.total
  <2>1. \A g \in DOMAIN m.total : g \in Nat /\ m.total[g] >= 1 /\ m.total[g] \in Nat /\ g + m.total[g] <= Base + m.bump
    BY ArenaAssumption DEF ArenaInv, BlocksInv
  <2> QED BY <2>1, <1>2, <1>5, ArenaAssumption
<1>8. p \notin L
  <2>1. \A q \in L : q \in Nat /\ q < Base + m.bump
    BY Below
  <2> QED BY <1>2, <1>3, <2>1, ArenaAssumption
<1>9. used \in 0..Region
  BY <1>2, <1>3, <1>6, ArenaAssumption
<1>10. p + size - h = Hdr + Slot + size
  BY <1>3, <1>5, ArenaAssumption
<1> HIDE DEF S, Z, T
<1>11. /\ big \in [bump : 0..Region, total : {T}, size : {Z}, slot : {S}, free : {m.free}, live : Nat]
       /\ big.bump = used /\ big.live = m.live + size
  <2> HIDE DEF used
  <2>1. big.live = m.live + size /\ m.live + size \in Nat
    BY <1>2
  <2>2. [m EXCEPT !.bump = used, !.total = T, !.size = Z, !.slot = S, !.live = m.live + size]
        \in [bump : 0..Region, total : {T}, size : {Z}, slot : {S}, free : {m.free}, live : Nat]
    BY <1>2, <1>9, <2>1
  <2> QED BY <1>2, <2>1, <2>2
<1> HIDE DEF big
<1>12. /\ big.total = T /\ big.size = Z /\ big.slot = S /\ big.free = m.free
  BY <1>11
<1>13. /\ DOMAIN big.total = DOMAIN m.total \cup {h} /\ DOMAIN big.size = DOMAIN m.total \cup {h}
       /\ DOMAIN big.slot = DOMAIN m.slot \cup {p - Slot}
       /\ big.total[h] = Hdr + Slot + size /\ big.size[h] = size /\ big.slot[p - Slot] = h
  BY <1>10, <1>12 DEF With, S, T, Z, ArenaInv, BlocksInv
<1>14. \A g \in DOMAIN m.total : big.total[g] = m.total[g] /\ big.size[g] = m.size[g]
  BY <1>7, <1>12 DEF With, T, Z, ArenaInv, BlocksInv
<1>15. \A q \in L : /\ m.slot[q - Slot] \in DOMAIN m.total /\ m.slot[q - Slot] # h /\ q \in Nat
                    /\ q - Slot \in DOMAIN m.slot
  BY <1>7 DEF ArenaInv, SharedOut, Lodged
<1>16. \A q \in L : big.slot[q - Slot] = m.slot[q - Slot]
  <2> TAKE q \in L
  <2>1. q - Slot # p - Slot
    BY <1>3, <1>8, <1>15, ArenaAssumption
  <2> QED BY <1>12, <1>15, <2>1 DEF With, S
<1>17. BlocksInv(big)
  <2>1. \A g \in DOMAIN m.total :
          /\ g \in Nat /\ g >= Base /\ m.total[g] \in Nat /\ m.size[g] \in Nat \ {0}
          /\ m.total[g] >= Hdr + Slot + 1 /\ g + m.total[g] <= Base + m.bump
    BY DEF ArenaInv, BlocksInv
  <2>2. big.bump >= m.bump /\ big.bump \in Nat /\ m.bump \in Nat
    BY <1>2, <1>3, <1>9, <1>11, ArenaAssumption
  <2>3. h + big.total[h] <= Base + big.bump
    BY <1>3, <1>5, <1>11, <1>13, ArenaAssumption
  <2>4. \A g \in DOMAIN big.total :
          /\ g \in Nat /\ g >= Base /\ big.total[g] \in Nat /\ big.size[g] \in Nat \ {0}
          /\ big.total[g] >= Hdr + Slot + 1 /\ g + big.total[g] <= Base + big.bump
    <3> HIDE DEF used
    <3> SUFFICES ASSUME NEW g \in DOMAIN big.total
                 PROVE  /\ g \in Nat /\ g >= Base /\ big.total[g] \in Nat /\ big.size[g] \in Nat \ {0}
                        /\ big.total[g] >= Hdr + Slot + 1 /\ g + big.total[g] <= Base + big.bump
      OBVIOUS
    <3>1. CASE g = h
      BY <3>1, <1>5, <1>13, <2>2, <2>3, ArenaAssumption
    <3>2. CASE g \in DOMAIN m.total
      BY <3>2, <1>14, <2>1, <2>2, ArenaAssumption
    <3> QED BY <1>13, <3>1, <3>2
  <2>5. \A g, k \in DOMAIN big.total : g < k => g + big.total[g] <= k
    <3> SUFFICES ASSUME NEW g \in DOMAIN big.total, NEW k \in DOMAIN big.total, g < k
                 PROVE  g + big.total[g] <= k
      OBVIOUS
    <3>1. CASE g \in DOMAIN m.total /\ k \in DOMAIN m.total
      BY <3>1, <1>14 DEF ArenaInv, BlocksInv
    <3>2. CASE g \in DOMAIN m.total /\ k = h
      BY <3>2, <1>2, <1>5, <1>14, <2>1, ArenaAssumption
    <3>3. CASE g = h /\ k \in DOMAIN m.total
      BY <3>3, <1>2, <1>5, <2>1, ArenaAssumption
    <3>4. CASE g = h /\ k = h
      BY <3>4, <1>5
    <3> QED BY <1>13, <3>1, <3>2, <3>3, <3>4
  <2>6. DOMAIN big.size = DOMAIN big.total
    BY <1>13
  <2>7. big \in [bump : 0..Region, total : {big.total}, size : {big.size}, slot : {big.slot},
                 free : {big.free}, live : Nat]
    BY <1>11, <1>12
  <2> QED BY <2>4, <2>5, <2>6, <2>7 DEF BlocksInv
<1>18. SharedOut(big, M)
  <2>0. /\ m.free \in Seq(DOMAIN m.total)
        /\ \A i, j \in DOMAIN m.free : m.free[i] = m.free[j] => i = j
    BY DEF ArenaInv, SharedOut
  <2>1. big.free \in Seq(DOMAIN big.total)
    BY <1>12, <1>13, <2>0
  <2>2. \A j, k \in DOMAIN big.free : big.free[j] = big.free[k] => j = k
    BY <1>12, <2>0
  <2>3. \A q \in M : big.slot[q - Slot] \notin ToSet(big.free)
    <3>1. h \notin ToSet(m.free)
      BY <1>7, <2>0 DEF ToSet
    <3> QED BY <1>12, <1>13, <1>16, <3>1 DEF ArenaInv, SharedOut
  <2>4. \A q, s \in M : big.slot[q - Slot] = big.slot[s - Slot] => q = s
    BY <1>13, <1>15, <1>16 DEF ArenaInv, SharedOut
  <2>5. {big.slot[q - Slot] : q \in M} = {m.slot[q - Slot] : q \in L} \cup {h}
    BY <1>13, <1>16
  <2>6. DOMAIN big.total = ToSet(big.free) \cup {big.slot[q - Slot] : q \in M}
    <3>1. DOMAIN m.total = ToSet(m.free) \cup {m.slot[q - Slot] : q \in L}
      BY DEF ArenaInv, SharedOut
    <3> QED BY <1>12, <1>13, <2>5, <3>1
  <2> QED BY <2>1, <2>2, <2>3, <2>4, <2>6 DEF SharedOut
<1>19. Lodged(big, M)
  <2> SUFFICES ASSUME NEW q \in M
               PROVE  LET g == big.slot[q - Slot]
                      IN  /\ q \in Nat /\ q - Slot \in DOMAIN big.slot /\ g \in DOMAIN big.total
                          /\ q >= g + Hdr + Slot /\ q + big.size[g] <= g + big.total[g]
    BY DEF Lodged
  <2>1. CASE q = p
    BY <2>1, <1>3, <1>5, <1>13, ArenaAssumption
  <2>2. CASE q \in L
    BY <2>2, <1>13, <1>14, <1>15, <1>16 DEF ArenaInv, Lodged
  <2> QED BY <2>1, <2>2
<1>20. Counted(big, M)
  <2>1. IsFiniteSet(L) /\ Cardinality(L) \in Nat
    BY FS_CardinalityType DEF ArenaInv, Counted
  <2>2. IsFiniteSet(M) /\ Cardinality(M) = Cardinality(L) + 1
    BY <1>8, <2>1, FS_AddElement
  <2>3. /\ IsFiniteSet(DOMAIN big.total)
        /\ Cardinality(DOMAIN big.total) = Cardinality(DOMAIN m.total) + 1
    <3>1. IsFiniteSet(DOMAIN m.total)
      BY DEF ArenaInv, Counted
    <3> QED BY <1>7, <1>13, <3>1, FS_AddElement
  <2>4. Cardinality(DOMAIN m.total) = Len(m.free) + Cardinality(L) /\ Len(m.free) \in Nat
    BY DEF ArenaInv, Counted, SharedOut
  <2>5. big.live = Owed(big, M)
    <3>1. big.size[big.slot[p - Slot]] \in Nat
      BY <1>13
    <3>2. \A q \in L : /\ m.size[m.slot[q - Slot]] \in Nat
                       /\ big.size[big.slot[q - Slot]] = m.size[m.slot[q - Slot]]
      <4>1. \A g \in DOMAIN m.total : m.size[g] \in Nat
        BY DEF ArenaInv, BlocksInv
      <4> QED BY <1>14, <1>15, <1>16, <4>1
    <3>3. Owed(big, L \cup {p}) = Owed(m, L) + big.size[big.slot[p - Slot]]
      BY ONLY <1>8, <2>1, <3>1, <3>2, OwedStep
    <3>4. m.live = Owed(m, L)
      BY DEF ArenaInv, Counted
    <3> QED BY <1>11, <1>13, <3>3, <3>4
  <2> HIDE DEF M
  <2> QED BY <1>12, <2>1, <2>2, <2>3, <2>4, <2>5 DEF Counted
<1> QED BY <1>3, <1>4, <1>5, <1>7, <1>8, <1>13, <1>14, <1>17, <1>18, <1>19, <1>20 DEF ArenaInv

\* What holds after an allocation, whichever way it went.
LEMMA AllocKeeps ==
  ASSUME NEW m, NEW L, ArenaInv(m, L), NEW size \in Nat \ {0}, NEW align \in Nat \ {0}
  PROVE  LET new == alloc(m, size, align)
         IN  (new.ptr = NoPtr /\ new.mem = m) \/ Grants(new, L, align)
<1> DEFINE fit == {i \in DOMAIN m.free : Fits(m, m.free[i], size, align)}
<1>1. CASE fit # {}
  <2>1. fit \subseteq Nat
    BY DEF ArenaInv, SharedOut
  <2>2. Min(fit) \in fit
    BY <1>1, <2>1, MinInSet
  <2>3. alloc(m, size, align) = Recycled(m, Min(fit), size, align)
    BY <1>1 DEF alloc
  <2>4. Min(fit) \in DOMAIN m.free /\ Fits(m, m.free[Min(fit)], size, align)
    BY <2>2
  <2> HIDE DEF fit
  <2> QED BY <2>3, <2>4, RecycledKeeps
<1>2. CASE fit = {}
  <2>1. alloc(m, size, align) = Carved(m, size, align)
    BY <1>2 DEF alloc
  <2> QED BY <2>1, CarvedKeeps
<1> QED BY <1>1, <1>2

\* A sequence with an element in front.
LEMMA Prepended ==
  ASSUME NEW X, NEW s \in Seq(X), NEW e \in X
  PROVE  LET r == <<e>> \o s
         IN  /\ r \in Seq(X) /\ Len(r) = Len(s) + 1 /\ ToSet(r) = ToSet(s) \cup {e}
             /\ e \notin ToSet(s) /\ (\A j, k \in DOMAIN s : s[j] = s[k] => j = k)
                => \A j, k \in DOMAIN r : r[j] = r[k] => j = k
<1> DEFINE r == <<e>> \o s
           n == Len(s)
<1>1. n \in Nat /\ DOMAIN s = 1..n
  OBVIOUS
<1>2. <<e>> \in Seq(X) /\ Len(<<e>>) = 1
  OBVIOUS
<1>3. r \in Seq(X)
  BY <1>2
<1>4. Len(r) = n + 1
  BY <1>2
<1>5. DOMAIN r = 1..n + 1
  BY <1>3, <1>4
<1>6. r[1] = e
  BY <1>2
<1>7. ASSUME NEW k \in 1..n PROVE r[k + 1] = s[k]
  BY <1>2
<1> HIDE DEF r, n
<1>8. \A k \in DOMAIN r : k = 1 \/ (k - 1 \in DOMAIN s /\ r[k] = s[k - 1])
  <2> TAKE k \in DOMAIN r
  <2>1. CASE k # 1
    <3>1. k - 1 \in 1..n /\ (k - 1) + 1 = k
      BY <1>1, <1>5, <2>1
    <3>2. r[(k - 1) + 1] = s[k - 1]
      BY <1>7, <3>1
    <3> QED BY <1>1, <3>1, <3>2
  <2> QED BY <2>1
<1>9. 1 \in DOMAIN r /\ \A k \in DOMAIN s : k + 1 \in DOMAIN r /\ r[k + 1] = s[k]
  BY <1>1, <1>5, <1>7
<1>10. ToSet(r) = ToSet(s) \cup {e}
  <2>1. ASSUME NEW x \in ToSet(r) PROVE x \in ToSet(s) \cup {e}
    BY <1>6, <1>8 DEF ToSet
  <2>2. ASSUME NEW x \in ToSet(s) PROVE x \in ToSet(r)
    BY <1>9 DEF ToSet
  <2>3. e \in ToSet(r)
    BY <1>6, <1>9 DEF ToSet
  <2> QED BY <2>1, <2>2, <2>3
<1>11. ASSUME e \notin ToSet(s), \A j, k \in DOMAIN s : s[j] = s[k] => j = k,
              NEW j \in DOMAIN r, NEW k \in DOMAIN r, r[j] = r[k]
       PROVE  j = k
  <2>1. \A i \in DOMAIN s : s[i] # e
    BY <1>11 DEF ToSet
  <2>2. j \in Nat /\ k \in Nat
    BY <1>1, <1>5
  <2>3. CASE j = 1
    BY <1>6, <1>8, <1>11, <2>1, <2>3
  <2>4. CASE k = 1
    BY <1>6, <1>8, <1>11, <2>1, <2>4
  <2>5. CASE j # 1 /\ k # 1
    <3>1. j - 1 = k - 1
      BY <1>8, <1>11, <2>5
    <3> QED BY <2>2, <3>1
  <2> QED BY <2>3, <2>4, <2>5
<1> QED BY <1>3, <1>4, <1>10, <1>11 DEF r, n

\* Freeing the payload of an allocation gives its block back; the null pointer
\* is ignored.
LEMMA FreeKeeps ==
  ASSUME NEW m, NEW L, ArenaInv(m, L), NEW p \in L
  PROVE  ArenaInv(free(m, p), L \ {p}) /\ free(m, p).total = m.total
<1> DEFINE h == m.slot[p - Slot]
           S == With(m.slot, p - Slot, NoPtr)
           F == <<h>> \o m.free
           V == IF m.live >= m.size[h] THEN m.live - m.size[h] ELSE 0
           new == [m EXCEPT !.free = F, !.slot = S, !.live = V]
           M == L \ {p}
<1>1. m \in [bump : 0..Region, total : {m.total}, size : {m.size}, slot : {m.slot},
             free : {m.free}, live : Nat]
  BY DEF ArenaInv, BlocksInv
<1>2. /\ p \in Nat /\ h \in DOMAIN m.total /\ h \in Nat /\ h # NoPtr /\ m.size[h] \in Nat \ {0}
  BY ArenaAssumption DEF ArenaInv, BlocksInv, Lodged, NoPtr
<1>3. p # NoPtr
  BY Below
<1>4. free(m, p) = new
  BY <1>2, <1>3 DEF free
<1>5. \A q \in L : /\ m.slot[q - Slot] \in DOMAIN m.total /\ q \in Nat /\ q - Slot \in DOMAIN m.slot
                   /\ m.slot[q - Slot] \notin ToSet(m.free)
  BY DEF ArenaInv, SharedOut, Lodged
<1>6. \A q \in M : m.slot[q - Slot] # h
  BY DEF ArenaInv, SharedOut
<1> HIDE DEF h, S, F, V
<1>7. V \in Nat
  BY <1>1, <1>2 DEF V
<1>8. /\ new \in [bump : 0..Region, total : {m.total}, size : {m.size}, slot : {S}, free : {F}, live : Nat]
      /\ new.bump = m.bump /\ new.live = V
  BY <1>1, <1>7
<1> HIDE DEF new
<1>9. /\ new.total = m.total /\ new.size = m.size /\ new.slot = S /\ new.free = F
  BY <1>8
<1>10. /\ DOMAIN new.slot = DOMAIN m.slot \cup {p - Slot}
       /\ \A q \in M : new.slot[q - Slot] = m.slot[q - Slot]
  <2>1. ASSUME NEW q \in M PROVE new.slot[q - Slot] = m.slot[q - Slot]
    <3>1. q - Slot # p - Slot
      BY <1>2, <1>5, ArenaAssumption
    <3> QED BY <1>5, <1>9, <3>1 DEF With, S
  <2> QED BY <1>9, <2>1 DEF With, S
<1>11. /\ F \in Seq(DOMAIN m.total) /\ Len(F) = Len(m.free) + 1 /\ ToSet(F) = ToSet(m.free) \cup {h}
       /\ \A j, k \in DOMAIN F : F[j] = F[k] => j = k
  <2>1. /\ m.free \in Seq(DOMAIN m.total)
        /\ \A j, k \in DOMAIN m.free : m.free[j] = m.free[k] => j = k
    BY DEF ArenaInv, SharedOut
  <2>2. h \notin ToSet(m.free)
    BY <1>5 DEF h
  <2>3. h \in DOMAIN m.total
    BY <1>2
  <2> DEFINE D == DOMAIN m.total
             f == m.free
  <2>4. f \in Seq(D) /\ h \in D
    BY <2>1, <2>3
  <2> HIDE DEF D, f
  <2>5. /\ <<h>> \o f \in Seq(D) /\ Len(<<h>> \o f) = Len(f) + 1 /\ ToSet(<<h>> \o f) = ToSet(f) \cup {h}
    BY ONLY <2>4, Prepended
  <2>6. h \notin ToSet(f) /\ \A j, k \in DOMAIN f : f[j] = f[k] => j = k
    BY <2>1, <2>2 DEF f
  <2>7. \A j, k \in DOMAIN (<<h>> \o f) : (<<h>> \o f)[j] = (<<h>> \o f)[k] => j = k
    BY ONLY <2>4, <2>6, Prepended
  <2> QED BY <2>5, <2>7 DEF F, D, f
<1>12. BlocksInv(new)
  <2>1. new \in [bump : 0..Region, total : {new.total}, size : {new.size}, slot : {new.slot},
                 free : {new.free}, live : Nat]
    BY <1>8, <1>9
  <2> QED BY <1>8, <1>9, <2>1 DEF ArenaInv, BlocksInv
<1>13. SharedOut(new, M)
  <2>1. \A q \in M : new.slot[q - Slot] \notin ToSet(new.free)
    BY <1>5, <1>6, <1>9, <1>10, <1>11
  <2>2. \A q, s \in M : new.slot[q - Slot] = new.slot[s - Slot] => q = s
    BY <1>10 DEF ArenaInv, SharedOut
  <2>3. {m.slot[q - Slot] : q \in L} = {new.slot[q - Slot] : q \in M} \cup {h}
    BY <1>10 DEF h
  <2>4. DOMAIN new.total = ToSet(new.free) \cup {new.slot[q - Slot] : q \in M}
    <3>1. DOMAIN m.total = ToSet(m.free) \cup {m.slot[q - Slot] : q \in L}
      BY DEF ArenaInv, SharedOut
    <3> QED BY <1>9, <1>11, <2>3, <3>1
  <2> QED BY <1>9, <1>11, <2>1, <2>2, <2>4 DEF SharedOut
<1>14. Lodged(new, M)
  BY <1>9, <1>10 DEF ArenaInv, Lodged
<1>15. Counted(new, M)
  <2>1. IsFiniteSet(L) /\ Cardinality(L) \in Nat
    BY FS_CardinalityType DEF ArenaInv, Counted
  <2>2. IsFiniteSet(M) /\ Cardinality(M) = Cardinality(L) - 1
    BY <2>1, FS_RemoveElement
  <2>3. IsFiniteSet(DOMAIN m.total) /\ Cardinality(DOMAIN m.total) = Len(m.free) + Cardinality(L)
        /\ Len(m.free) \in Nat
    BY DEF ArenaInv, Counted, SharedOut
  <2>4. new.live = Owed(new, M)
    <3>1. m.size[m.slot[p - Slot]] \in Nat
      BY <1>2 DEF h
    <3>2. \A q \in M : /\ new.size[new.slot[q - Slot]] \in Nat
                       /\ m.size[m.slot[q - Slot]] = new.size[new.slot[q - Slot]]
      <4>1. \A g \in DOMAIN m.total : m.size[g] \in Nat
        BY DEF ArenaInv, BlocksInv
      <4> QED BY <1>5, <1>9, <1>10, <4>1
    <3>3. p \notin M /\ L = M \cup {p}
      OBVIOUS
    <3> HIDE DEF M
    <3>4. Owed(new, M) \in Nat
      BY ONLY <2>2, <3>1, <3>2, <3>3, OwedStep
    <3>5. Owed(m, M \cup {p}) = Owed(new, M) + m.size[m.slot[p - Slot]]
      BY ONLY <2>2, <3>1, <3>2, <3>3, OwedStep
    <3>6. m.live = Owed(new, M) + m.size[h]
      BY <3>3, <3>5 DEF ArenaInv, Counted, h
    <3>7. V = Owed(new, M)
      BY <1>2, <3>4, <3>6 DEF V
    <3> QED BY <1>8, <3>7
  <2> HIDE DEF M
  <2> QED BY <1>9, <1>11, <2>1, <2>2, <2>3, <2>4 DEF Counted
<1> QED BY <1>4, <1>9, <1>12, <1>13, <1>14, <1>15 DEF ArenaInv

\* Freeing the null pointer does nothing.
LEMMA FreeNothing == ASSUME NEW m PROVE free(m, NoPtr) = m
BY DEF free

\* The blocks as large as an allocation of size.
OfSize(m, size) == {h \in DOMAIN m.total : m.total[h] = Hdr + Slot + size}

\* Of free blocks that are as large and serve the alignment none is passed over:
\* what is carved although there are such blocks finds all of them held.
LEMMA CarvesWhenAllHeld ==
  ASSUME NEW m, NEW L, ArenaInv(m, L), NEW size \in Nat \ {0}, NEW align \in Nat \ {0},
         NEW B \in SUBSET OfSize(m, size), \A h \in B : Serves(h, align),
         alloc(m, size, align).mem.total # m.total
  PROVE  Cardinality(B) <= Cardinality(L)
<1> DEFINE fit == {i \in DOMAIN m.free : Fits(m, m.free[i], size, align)}
           f == [h \in B |-> CHOOSE p \in L : m.slot[p - Slot] = h]
<1>1. fit = {}
  <2> SUFFICES ASSUME fit # {} PROVE FALSE
    OBVIOUS
  <2>1. fit \subseteq Nat
    BY DEF ArenaInv, SharedOut
  <2>2. Min(fit) \in fit
    BY <2>1, MinInSet
  <2>3. alloc(m, size, align) = Recycled(m, Min(fit), size, align)
    BY DEF alloc
  <2>4. Min(fit) \in DOMAIN m.free /\ Fits(m, m.free[Min(fit)], size, align)
    BY <2>2
  <2> HIDE DEF fit
  <2>5. Recycled(m, Min(fit), size, align).mem.total = m.total
    BY <2>4, RecycledKeeps
  <2> QED BY <2>3, <2>5
<1>2. B \subseteq DOMAIN m.total /\ B \cap ToSet(m.free) = {}
  <2> SUFFICES ASSUME NEW i \in DOMAIN m.free, m.free[i] \in B PROVE FALSE
    BY DEF OfSize, ToSet
  <2>1. /\ m.total[m.free[i]] = Hdr + Slot + size /\ m.free[i] \in Nat
        /\ payload_of(m.free[i], align) = m.free[i] + Hdr + Slot
    BY DEF OfSize, ArenaInv, BlocksInv, Serves
  <2>2. Fits(m, m.free[i], size, align)
    BY <2>1, ArenaAssumption DEF Fits
  <2> QED BY <1>1, <2>2
<1>3. \A h \in B : f[h] \in L /\ m.slot[f[h] - Slot] = h
  <2> SUFFICES ASSUME NEW h \in B PROVE f[h] \in L /\ m.slot[f[h] - Slot] = h
    OBVIOUS
  <2>1. DOMAIN m.total = ToSet(m.free) \cup {m.slot[q - Slot] : q \in L}
    BY DEF ArenaInv, SharedOut
  <2>2. h \in {m.slot[q - Slot] : q \in L}
    BY <1>2, <2>1
  <2>3. \E p \in L : m.slot[p - Slot] = h
    BY <2>2
  <2> QED BY <2>3
<1>4. f \in [B -> L]
  BY <1>3
<1> HIDE DEF f
<1>5. \A g, h \in B : f[g] = f[h] => g = h
  BY <1>3
<1>6. f \in Injection(B, L)
  BY <1>4, <1>5 DEF Injection, IsInjective
<1>7. IsFiniteSet(L)
  BY DEF ArenaInv, Counted
<1> QED BY <1>6, <1>7, FS_Injection

-----------------------------------------------------------------------------
(* Spawning *)

\* Whether an allocation succeeds or not: the arena holds what it held, and
\* the payload if there is one.
Yields(new, m, L, align) ==
  /\ new.ptr \in Nat /\ new.ptr \notin L /\ new.ptr % align = 0
  /\ ArenaInv(new.mem, L \cup ({new.ptr} \ {NoPtr}))
  /\ new.ptr = NoPtr => new.mem = m

\* Every allocation is a fit, a carving or a failure.
LEMMA AllocYields ==
  ASSUME NEW m, NEW L, ArenaInv(m, L), NEW size \in Nat \ {0}, NEW align \in Nat \ {0}
  PROVE  Yields(alloc(m, size, align), m, L, align)
<1> DEFINE new == alloc(m, size, align)
<1>0. NoPtr \notin L /\ NoPtr \in Nat /\ NoPtr % align = 0
  BY Below DEF NoPtr
<1>1. CASE new.ptr = NoPtr /\ new.mem = m
  <2>1. L \cup ({new.ptr} \ {NoPtr}) = L
    BY <1>1
  <2> HIDE DEF new
  <2>2. ArenaInv(new.mem, L \cup ({new.ptr} \ {NoPtr}))
    BY <1>1, <2>1
  <2>3. Yields(new, m, L, align)
    BY <1>0, <1>1, <2>2 DEF Yields
  <2> QED BY <2>3 DEF new
<1>2. CASE Grants(new, L, align)
  <2>1. /\ new.ptr \in Nat \ {NoPtr} /\ new.ptr \notin L /\ new.ptr % align = 0
        /\ ArenaInv(new.mem, L \cup {new.ptr})
    BY <1>2 DEF Grants
  <2>2. L \cup ({new.ptr} \ {NoPtr}) = L \cup {new.ptr}
    BY <2>1
  <2> HIDE DEF new
  <2>3. ArenaInv(new.mem, L \cup ({new.ptr} \ {NoPtr}))
    BY <2>1, <2>2
  <2>4. Yields(new, m, L, align)
    BY <2>1, <2>3 DEF Yields
  <2> QED BY <2>4 DEF new
<1>3. (new.ptr = NoPtr /\ new.mem = m) \/ Grants(new, L, align)
  BY AllocKeeps
<1> QED BY <1>1, <1>2, <1>3

\* Freeing an allocation gives its block back, and only that.
LEMMA FreeSome ==
  ASSUME NEW m, NEW L, ArenaInv(m, L), NEW p \in L \cup {NoPtr}
  PROVE  ArenaInv(free(m, p), L \ {p}) /\ free(m, p).total = m.total
<1>1. CASE p \in L
  BY <1>1, FreeKeeps
<1>2. CASE p \notin L
  <2>1. L \ {p} = L /\ p = NoPtr
    BY <1>2
  <2>2. free(m, p) = m
    BY <2>1, FreeNothing
  <2> QED BY <2>1, <2>2
<1> QED BY <1>1, <1>2

\* What a node's record says it holds.
Ptrs(x) == {x.blob, x.stack, x.tcb} \ {NoPtr}

Holdings == [blob : Nat, stack : Nat, sp : Nat, tcb : Nat]

\* Its pointers are different ones.
Parted(x) ==
  /\ x.blob = x.stack => x.blob = NoPtr
  /\ x.stack = x.tcb => x.stack = NoPtr
  /\ x.blob = x.tcb => x.blob = NoPtr

\* Its stack is aligned and the first frame lies in it.
StackLaid(x) ==
  x.stack # NoPtr =>
    /\ x.stack % Align[arch] = 0 /\ x.stack <= x.sp
    /\ x.sp + Frame[arch] <= x.stack + StackSize

\* What is held is what some node holds.
LEMMA HeldIs ==
  ASSUME NEW o, NEW p
  PROVE  p \in Held(o) <=> \E n \in Nodes : p \in Ptrs(o[n])
BY DEF Held, Ptrs

\* A stack has room for its alignment and its first frame.
LEMMA StackSizeIs ==
  ASSUME arch \in Arenas
  PROVE  /\ Align[arch] \in Nat \ {0} /\ Frame[arch] \in Nat /\ Floor[arch] \in Nat
         /\ Frame[arch] <= Floor[arch]
         /\ StackSize \in Nat \ {0} /\ StackSize >= Floor[arch] + Align[arch]
<1>1. Align[arch] \in Nat \ {0} /\ Frame[arch] \in Nat /\ Floor[arch] \in Nat /\ Frame[arch] <= Floor[arch]
  BY MemoryAssumption
<1>2. ASSUME NEW x \in Nat PROVE Larger(Stack, x) \in Nat /\ Larger(Stack, x) >= x
  BY MemoryAssumption DEF Larger
<1>3. StackSize = Larger(Stack, Floor[arch]) + Align[arch]
      \/ StackSize = Larger(Stack, Floor[arch]) + Frame[arch] + Align[arch]
  BY DEF StackSize, Arenas, cortex_m_stack, riscv_stack, arm_stack, xtensa_stack, posix_stack
<1> QED BY <1>1, <1>2, <1>3

\* The first frame of a task lies in its stack.
LEMMA FrameInStack ==
  ASSUME arch \in Arenas, NEW block \in Nat, block % Align[arch] = 0
  PROVE  /\ FirstFrame(block) \in Nat /\ block <= FirstFrame(block)
         /\ FirstFrame(block) + Frame[arch] <= block + StackSize
<1> DEFINE top == align_down(block + StackSize, Align[arch])
           v == top - Frame[arch]
           a == IF arch = "Posix" THEN Align[arch] ELSE 1
<1>1. /\ Align[arch] \in Nat \ {0} /\ Frame[arch] \in Nat /\ Floor[arch] \in Nat /\ Frame[arch] <= Floor[arch]
      /\ StackSize \in Nat \ {0} /\ StackSize >= Floor[arch] + Align[arch]
  BY StackSizeIs
<1>2. block + StackSize \in Nat
  BY <1>1
<1>3. top \in Nat /\ top <= block + StackSize /\ block + StackSize < top + Align[arch]
  BY <1>1, <1>2, AlignDown
<1>4. FirstFrame(block) = align_down(v, a)
  BY DEF FirstFrame
<1>5. a \in Nat \ {0} /\ block % a = 0
  BY <1>1
<1> HIDE DEF top, a
<1>6. v \in Nat /\ block <= v
  BY <1>1, <1>3
<1>7. align_down(v, a) \in Nat /\ align_down(v, a) <= v /\ block <= align_down(v, a)
  BY <1>5, <1>6, AlignDown
<1> QED BY <1>1, <1>3, <1>4, <1>6, <1>7

\* The size and the alignment of a TCB and of a closure's block are positive.
LEMMA TcbAsked ==
  ASSUME arch \in Builds
  PROVE  TcbSize[arch] \in Nat \ {0} /\ TcbAlign[arch] \in Nat \ {0}
BY MemoryAssumption

\* So are those of a closure's block, which holds at least its header.
LEMMA BlockAsked ==
  ASSUME NEW f \in Closures
  PROVE  block_size_for(f) \in Nat \ {0} /\ block_align_for(f) \in Nat \ {0}
<1>1. f.size \in Nat /\ f.align \in Nat \ {0}
  BY MemoryAssumption
<1>2. HEADER_SIZE + f.align \in Nat \ {0}
  BY <1>1, ArenaAssumption DEF HEADER_SIZE
<1>3. align_up(HEADER_SIZE + f.align, f.align) \in Nat \ {0}
  BY <1>1, <1>2, AlignUp
<1> QED BY <1>1, <1>3 DEF block_size_for, block_align_for

\* spawn_internal's allocations: what they have got so far is theirs alone.
LEMMA AttemptTakes ==
  ASSUME ArenaInv(mem, Held(own)), arch \in Builds, NEW body \in Closures, NEW refused \in BOOLEAN
  PROVE  LET try == Attempt(body, refused)
         IN  /\ try.got \in Holdings /\ Parted(try.got) /\ StackLaid(try.got)
             /\ Ptrs(try.got) \cap Held(own) = {}
             /\ ArenaInv(try.mem, Held(own) \cup Ptrs(try.got))
             /\ ~try.ok => try.got.stack = NoPtr
<1> DEFINE L == Held(own)
           tcb == alloc(mem, TcbSize[arch], TcbAlign[arch])
           blob == IF tcb.ptr = NoPtr THEN tcb ELSE alloc(tcb.mem, block_size_for(body), block_align_for(body))
           stack == IF blob.ptr = NoPtr
                    THEN [ok |-> FALSE, ptr |-> NoPtr, sp |-> NoPtr, mem |-> blob.mem]
                    ELSE create_task(blob.mem, refused)
           got == [tcb |-> tcb.ptr, blob |-> blob.ptr, stack |-> stack.ptr, sp |-> stack.sp]
           L1 == L \cup ({tcb.ptr} \ {NoPtr})
           L2 == L1 \cup ({blob.ptr} \ {NoPtr})
           L3 == L2 \cup ({stack.ptr} \ {NoPtr})
<1>1. Attempt(body, refused) = [ok |-> stack.ok, mem |-> stack.mem, got |-> got]
  BY DEF Attempt
<1>2. /\ TcbSize[arch] \in Nat \ {0} /\ TcbAlign[arch] \in Nat \ {0}
      /\ block_size_for(body) \in Nat \ {0} /\ block_align_for(body) \in Nat \ {0}
  BY TcbAsked, BlockAsked
<1>3. Yields(tcb, mem, L, TcbAlign[arch])
  BY <1>2, AllocYields
<1> HIDE DEF L, tcb
<1>4. tcb.ptr \in Nat /\ tcb.ptr \notin L /\ ArenaInv(tcb.mem, L1)
  BY <1>3 DEF Yields
<1>5. blob.ptr \in Nat /\ ArenaInv(blob.mem, L2) /\ blob.ptr \notin L
      /\ (blob.ptr = tcb.ptr => blob.ptr = NoPtr)
  <2>1. CASE tcb.ptr = NoPtr
    <3>1. blob = tcb /\ L2 = L1
      BY <2>1
    <3> QED BY <1>4, <2>1, <3>1
  <2>2. CASE tcb.ptr # NoPtr
    <3>1. blob = alloc(tcb.mem, block_size_for(body), block_align_for(body))
      BY <2>2
    <3> HIDE DEF L1, blob
    <3>2. Yields(blob, tcb.mem, L1, block_align_for(body))
      BY <1>2, <1>4, <3>1, AllocYields
    <3>3. blob.ptr \in Nat /\ blob.ptr \notin L1 /\ ArenaInv(blob.mem, L2)
      BY <3>2 DEF Yields
    <3> QED BY <2>2, <3>3 DEF L1
  <2> QED BY <2>1, <2>2
<1> HIDE DEF blob
<1>6. /\ stack.ptr \in Nat /\ stack.sp \in Nat /\ ArenaInv(stack.mem, L3) /\ stack.ptr \notin L
      /\ stack.ptr \in {tcb.ptr, blob.ptr} => stack.ptr = NoPtr
      /\ ~stack.ok => stack.ptr = NoPtr
      /\ StackLaid(got)
  <2>1. CASE stack.ptr = NoPtr /\ stack.sp \in Nat /\ stack.mem = blob.mem
    <3>1. L3 = L2
      BY <2>1
    <3> HIDE DEF stack, L2, L3
    <3>2. stack.ptr \notin L
      BY <2>1, Below DEF L
    <3>3. got.stack = NoPtr
      BY <2>1
    <3>4. NoPtr \in Nat
      BY DEF NoPtr
    <3>5. ArenaInv(stack.mem, L3)
      BY <1>5, <2>1, <3>1
    <3>6. StackLaid(got)
      BY <3>3 DEF StackLaid
    <3> QED BY <2>1, <3>2, <3>4, <3>5, <3>6
  <2>2. CASE blob.ptr = NoPtr
    <3>1. stack.ptr = NoPtr /\ stack.sp \in Nat /\ stack.mem = blob.mem
      BY <2>2 DEF NoPtr
    <3> QED BY <2>1, <3>1
  <2>3. CASE blob.ptr # NoPtr /\ arch = "Win32"
    <3>1. stack.ptr = NoPtr /\ stack.sp \in Nat /\ stack.mem = blob.mem
      BY <2>3 DEF NoPtr, create_task, win32_create_task
    <3> QED BY <2>1, <3>1
  <2>4. CASE blob.ptr # NoPtr /\ arch # "Win32"
    <3> DEFINE new == alloc(blob.mem, StackSize, Align[arch])
    <3>0. arch \in Arenas
      BY <2>4, MemoryAssumption
    <3>1. /\ stack.ok = (new.ptr # NoPtr) /\ stack.ptr = new.ptr /\ stack.mem = new.mem
          /\ stack.sp = IF new.ptr = NoPtr THEN NoPtr ELSE FirstFrame(new.ptr)
      BY <2>4 DEF create_task
    <3> HIDE DEF stack, L2
    <3>2. Yields(new, blob.mem, L2, Align[arch])
      BY <1>5, <3>0, StackSizeIs, AllocYields
    <3> HIDE DEF new
    <3>3. /\ new.ptr \in Nat /\ new.ptr \notin L2 /\ new.ptr % Align[arch] = 0
          /\ ArenaInv(new.mem, L2 \cup ({new.ptr} \ {NoPtr}))
      BY <3>2 DEF Yields
    <3>4. ArenaInv(stack.mem, L3)
      BY <3>1, <3>3
    <3>5. /\ FirstFrame(new.ptr) \in Nat /\ new.ptr <= FirstFrame(new.ptr)
          /\ FirstFrame(new.ptr) + Frame[arch] <= new.ptr + StackSize
      BY <3>0, <3>3, FrameInStack
    <3>6. got.stack = new.ptr /\ got.sp = stack.sp
      BY <3>1
    <3>7. StackLaid(got)
      <4> HIDE DEF got
      <4> QED BY <3>1, <3>3, <3>5, <3>6 DEF StackLaid
    <3>8. stack.ptr \in Nat /\ stack.sp \in Nat
      BY <3>1, <3>3, <3>5 DEF NoPtr
    <3>9. stack.ptr \notin L /\ (stack.ptr \in {tcb.ptr, blob.ptr} => stack.ptr = NoPtr)
      BY <3>1, <3>3 DEF L2
    <3>10. ~stack.ok => stack.ptr = NoPtr
      BY <3>1
    <3> QED BY <3>4, <3>7, <3>8, <3>9, <3>10
  <2> QED BY <2>2, <2>3, <2>4
<1> HIDE DEF stack
<1>7. got \in Holdings /\ Parted(got)
  BY <1>4, <1>5, <1>6 DEF Holdings, Parted
<1>8. Ptrs(got) = ({tcb.ptr} \ {NoPtr}) \cup ({blob.ptr} \ {NoPtr}) \cup ({stack.ptr} \ {NoPtr})
  BY DEF Ptrs
<1>9. L \cup Ptrs(got) = L3 /\ Ptrs(got) \cap L = {}
  BY <1>4, <1>5, <1>6, <1>8
<1>10. got.stack = stack.ptr
  OBVIOUS
<1> HIDE DEF got, L3
<1>11. ArenaInv(stack.mem, L \cup Ptrs(got))
  BY <1>6, <1>9
<1>12. /\ Attempt(body, refused).got = got /\ Attempt(body, refused).mem = stack.mem
       /\ Attempt(body, refused).ok = stack.ok
  BY <1>1
<1> QED BY <1>6, <1>7, <1>9, <1>10, <1>11, <1>12 DEF L, got

\* A failed spawn gives back what it has got.
LEMMA FailureGivesBack ==
  ASSUME ArenaInv(mem, Held(own)), arch \in Builds, NEW body \in Closures, NEW refused \in BOOLEAN,
         ~Attempt(body, refused).ok
  PROVE  LET try == Attempt(body, refused)
             back == GiveBack(try.mem, try.got.blob, try.got.tcb)
         IN  ArenaInv(back, Held(own)) /\ back.total = try.mem.total
<1> DEFINE try == Attempt(body, refused)
           L == Held(own)
           P == Ptrs(try.got)
           m1 == free(try.mem, try.got.blob)
           L1 == (L \cup P) \ {try.got.blob}
<1>1. /\ try.got \in Holdings /\ Parted(try.got) /\ P \cap L = {}
      /\ ArenaInv(try.mem, L \cup P) /\ try.got.stack = NoPtr
  BY AttemptTakes
<1>2. NoPtr \notin L
  BY Below
<1> HIDE DEF try, L
<1>3. try.got.blob \in (L \cup P) \cup {NoPtr} /\ try.got.tcb \in L1 \cup {NoPtr}
  BY <1>1 DEF Ptrs, Parted
<1>4. L1 \ {try.got.tcb} = L
  BY <1>1, <1>2 DEF Ptrs
<1> HIDE DEF P
<1>5. ArenaInv(m1, L1) /\ m1.total = try.mem.total
  BY <1>1, <1>3, FreeSome
<1> HIDE DEF m1, L1
<1>6. ArenaInv(free(m1, try.got.tcb), L1 \ {try.got.tcb}) /\ free(m1, try.got.tcb).total = m1.total
  BY <1>3, <1>5, FreeSome
<1>7. GiveBack(try.mem, try.got.blob, try.got.tcb) = free(m1, try.got.tcb)
  BY DEF GiveBack, m1
<1> QED BY <1>4, <1>5, <1>6, <1>7 DEF try, L

-----------------------------------------------------------------------------
(* Who holds what *)

\* No two nodes, and no two fields of one, hold the same allocation.
OwnInv(o) ==
  /\ o \in [Nodes -> Holdings]
  /\ \A n \in Nodes : Parted(o[n])
  /\ \A n, k \in Nodes : n # k => Ptrs(o[n]) \cap Ptrs(o[k]) = {}

\* A node that held nothing takes up x.
LEMMA OwnAdd ==
  ASSUME NEW o, OwnInv(o), NEW n \in Nodes, Ptrs(o[n]) = {}, NEW x \in Holdings, Parted(x),
         Ptrs(x) \cap Held(o) = {}
  PROVE  /\ OwnInv([o EXCEPT ![n] = x])
         /\ Held([o EXCEPT ![n] = x]) = Held(o) \cup Ptrs(x)
<1> DEFINE new == [o EXCEPT ![n] = x]
<1>1. o \in [Nodes -> Holdings]
  BY DEF OwnInv
<1>2. new \in [Nodes -> Holdings] /\ new[n] = x /\ \A k \in Nodes \ {n} : new[k] = o[k]
  BY <1>1
<1> HIDE DEF new
<1>3. ASSUME NEW p PROVE p \in Held(new) <=> p \in Held(o) \cup Ptrs(x)
  <2>1. p \in Held(new) <=> \E k \in Nodes : p \in Ptrs(new[k])
    BY HeldIs
  <2>2. p \in Held(o) <=> \E k \in Nodes : p \in Ptrs(o[k])
    BY HeldIs
  <2> QED BY <1>2, <2>1, <2>2
<1>4. ASSUME NEW k \in Nodes, NEW j \in Nodes, k # j PROVE Ptrs(new[k]) \cap Ptrs(new[j]) = {}
  <2>1. \A p : \A i \in Nodes : p \in Ptrs(o[i]) => p \in Held(o)
    BY HeldIs
  <2> QED BY <1>2, <1>4, <2>1 DEF OwnInv
<1>5. \A k \in Nodes : Parted(new[k])
  BY <1>2 DEF OwnInv
<1>6. OwnInv(new)
  BY <1>2, <1>4, <1>5 DEF OwnInv
<1>7. Held(new) = Held(o) \cup Ptrs(x)
  BY <1>3
<1> QED BY <1>6, <1>7 DEF new

\* The nodes of D let go of all they hold.
LEMMA OwnDrop ==
  ASSUME NEW o, OwnInv(o), NEW D \in SUBSET Nodes, NEW gone,
         \A p : p \in gone <=> \E n \in D : p \in Ptrs(o[n])
  PROVE  LET new == [n \in Nodes |-> IF n \in D THEN Nothing ELSE o[n]]
         IN  OwnInv(new) /\ Held(new) = Held(o) \ gone
<1> DEFINE new == [n \in Nodes |-> IF n \in D THEN Nothing ELSE o[n]]
<1>1. o \in [Nodes -> Holdings]
  BY DEF OwnInv
<1>2. Nothing \in Holdings /\ Ptrs(Nothing) = {} /\ Parted(Nothing)
  BY DEF Nothing, Holdings, Ptrs, Parted, NoPtr
<1>3. /\ new \in [Nodes -> Holdings]
      /\ \A k \in D : new[k] = Nothing
      /\ \A k \in Nodes \ D : new[k] = o[k]
  BY <1>1, <1>2
<1> HIDE DEF new
<1>4. ASSUME NEW p PROVE p \in Held(new) <=> p \in Held(o) \ gone
  <2>1. p \in Held(new) <=> \E k \in Nodes : p \in Ptrs(new[k])
    BY HeldIs
  <2>2. p \in Held(o) <=> \E k \in Nodes : p \in Ptrs(o[k])
    BY HeldIs
  <2>3. \A k, j \in Nodes : k # j => Ptrs(o[k]) \cap Ptrs(o[j]) = {}
    BY DEF OwnInv
  <2>4. ASSUME p \in Held(new) PROVE p \in Held(o) \ gone
    <3>1. PICK k \in Nodes : p \in Ptrs(new[k])
      BY <2>1, <2>4
    <3>2. k \notin D
      BY <1>2, <1>3, <3>1
    <3>3. p \in Ptrs(o[k])
      BY <1>3, <3>1, <3>2
    <3>4. \A j \in D : p \notin Ptrs(o[j])
      BY <2>3, <3>2, <3>3
    <3> QED BY <2>2, <3>3, <3>4
  <2>5. ASSUME p \in Held(o) \ gone PROVE p \in Held(new)
    <3>1. PICK k \in Nodes : p \in Ptrs(o[k])
      BY <2>2, <2>5
    <3>2. k \notin D
      BY <2>5, <3>1
    <3> QED BY <1>3, <2>1, <3>1, <3>2
  <2> QED BY <2>4, <2>5
<1>5. ASSUME NEW k \in Nodes, NEW j \in Nodes, k # j PROVE Ptrs(new[k]) \cap Ptrs(new[j]) = {}
  <2>1. CASE k \in D \/ j \in D
    BY <1>2, <1>3, <2>1
  <2>2. CASE k \notin D /\ j \notin D
    <3>1. new[k] = o[k] /\ new[j] = o[j]
      BY <1>3, <2>2
    <3> QED BY <1>5, <3>1 DEF OwnInv
  <2> QED BY <2>1, <2>2
<1>6. ASSUME NEW k \in Nodes PROVE Parted(new[k])
  BY <1>2, <1>3 DEF OwnInv
<1>7. OwnInv(new)
  BY <1>3, <1>5, <1>6 DEF OwnInv
<1>8. Held(new) = Held(o) \ gone
  BY <1>4
<1> QED BY <1>7, <1>8 DEF new

\* Freeing a task frees what it holds, each allocation once.
LEMMA FreeTaskKeeps ==
  ASSUME NEW m, NEW L, ArenaInv(m, L), NEW n \in Nodes, OwnInv(own), Ptrs(own[n]) \subseteq L
  PROVE  ArenaInv(FreeTask(m, n), L \ Ptrs(own[n])) /\ FreeTask(m, n).total = m.total
<1> DEFINE x == own[n]
           m1 == free(m, x.blob)
           m2 == free(m1, x.stack)
           L1 == L \ {x.blob}
           L2 == L1 \ {x.stack}
<1>1. Parted(x) /\ NoPtr \notin L
  BY Below DEF OwnInv
<1> HIDE DEF x
<1>2. /\ x.blob \in L \cup {NoPtr} /\ x.stack \in L1 \cup {NoPtr} /\ x.tcb \in L2 \cup {NoPtr}
      /\ L2 \ {x.tcb} = L \ Ptrs(x)
  BY <1>1 DEF Parted, Ptrs, x
<1>3. ArenaInv(m1, L1) /\ m1.total = m.total
  BY <1>2, FreeSome
<1> HIDE DEF m1, L1
<1>4. ArenaInv(m2, L2) /\ m2.total = m1.total
  BY <1>2, <1>3, FreeSome
<1> HIDE DEF m2, L2
<1>5. ArenaInv(free(m2, x.tcb), L2 \ {x.tcb}) /\ free(m2, x.tcb).total = m2.total
  BY <1>2, <1>4, FreeSome
<1>6. FreeTask(m, n) = free(m2, x.tcb)
  BY DEF FreeTask, m1, m2, x
<1> QED BY <1>2, <1>3, <1>4, <1>5, <1>6 DEF x

-----------------------------------------------------------------------------
(* Reclaiming *)

\* One step of the walk along the deferred-free list.
DrainStep(f, k, pinned) ==
  IF pending[k] \in pinned
  THEN [mem |-> f[k - 1].mem, kept |-> <<pending[k]>> \o f[k - 1].kept]
  ELSE [mem |-> FreeTask(f[k - 1].mem, pending[k]), kept |-> f[k - 1].kept]

\* f is the walk over the first N nodes.
DrainTo(f, N, pinned) ==
  f = [k \in 0..N |-> IF k = 0 THEN [mem |-> mem, kept |-> <<>>] ELSE DrainStep(f, k, pinned)]

\* A walk over the pending list has a value after every step.
LEMMA DrainExists ==
  ASSUME NEW n \in Nat, NEW pinned
  PROVE  \E f : DrainTo(f, n, pinned)
<1> DEFINE lacks == {N \in Nat : ~(\E f : DrainTo(f, N, pinned))}
<1> SUFFICES ASSUME lacks # {} PROVE FALSE
  OBVIOUS
<1>1. lacks \subseteq Nat
  OBVIOUS
<1> HIDE DEF lacks
<1>2. Min(lacks) \in lacks /\ \A i \in lacks : Min(lacks) <= i
  BY <1>1, MinInSet
<1> DEFINE N == Min(lacks)
<1>3. N \in Nat /\ ~(\E f : DrainTo(f, N, pinned))
  BY <1>2 DEF lacks
<1> HIDE DEF N
<1>4. N # 0
  <2> SUFFICES ASSUME N = 0 PROVE FALSE
    OBVIOUS
  <2> DEFINE f == [k \in 0..0 |-> [mem |-> mem, kept |-> <<>>]]
  <2>1. f = [k \in 0..0 |-> IF k = 0 THEN [mem |-> mem, kept |-> <<>>] ELSE DrainStep(f, k, pinned)]
    OBVIOUS
  <2>2. DrainTo(f, 0, pinned)
    BY <2>1 DEF DrainTo
  <2> QED BY <1>3, <2>2
<1>5. N - 1 \in Nat /\ N - 1 \notin lacks
  BY <1>2, <1>3, <1>4 DEF N
<1>6. PICK g : DrainTo(g, N - 1, pinned)
  BY <1>5 DEF lacks
<1> DEFINE f == [k \in 0..N |-> IF k = N THEN DrainStep(g, N, pinned) ELSE g[k]]
<1>7. ASSUME NEW k \in 0..N
      PROVE  f[k] = IF k = 0 THEN [mem |-> mem, kept |-> <<>>] ELSE DrainStep(f, k, pinned)
  <2>1. CASE k = 0
    <3>1. f[k] = g[0] /\ 0 \in 0..N - 1
      BY <1>3, <1>4, <2>1
    <3>2. g[0] = [mem |-> mem, kept |-> <<>>]
      BY <1>6, <3>1 DEF DrainTo
    <3> QED BY <2>1, <3>1, <3>2
  <2>2. CASE k # 0
    <3>1. k - 1 \in 0..N /\ k - 1 # N /\ f[k - 1] = g[k - 1]
      BY <1>3, <2>2
    <3>2. f[k] = DrainStep(g, k, pinned)
      <4>1. CASE k = N
        BY <4>1
      <4>2. CASE k # N
        <5>1. k \in 0..N - 1 /\ f[k] = g[k]
          BY <1>3, <4>2
        <5>2. g[k] = DrainStep(g, k, pinned)
          BY <1>6, <2>2, <5>1 DEF DrainTo
        <5> QED BY <5>1, <5>2
      <4> QED BY <4>1, <4>2
    <3> HIDE DEF f
    <3>3. DrainStep(f, k, pinned) = DrainStep(g, k, pinned)
      BY <3>1 DEF DrainStep
    <3> QED BY <2>2, <3>2, <3>3
  <2> QED BY <2>1, <2>2
<1>8. f = [k \in 0..N |-> f[k]]
  OBVIOUS
<1> HIDE DEF f
<1>9. DrainTo(f, N, pinned)
  BY <1>7, <1>8 DEF DrainTo
<1> QED BY <1>3, <1>9

\* What Drained folds is what that walk comes to.
LEMMA DrainedIs ==
  ASSUME pending \in Seq(Nodes), NEW pinned
  PROVE  \E f : DrainTo(f, Len(pending), pinned) /\ Drained(pinned) = f[Len(pending)]
<1> DEFINE g(after) == [k \in 0..Len(pending) |->
                 IF k = 0 THEN [mem |-> mem, kept |-> <<>>]
                 ELSE IF pending[k] \in pinned
                 THEN [mem |-> after[k - 1].mem, kept |-> <<pending[k]>> \o after[k - 1].kept]
                 ELSE [mem |-> FreeTask(after[k - 1].mem, pending[k]), kept |-> after[k - 1].kept]]
           after == CHOOSE f : f = g(f)
<1>1. Drained(pinned) = after[Len(pending)]
  BY DEF Drained
<1>2. \A f : DrainTo(f, Len(pending), pinned) <=> f = g(f)
  BY DEF DrainTo, DrainStep
<1>3. \E f : DrainTo(f, Len(pending), pinned)
  BY DrainExists
<1> HIDE DEF g
<1>4. after = g(after)
  BY <1>2, <1>3
<1> HIDE DEF after
<1>5. DrainTo(after, Len(pending), pinned)
  BY <1>2, <1>4
<1> QED BY <1>1, <1>5

Distinct(s) == \A i, j \in DOMAIN s : s[i] = s[j] => i = j

\* After k nodes: those not pinned have been freed, the pinned ones put back.
Drains(f, k, pinned) ==
  /\ \A gone : (\A p : p \in gone <=> \E j \in 1..k : pending[j] \notin pinned /\ p \in Ptrs(own[pending[j]]))
       => ArenaInv(f[k].mem, Held(own) \ gone)
  /\ f[k].mem.total = mem.total
  /\ f[k].kept \in Seq(Nodes) /\ Distinct(f[k].kept)
  /\ \A n : n \in ToSet(f[k].kept) <=> n \in pinned /\ \E j \in 1..k : n = pending[j]

\* One more TCB of the list: kept if pinned, freed otherwise.
LEMMA DrainSteps ==
  ASSUME ArenaInv(mem, Held(own)), OwnInv(own), pending \in Seq(Nodes), Distinct(pending),
         NEW pinned, NEW f, DrainTo(f, Len(pending), pinned),
         NEW k \in 1..Len(pending), Drains(f, k - 1, pinned)
  PROVE  Drains(f, k, pinned)
<1> DEFINE x == pending[k]
           g == f[k - 1]
<1>1. /\ k \in 0..Len(pending) /\ k # 0 /\ k \in Nat /\ k \in DOMAIN pending /\ x \in Nodes
      /\ 1..k = (1..k - 1) \cup {k} /\ \A j \in 1..k - 1 : j \in DOMAIN pending /\ j # k
  OBVIOUS
<1>2. f[k] = DrainStep(f, k, pinned)
  BY <1>1 DEF DrainTo
<1>3. \A j \in 1..k - 1 : pending[j] # x
  BY <1>1 DEF Distinct
<1> HIDE DEF x
<1>4. PICK before : \A p : p \in before <=>
                      \E j \in 1..k - 1 : pending[j] \notin pinned /\ p \in Ptrs(own[pending[j]])
  <2> DEFINE b == UNION {Ptrs(own[pending[j]]) : j \in {i \in 1..k - 1 : pending[i] \notin pinned}}
  <2>1. \A p : p \in b <=> \E j \in 1..k - 1 : pending[j] \notin pinned /\ p \in Ptrs(own[pending[j]])
    OBVIOUS
  <2> HIDE DEF b
  <2> QED BY <2>1
<1>5. /\ ArenaInv(g.mem, Held(own) \ before) /\ g.mem.total = mem.total
      /\ g.kept \in Seq(Nodes) /\ Distinct(g.kept)
      /\ \A n : n \in ToSet(g.kept) <=> n \in pinned /\ \E j \in 1..k - 1 : n = pending[j]
  BY <1>4 DEF Drains
<1> HIDE DEF g
<1>6. CASE x \in pinned
  <2>1. f[k] = [mem |-> g.mem, kept |-> <<x>> \o g.kept]
    BY <1>2, <1>6 DEF DrainStep, x, g
  <2>2. f[k].mem = g.mem /\ f[k].kept = <<x>> \o g.kept
    BY <2>1
  <2>3. x \notin ToSet(g.kept)
    BY <1>3, <1>5
  <2>4. f[k].kept \in Seq(Nodes) /\ ToSet(f[k].kept) = ToSet(g.kept) \cup {x}
    BY <1>1, <1>5, <2>2, Prepended
  <2>5. Distinct(f[k].kept)
    <3>1. \A i, j \in DOMAIN (<<x>> \o g.kept) : (<<x>> \o g.kept)[i] = (<<x>> \o g.kept)[j] => i = j
      BY <1>1, <1>5, <2>3, Prepended DEF Distinct
    <3> QED BY <2>2, <3>1 DEF Distinct
  <2>6. \A n : n \in ToSet(f[k].kept) <=> n \in pinned /\ \E j \in 1..k : n = pending[j]
    BY <1>1, <1>5, <1>6, <2>4 DEF x
  <2>7. ASSUME NEW gone, \A p : p \in gone <=>
                 \E j \in 1..k : pending[j] \notin pinned /\ p \in Ptrs(own[pending[j]])
        PROVE  ArenaInv(f[k].mem, Held(own) \ gone)
    <3>1. \A p : p \in gone <=> p \in before
      BY <1>1, <1>4, <1>6, <2>7 DEF x
    <3>2. gone = before
      BY <3>1
    <3> QED BY <1>5, <2>2, <3>2
  <2> QED BY <1>5, <2>2, <2>4, <2>5, <2>6, <2>7 DEF Drains
<1>7. CASE x \notin pinned
  <2>1. f[k] = [mem |-> FreeTask(g.mem, x), kept |-> g.kept]
    BY <1>2, <1>7 DEF DrainStep, x, g
  <2>2. f[k].mem = FreeTask(g.mem, x) /\ f[k].kept = g.kept
    BY <2>1
  <2>3. Ptrs(own[x]) \subseteq Held(own) \ before
    <3>1. ASSUME NEW p \in Ptrs(own[x]) PROVE p \in Held(own) /\ p \notin before
      <4>1. p \in Held(own)
        BY <1>1, HeldIs
      <4>2. ASSUME NEW j \in 1..k - 1 PROVE p \notin Ptrs(own[pending[j]])
        <5>1. pending[j] \in Nodes /\ pending[j] # x
          BY <1>1, <1>3
        <5> QED BY <1>1, <5>1 DEF OwnInv
      <4> QED BY <1>4, <4>1, <4>2
    <3> QED BY <3>1
  <2>4. ArenaInv(f[k].mem, (Held(own) \ before) \ Ptrs(own[x])) /\ f[k].mem.total = mem.total
    <3> DEFINE L == Held(own) \ before
               m == g.mem
    <3> HIDE DEF L, m
    <3>1. ArenaInv(m, L) /\ Ptrs(own[x]) \subseteq L /\ x \in Nodes
      BY <1>1, <1>5, <2>3 DEF L, m
    <3>2. ArenaInv(FreeTask(m, x), L \ Ptrs(own[x])) /\ FreeTask(m, x).total = m.total
      BY <3>1, FreeTaskKeeps
    <3> QED BY <1>5, <2>2, <3>2 DEF L, m
  <2>5. ASSUME NEW gone, \A p : p \in gone <=>
                 \E j \in 1..k : pending[j] \notin pinned /\ p \in Ptrs(own[pending[j]])
        PROVE  ArenaInv(f[k].mem, Held(own) \ gone)
    <3>1. \A p : p \in gone <=> p \in before \/ p \in Ptrs(own[x])
      BY <1>1, <1>4, <1>7, <2>5 DEF x
    <3>2. Held(own) \ gone = (Held(own) \ before) \ Ptrs(own[x])
      BY <3>1
    <3> QED BY <2>4, <3>2
  <2>6. \A n : n \in ToSet(f[k].kept) <=> n \in pinned /\ \E j \in 1..k : n = pending[j]
    BY <1>1, <1>5, <1>7, <2>2 DEF x
  <2> QED BY <1>5, <2>2, <2>4, <2>5, <2>6 DEF Drains
<1> QED BY <1>6, <1>7

\* After the whole list exactly the pinned TCBs are kept, and the rest is free.
LEMMA DrainKeeps ==
  ASSUME ArenaInv(mem, Held(own)), OwnInv(own), pending \in Seq(Nodes), Distinct(pending),
         NEW pinned, NEW gone,
         \A p : p \in gone <=> \E n \in ToSet(pending) \ pinned : p \in Ptrs(own[n])
  PROVE  LET d == Drained(pinned)
         IN  /\ ArenaInv(d.mem, Held(own) \ gone) /\ d.mem.total = mem.total
             /\ d.kept \in Seq(Nodes) /\ Distinct(d.kept)
             /\ ToSet(d.kept) = ToSet(pending) \cap pinned
<1> DEFINE n == Len(pending)
<1>0. n \in Nat /\ DOMAIN pending = 1..n
  OBVIOUS
<1>1. PICK f : DrainTo(f, n, pinned) /\ Drained(pinned) = f[n]
  BY DrainedIs
<1> DEFINE wrong == {k \in Nat : k <= n /\ ~Drains(f, k, pinned)}
<1>2. wrong = {}
  <2> SUFFICES ASSUME wrong # {} PROVE FALSE
    OBVIOUS
  <2>1. wrong \subseteq Nat
    OBVIOUS
  <2> HIDE DEF wrong
  <2>2. Min(wrong) \in wrong /\ \A i \in wrong : Min(wrong) <= i
    BY <2>1, MinInSet
  <2> DEFINE k == Min(wrong)
  <2>3. k \in Nat /\ k <= n /\ ~Drains(f, k, pinned)
    BY <2>2 DEF wrong
  <2>4. \A i \in Nat : i < k => i \notin wrong
    BY <2>2, <2>3
  <2> HIDE DEF k
  <2>5. CASE k = 0
    <3>1. f[0] = [mem |-> mem, kept |-> <<>>]
      BY <1>0, <1>1 DEF DrainTo
    <3>2. f[0].mem = mem /\ f[0].kept = <<>>
      BY <3>1
    <3>3. ASSUME NEW g, \A p : p \in g <=>
                   \E j \in 1..0 : pending[j] \notin pinned /\ p \in Ptrs(own[pending[j]])
          PROVE  ArenaInv(f[0].mem, Held(own) \ g)
      <4>1. Held(own) \ g = Held(own)
        BY <3>3
      <4> QED BY <3>2, <4>1
    <3>4. f[0].kept \in Seq(Nodes) /\ Distinct(f[0].kept) /\ ToSet(f[0].kept) = {}
      BY <3>2 DEF Distinct, ToSet
    <3>5. \A x : x \in ToSet(f[0].kept) <=> x \in pinned /\ \E j \in 1..0 : x = pending[j]
      BY <3>4
    <3>6. f[0].mem.total = mem.total
      BY <3>2
    <3>7. Drains(f, 0, pinned)
      BY <3>3, <3>4, <3>5, <3>6 DEF Drains
    <3> QED BY <2>3, <2>5, <3>7
  <2>6. CASE k # 0
    <3>1. k - 1 \in Nat /\ k - 1 <= n /\ k - 1 < k /\ k \in 1..n
      BY <1>0, <2>3, <2>6
    <3>2. Drains(f, k - 1, pinned)
      BY <2>4, <3>1 DEF wrong
    <3>3. Drains(f, k, pinned)
      BY <1>1, <3>1, <3>2, DrainSteps
    <3> QED BY <2>3, <3>3
  <2> QED BY <2>5, <2>6
<1>3. Drains(f, n, pinned)
  BY <1>0, <1>2
<1>4. \A p : p \in gone <=> \E j \in 1..n : pending[j] \notin pinned /\ p \in Ptrs(own[pending[j]])
  BY <1>0 DEF ToSet
<1> HIDE DEF n
<1>5. ArenaInv(f[n].mem, Held(own) \ gone)
  BY <1>3, <1>4 DEF Drains
<1>6. ToSet(f[n].kept) = ToSet(pending) \cap pinned
  <2>1. \A x : x \in ToSet(f[n].kept) <=> x \in pinned /\ \E j \in 1..n : x = pending[j]
    BY <1>3 DEF Drains
  <2>2. \A x : x \in ToSet(pending) <=> \E j \in 1..n : x = pending[j]
    BY <1>0 DEF ToSet
  <2> QED BY <2>1, <2>2
<1> QED BY <1>1, <1>3, <1>5, <1>6 DEF Drains

-----------------------------------------------------------------------------
(* The invariant *)

MemInv ==
  /\ arch \in Builds /\ most \in Nat
  /\ ArenaInv(mem, Held(own)) /\ OwnInv(own)
  /\ \A n \in Nodes : StackLaid(own[n])
  /\ stage \in [Nodes -> {"None", "Alive", "Dead"}]
  /\ \A n \in Nodes : stage[n] = "None" => own[n] = Nothing
  /\ pending \in Seq(Nodes) /\ Distinct(pending)
  /\ \A n \in ToSet(pending) : stage[n] = "Dead"
  /\ Cardinality(Held(own)) <= most

\* An arena with nothing carved is one.
LEMMA FreshArena == ArenaInv(Fresh, {})
<1>1. /\ Fresh \in [bump : 0..Region, total : {Fresh.total}, size : {Fresh.size},
                    slot : {Fresh.slot}, free : {Fresh.free}, live : Nat]
      /\ DOMAIN Fresh.total = {} /\ DOMAIN Fresh.size = {} /\ Fresh.free = <<>> /\ Fresh.live = 0
  BY ArenaAssumption DEF Fresh
<1>2. BlocksInv(Fresh)
  BY <1>1 DEF BlocksInv
<1>3. SharedOut(Fresh, {}) /\ Lodged(Fresh, {})
  BY <1>1 DEF SharedOut, Lodged, ToSet
<1>4. Counted(Fresh, {})
  BY <1>1, FS_EmptySet, OwedNothing DEF Counted
<1> QED BY <1>2, <1>3, <1>4 DEF ArenaInv

\* What is newly held adds to the count of what is held.
LEMMA HeldBy ==
  ASSUME NEW L, IsFiniteSet(L), NEW P, IsFiniteSet(P), P \cap L = {}
  PROVE  Cardinality(L \cup P) = Cardinality(L) + Cardinality(P)
         /\ Cardinality(L) \in Nat /\ Cardinality(P) \in Nat
<1>1. L \cap P = {}
  OBVIOUS
<1>2. Cardinality(L \cap P) = 0
  BY <1>1, FS_EmptySet
<1>3. Cardinality(L \cup P) = Cardinality(L) + Cardinality(P) - Cardinality(L \cap P)
  BY FS_Union
<1>4. Cardinality(L) \in Nat /\ Cardinality(P) \in Nat
  BY FS_CardinalityType
<1> QED BY <1>2, <1>3, <1>4

\* A node holds finitely many pointers.
LEMMA PtrsFinite ==
  ASSUME NEW x
  PROVE  IsFiniteSet(Ptrs(x))
<1>1. IsFiniteSet({x.blob})
  BY FS_Singleton
<1>2. IsFiniteSet({x.blob} \cup {x.stack})
  BY <1>1, FS_AddElement
<1>3. IsFiniteSet(({x.blob} \cup {x.stack}) \cup {x.tcb})
  BY <1>2, FS_AddElement
<1>4. IsFiniteSet((({x.blob} \cup {x.stack}) \cup {x.tcb}) \ {NoPtr})
  BY <1>3, FS_RemoveElement
<1>5. Ptrs(x) = (({x.blob} \cup {x.stack}) \cup {x.tcb}) \ {NoPtr}
  BY DEF Ptrs
<1> QED BY <1>4, <1>5

\* init_with.
LEMMA MemoryStart == MemoryInit => MemInv
<1> SUFFICES ASSUME MemoryInit PROVE MemInv
  OBVIOUS
<1> DEFINE root == alloc(Fresh, TcbSize[arch], TcbAlign[arch])
           main == alloc(root.mem, TcbSize[arch], TcbAlign[arch])
           blank == [n \in Nodes |-> Nothing]
           R == [Nothing EXCEPT !.tcb = root.ptr]
           M == [Nothing EXCEPT !.tcb = main.ptr]
           o1 == [blank EXCEPT !["root"] = R]
           o2 == [o1 EXCEPT !["main"] = M]
<1>1. /\ "root" \in Nodes /\ "main" \in Nodes
      /\ TcbSize[arch] \in Nat \ {0} /\ TcbAlign[arch] \in Nat \ {0}
  BY TcbAsked DEF Nodes, MemoryInit
<1>2. Yields(root, Fresh, {}, TcbAlign[arch])
  BY <1>1, FreshArena, AllocYields
<1>3. /\ mem = main.mem /\ own = o2
      /\ arch \in Builds /\ pending = <<>> /\ most = 2
      /\ stage = [n \in Nodes |-> IF n \in {"root", "main"} THEN "Alive" ELSE "None"]
  BY <1>1 DEF MemoryInit
<1> HIDE DEF root
<1>4. root.ptr \in Nat /\ ArenaInv(root.mem, {} \cup ({root.ptr} \ {NoPtr}))
  BY <1>2 DEF Yields
<1>5. OwnInv(blank) /\ Held(blank) = {} /\ Nothing \in Holdings /\ Ptrs(Nothing) = {}
  <2>1. Nothing \in Holdings /\ Ptrs(Nothing) = {} /\ Parted(Nothing)
    BY DEF Nothing, Holdings, Ptrs, Parted, NoPtr
  <2>2. OwnInv(blank)
    BY <2>1 DEF OwnInv
  <2>3. Held(blank) = {}
    <3>1. ASSUME NEW p \in Held(blank) PROVE FALSE
      <4>1. PICK n \in Nodes : p \in Ptrs(blank[n])
        BY HeldIs
      <4> QED BY <2>1, <4>1
    <3> QED BY <3>1
  <2> QED BY <2>1, <2>2, <2>3
<1>6. ASSUME NEW p \in Nat
      PROVE  LET x == [Nothing EXCEPT !.tcb = p]
             IN  /\ x \in Holdings /\ Ptrs(x) = {p} \ {NoPtr} /\ Parted(x) /\ x.stack = NoPtr
  BY DEF Nothing, Holdings, Ptrs, Parted, NoPtr
<1>7. /\ R \in Holdings /\ Ptrs(R) = {root.ptr} \ {NoPtr} /\ Parted(R) /\ R.stack = NoPtr
  BY <1>4, <1>6
<1> HIDE DEF R
<1>8. Ptrs(blank["root"]) = {}
  BY <1>1, <1>5
<1>9. blank["main"] = Nothing /\ "root" # "main" /\ blank \in [Nodes -> Holdings]
  BY <1>1, <1>5
<1> HIDE DEF blank
<1>10. OwnInv(o1) /\ Held(o1) = {root.ptr} \ {NoPtr}
  <2>1. Ptrs(R) \cap Held(blank) = {}
    BY <1>5
  <2>2. OwnInv(o1) /\ Held(o1) = Held(blank) \cup Ptrs(R)
    BY <1>1, <1>5, <1>7, <1>8, <2>1, OwnAdd
  <2> QED BY <1>5, <1>7, <2>2
<1>11. Ptrs(o1["main"]) = {}
  BY <1>5, <1>9
<1> HIDE DEF o1
<1>12. ArenaInv(root.mem, Held(o1))
  BY <1>4, <1>10
<1>13. Yields(main, root.mem, Held(o1), TcbAlign[arch])
  BY <1>1, <1>12, AllocYields
<1> HIDE DEF main
<1>14. main.ptr \in Nat /\ main.ptr \notin Held(o1) /\ ArenaInv(main.mem, Held(o1) \cup ({main.ptr} \ {NoPtr}))
  BY <1>13 DEF Yields
<1>15. /\ M \in Holdings /\ Ptrs(M) = {main.ptr} \ {NoPtr} /\ Parted(M) /\ M.stack = NoPtr
  BY <1>6, <1>14
<1> HIDE DEF M
<1>16. OwnInv(o2) /\ Held(o2) = Held(o1) \cup Ptrs(M)
  <2>1. Ptrs(M) \cap Held(o1) = {}
    BY <1>14, <1>15
  <2> QED BY <1>1, <1>10, <1>11, <1>15, <2>1, OwnAdd
<1>17. ArenaInv(mem, Held(own)) /\ OwnInv(own)
  BY <1>3, <1>14, <1>15, <1>16
<1>18. \A n \in Nodes : own[n].stack = NoPtr /\ (n \notin {"root", "main"} => own[n] = Nothing)
  <2>1. Nothing.stack = NoPtr
    BY DEF Nothing
  <2> QED BY <1>3, <1>7, <1>15, <2>1, <1>1, <1>9 DEF o1, o2, blank
<1>19. Cardinality(Held(own)) <= 2
  <2>1. Held(own) = ({root.ptr} \ {NoPtr}) \cup ({main.ptr} \ {NoPtr})
    BY <1>3, <1>10, <1>15, <1>16
  <2>2. IsFiniteSet({root.ptr}) /\ Cardinality({root.ptr}) = 1
    BY FS_Singleton
  <2>3. IsFiniteSet({root.ptr} \cup {main.ptr}) /\ Cardinality({root.ptr} \cup {main.ptr}) <= 2
    BY <2>2, FS_AddElement
  <2>4. Held(own) \in SUBSET ({root.ptr} \cup {main.ptr})
    BY <2>1
  <2>5. Cardinality(Held(own)) <= Cardinality({root.ptr} \cup {main.ptr}) /\ Cardinality(Held(own)) \in Nat
    BY <2>3, <2>4, FS_Subset, FS_CardinalityType
  <2> QED BY <2>2, <2>3, <2>5, FS_CardinalityType
<1>20. \A n \in Nodes : StackLaid(own[n])
  BY <1>18 DEF StackLaid
<1>21. /\ stage \in [Nodes -> {"None", "Alive", "Dead"}]
       /\ \A n \in Nodes : stage[n] = "None" => n \notin {"root", "main"}
  BY <1>3
<1>22. pending \in Seq(Nodes) /\ Distinct(pending) /\ ToSet(pending) = {}
  BY <1>3 DEF Distinct, ToSet
<1> QED BY <1>3, <1>17, <1>18, <1>19, <1>20, <1>21, <1>22 DEF MemInv

\* most grows to what is live once a spawn has got all it will get.
LEMMA AttemptCounts ==
  ASSUME MemInv, NEW body \in Closures, NEW refused \in BOOLEAN
  PROVE  LET got == Attempt(body, refused).got
             taken == Cardinality({got.tcb, got.blob, got.stack} \ {NoPtr})
         IN  /\ Cardinality(Held(own) \cup Ptrs(got)) = Cardinality(Held(own)) + taken
             /\ Cardinality(Held(own)) \in Nat /\ taken \in Nat
<1> DEFINE got == Attempt(body, refused).got
           L == Held(own)
<1>1. Ptrs(got) \cap L = {}
  BY AttemptTakes DEF MemInv
<1> HIDE DEF got
<1>2. {got.tcb, got.blob, got.stack} \ {NoPtr} = Ptrs(got) /\ IsFiniteSet(Ptrs(got))
  BY PtrsFinite DEF Ptrs
<1>3. IsFiniteSet(L)
  BY DEF MemInv, ArenaInv, Counted
<1> HIDE DEF L
<1>4. /\ Cardinality(L \cup Ptrs(got)) = Cardinality(L) + Cardinality(Ptrs(got))
      /\ Cardinality(L) \in Nat /\ Cardinality(Ptrs(got)) \in Nat
  BY <1>1, <1>2, <1>3, HeldBy
<1> QED BY <1>2, <1>4 DEF L, got

\* spawn_internal, failing at any step or succeeding.
LEMMA SpawnStep ==
  ASSUME MemInv, NEW n \in Leaves, NEW body \in Closures, NEW refused \in BOOLEAN,
         spawn_internal(n, body, refused)
  PROVE  MemInv'
<1> DEFINE try == Attempt(body, refused)
           L == Held(own)
           taken == Cardinality({try.got.tcb, try.got.blob, try.got.stack} \ {NoPtr})
<1>1. /\ try.got \in Holdings /\ Parted(try.got) /\ StackLaid(try.got)
      /\ Ptrs(try.got) \cap L = {} /\ ArenaInv(try.mem, L \cup Ptrs(try.got))
  BY AttemptTakes DEF MemInv
<1>2. n \in Nodes /\ stage[n] = "None" /\ arch' = arch /\ pending' = pending
  BY DEF spawn_internal, Nodes
<1>3. most' = Larger(most, Cardinality(L) + taken)
  BY DEF spawn_internal
<1>4. \/ ~try.ok /\ mem' = GiveBack(try.mem, try.got.blob, try.got.tcb) /\ own' = own /\ stage' = stage
      \/ /\ try.ok /\ mem' = try.mem /\ own' = [own EXCEPT ![n] = try.got]
         /\ stage' = [stage EXCEPT ![n] = "Alive"]
  BY DEF spawn_internal
<1>5. ~try.ok => ArenaInv(GiveBack(try.mem, try.got.blob, try.got.tcb), L)
  BY FailureGivesBack DEF MemInv
<1> HIDE DEF try
<1>7. /\ Cardinality(L \cup Ptrs(try.got)) = Cardinality(L) + taken
      /\ Cardinality(L) \in Nat /\ taken \in Nat
  BY AttemptCounts DEF try
<1> HIDE DEF taken
<1>8. most' \in Nat /\ most' >= most /\ most' >= Cardinality(L) + taken
  BY <1>3, <1>7 DEF Larger, MemInv
<1>9. StackSize' = StackSize
  BY <1>2 DEF StackSize
<1>10. CASE /\ mem' = GiveBack(try.mem, try.got.blob, try.got.tcb) /\ own' = own /\ stage' = stage /\ ~try.ok
  <2>1. ArenaInv(mem', Held(own'))
    BY <1>5, <1>10
  <2>2. \A k \in Nodes : StackLaid(own[k])'
    BY <1>2, <1>9, <1>10 DEF MemInv, StackLaid
  <2>3. Cardinality(Held(own')) <= most'
    BY <1>7, <1>8, <1>10 DEF MemInv
  <2> QED BY <1>2, <1>8, <1>10, <2>1, <2>2, <2>3 DEF MemInv
<1>11. CASE /\ mem' = try.mem /\ own' = [own EXCEPT ![n] = try.got]
            /\ stage' = [stage EXCEPT ![n] = "Alive"]
  <2>1. Ptrs(own[n]) = {}
    BY <1>2 DEF MemInv, Nothing, Ptrs
  <2>2. OwnInv(own)
    BY DEF MemInv
  <2>3. OwnInv(own') /\ Held(own') = L \cup Ptrs(try.got)
    BY <1>1, <1>2, <1>11, <2>1, <2>2, OwnAdd
  <2>4. ArenaInv(mem', Held(own'))
    BY <1>1, <1>11, <2>3
  <2>5. own \in [Nodes -> Holdings]
    BY <2>2 DEF OwnInv
  <2>6. \A k \in Nodes : StackLaid(own[k])'
    <3>1. own'[n] = try.got /\ \A k \in Nodes \ {n} : own'[k] = own[k]
      BY <1>2, <1>11, <2>5
    <3> QED BY <1>1, <1>2, <1>9, <3>1 DEF MemInv, StackLaid
  <2>7. Cardinality(Held(own')) <= most'
    BY <1>7, <1>8, <2>3
  <2>8. stage' \in [Nodes -> {"None", "Alive", "Dead"}]
        /\ \A k \in Nodes : stage'[k] = "None" => own'[k] = Nothing
    BY <1>2, <1>11, <2>5 DEF MemInv
  <2>9. n \notin ToSet(pending)
    BY <1>2 DEF MemInv
  <2>10. ToSet(pending) \subseteq Nodes
    BY DEF MemInv, ToSet
  <2>11. \A k \in ToSet(pending') : stage'[k] = "Dead"
    BY <1>2, <1>11, <2>9, <2>10 DEF MemInv
  <2> QED BY <1>2, <1>8, <2>3, <2>4, <2>6, <2>7, <2>8, <2>11 DEF MemInv
<1> QED BY <1>4, <1>10, <1>11

\* A group spawned, or not for want of memory.
LEMMA GroupStep ==
  ASSUME MemInv, NEW n \in Groups, spawn_group_node(n)
  PROVE  MemInv'
<1> DEFINE tcb == alloc(mem, TcbSize[arch], TcbAlign[arch])
           L == Held(own)
           x == [own[n] EXCEPT !.tcb = tcb.ptr]
<1>1. /\ n \in Nodes /\ stage[n] = "None" /\ own[n] = Nothing /\ own \in [Nodes -> Holdings]
      /\ TcbSize[arch] \in Nat \ {0} /\ TcbAlign[arch] \in Nat \ {0}
  BY TcbAsked DEF spawn_group_node, Nodes, MemInv, OwnInv
<1>2. Yields(tcb, mem, L, TcbAlign[arch])
  BY <1>1, AllocYields DEF MemInv
<1>3. /\ tcb.ptr # NoPtr /\ mem' = tcb.mem /\ own' = [own EXCEPT ![n].tcb = tcb.ptr]
      /\ stage' = [stage EXCEPT ![n] = "Alive"] /\ most' = Larger(most, Cardinality(Held(own')))
      /\ arch' = arch /\ pending' = pending
  BY DEF spawn_group_node
<1> HIDE DEF tcb
<1>4. tcb.ptr \in Nat /\ tcb.ptr \notin L /\ ArenaInv(tcb.mem, L \cup ({tcb.ptr} \ {NoPtr}))
  BY <1>2 DEF Yields
<1>5. x \in Holdings /\ Ptrs(x) = {tcb.ptr} \ {NoPtr} /\ Parted(x) /\ x.stack = NoPtr /\ Ptrs(own[n]) = {}
  BY <1>1, <1>4 DEF Nothing, Holdings, Ptrs, Parted, NoPtr
<1>6. own' = [own EXCEPT ![n] = x]
  BY <1>3
<1> HIDE DEF x
<1>7. OwnInv(own') /\ Held(own') = L \cup Ptrs(x)
  <2>1. OwnInv(own) /\ Ptrs(x) \cap Held(own) = {}
    BY <1>4, <1>5 DEF MemInv
  <2>2. OwnInv([own EXCEPT ![n] = x]) /\ Held([own EXCEPT ![n] = x]) = Held(own) \cup Ptrs(x)
    BY <1>1, <1>5, <2>1, OwnAdd
  <2> QED BY <1>6, <2>2
<1>8. ArenaInv(mem', Held(own'))
  BY <1>3, <1>4, <1>5, <1>7
<1>9. StackSize' = StackSize
  BY <1>3 DEF StackSize
<1>10. own'[n] = x /\ \A k \in Nodes \ {n} : own'[k] = own[k]
  BY <1>1, <1>6
<1>11. \A k \in Nodes : StackLaid(own[k])'
  BY <1>3, <1>5, <1>9, <1>10 DEF MemInv, StackLaid
<1>12. most' \in Nat /\ Cardinality(Held(own')) <= most'
  <2>1. Cardinality(Held(own')) \in Nat
    BY <1>8, FS_CardinalityType DEF ArenaInv, Counted
  <2> QED BY <1>3, <2>1 DEF Larger, MemInv
<1>13. n \notin ToSet(pending) /\ ToSet(pending) \subseteq Nodes
  BY <1>1 DEF MemInv, ToSet
<1>14. /\ stage' \in [Nodes -> {"None", "Alive", "Dead"}]
       /\ \A k \in Nodes : stage'[k] = "None" => own'[k] = Nothing
       /\ \A k \in ToSet(pending') : stage'[k] = "Dead"
  BY <1>1, <1>3, <1>10, <1>13 DEF MemInv
<1> QED BY <1>3, <1>7, <1>8, <1>11, <1>12, <1>14 DEF MemInv

\* A task that exits goes to the end of the pending list.
LEMMA PushStep ==
  ASSUME MemInv, NEW n \in Leaves \cup {"main"}, push_pending_free(n)
  PROVE  MemInv'
<1>1. n \in Nodes /\ n \notin ToSet(pending)
  BY DEF push_pending_free, Nodes, MemInv
<1>2. /\ stage' = [stage EXCEPT ![n] = "Dead"] /\ pending' = <<n>> \o pending
      /\ arch' = arch /\ mem' = mem /\ own' = own /\ most' = most
  BY DEF push_pending_free
<1>3. pending \in Seq(Nodes) /\ \A i, j \in DOMAIN pending : pending[i] = pending[j] => i = j
  BY DEF MemInv, Distinct
<1>4. pending' \in Seq(Nodes) /\ ToSet(pending') = ToSet(pending) \cup {n}
  BY <1>1, <1>2, <1>3, Prepended
<1>5. Distinct(pending')
  <2>1. \A i, j \in DOMAIN (<<n>> \o pending) : (<<n>> \o pending)[i] = (<<n>> \o pending)[j] => i = j
    BY <1>1, <1>3, Prepended
  <2> QED BY <1>2, <2>1 DEF Distinct
<1>6. ToSet(pending) \subseteq Nodes
  BY <1>3 DEF ToSet
<1>7. StackSize' = StackSize
  BY <1>2 DEF StackSize
<1>8. \A k \in Nodes : StackLaid(own[k])'
  BY <1>2, <1>7 DEF MemInv, StackLaid
<1>9. /\ stage' \in [Nodes -> {"None", "Alive", "Dead"}]
      /\ \A k \in Nodes : stage'[k] = "None" => own'[k] = Nothing
      /\ \A k \in ToSet(pending') : stage'[k] = "Dead"
  BY <1>1, <1>2, <1>4, <1>6 DEF MemInv
<1> QED BY <1>2, <1>4, <1>5, <1>8, <1>9 DEF MemInv

\* Reclamation frees what the nodes on the list hold.
LEMMA ReclaimStep ==
  ASSUME MemInv, NEW pinned \in SUBSET Leaves, reclaim_finished_tasks(pinned)
  PROVE  MemInv'
<1> DEFINE freed == ToSet(pending) \ pinned
           d == Drained(pinned)
           L == Held(own)
           gone == UNION {Ptrs(own[n]) : n \in freed}
<1>1. /\ mem' = d.mem /\ pending' = d.kept
      /\ own' = [n \in Nodes |-> IF n \in freed THEN Nothing ELSE own[n]]
      /\ stage' = [n \in Nodes |-> IF n \in freed THEN "None" ELSE stage[n]]
      /\ arch' = arch /\ most' = most
  BY DEF reclaim_finished_tasks
<1>2. freed \in SUBSET Nodes /\ ToSet(pending) \subseteq Nodes
  BY DEF MemInv, ToSet
<1>3. \A p : p \in gone <=> \E n \in freed : p \in Ptrs(own[n])
  OBVIOUS
<1> HIDE DEF gone
<1>4. /\ ArenaInv(d.mem, L \ gone) /\ d.kept \in Seq(Nodes) /\ Distinct(d.kept)
      /\ ToSet(d.kept) = ToSet(pending) \cap pinned
  BY <1>3, DrainKeeps DEF MemInv
<1> HIDE DEF d, freed
<1>5. OwnInv(own') /\ Held(own') = L \ gone
  <2> DEFINE new == [n \in Nodes |-> IF n \in freed THEN Nothing ELSE own[n]]
  <2>1. OwnInv(own)
    BY DEF MemInv
  <2>2. OwnInv(new) /\ Held(new) = Held(own) \ gone
    BY <1>2, <1>3, <2>1, OwnDrop
  <2>3. own' = new
    BY <1>1
  <2> HIDE DEF new
  <2> QED BY <2>2, <2>3
<1>6. ArenaInv(mem', Held(own'))
  BY <1>1, <1>4, <1>5
<1>7. Cardinality(Held(own')) <= most'
  <2>1. IsFiniteSet(L) /\ Cardinality(L) \in Nat
    BY FS_CardinalityType DEF MemInv, ArenaInv, Counted
  <2>2. Held(own') \in SUBSET L
    BY <1>5
  <2>3. Cardinality(Held(own')) <= Cardinality(L) /\ Cardinality(Held(own')) \in Nat
    BY <2>1, <2>2, FS_Subset, FS_CardinalityType
  <2>4. Cardinality(L) <= most /\ most \in Nat
    BY DEF MemInv
  <2> HIDE DEF L
  <2> QED BY <1>1, <2>1, <2>3, <2>4
<1>8. StackSize' = StackSize
  BY <1>1 DEF StackSize
<1>9. \A k \in Nodes : own'[k] = Nothing \/ (own'[k] = own[k] /\ k \notin freed)
  BY <1>1
<1>10. \A k \in Nodes : StackLaid(own[k])'
  BY <1>1, <1>8, <1>9 DEF MemInv, StackLaid, Nothing
<1>11. /\ stage' \in [Nodes -> {"None", "Alive", "Dead"}]
       /\ \A k \in Nodes : stage'[k] = "None" => own'[k] = Nothing
  BY <1>1 DEF MemInv
<1>12. \A k \in ToSet(pending') : stage'[k] = "Dead"
  <2>1. \A k \in ToSet(pending') : k \in ToSet(pending) /\ k \notin freed /\ k \in Nodes
    BY <1>1, <1>2, <1>4 DEF freed
  <2> QED BY <1>1, <2>1 DEF MemInv
<1> QED BY <1>1, <1>4, <1>5, <1>6, <1>7, <1>10, <1>11, <1>12 DEF MemInv

\* No step of the kernel breaks the invariant of the memory.
LEMMA MemoryStep == MemInv /\ [MemoryNext]_memory_vars => MemInv'
<1> SUFFICES ASSUME MemInv, [MemoryNext]_memory_vars PROVE MemInv'
  OBVIOUS
<1>1. CASE \E n \in Leaves, f \in Closures, refused \in BOOLEAN : spawn_internal(n, f, refused)
  BY <1>1, SpawnStep
<1>2. CASE \E n \in Groups : spawn_group_node(n)
  BY <1>2, GroupStep
<1>3. CASE \E n \in Leaves \cup {"main"} : push_pending_free(n)
  BY <1>3, PushStep
<1>4. CASE \E pinned \in SUBSET Leaves : reclaim_finished_tasks(pinned)
  BY <1>4, ReclaimStep
<1>5. CASE UNCHANGED memory_vars
  <2>1. StackSize' = StackSize
    BY <1>5 DEF StackSize, memory_vars
  <2> QED BY <1>5, <2>1 DEF MemInv, memory_vars, StackLaid
<1> QED BY <1>1, <1>2, <1>3, <1>4, <1>5 DEF MemoryNext

\* Whatever spawn_internal allocates and gives back and reclaim_finished_tasks
\* frees, the blocks lie one behind the other below bump, each is on the free
\* list once or is one live allocation's, no two nodes hold the same one, and
\* live is the sum of what the live allocations asked for (arena.rs alloc, free).
THEOREM MemoryHolds == MemorySpec => []MemInv
BY MemoryStart, MemoryStep, PTL DEF MemorySpec

\* Every TCB, closure block and stack lies inside a block of its own, clear of
\* its header and of every other block, and a first frame lies in its stack
\* (arena.rs alloc, the ports' create_task).
THEOREM MemoryHoldsApart == MemorySpec => []HoldsApart
<1>1. MemInv => HoldsApart
  <2> SUFFICES ASSUME MemInv PROVE HoldsApart
    OBVIOUS
  <2>1. ArenaInv(mem, Held(own)) /\ OwnInv(own)
    BY DEF MemInv
  <2>2. \A h \in Headers : /\ h \in Nat /\ h >= Base /\ mem.total[h] \in Nat /\ mem.total[h] >= 1
                           /\ h + mem.total[h] <= Base + mem.bump
    BY <2>1, ArenaAssumption DEF ArenaInv, BlocksInv, Headers
  <2>3. mem.bump \in 0..Region
    BY <2>1 DEF ArenaInv, BlocksInv
  <2>4. MemoryTypeOK
    <3>1. Headers \subseteq Base..Base + Region - 1
      BY <2>2, <2>3, ArenaAssumption
    <3>2. mem.live \in Nat /\ DOMAIN mem.size = Headers /\ mem.free \in Seq(Headers)
      BY <2>1 DEF ArenaInv, BlocksInv, SharedOut, Headers
    <3> QED BY <2>1, <2>3, <3>1, <3>2 DEF MemoryTypeOK, MemInv, OwnInv, Holdings
  <2>5. \A h \in Headers : Extent(h) \subseteq Base..Base + mem.bump - 1
    BY <2>2, <2>3, ArenaAssumption DEF Extent
  <2>6. ASSUME NEW h \in Headers, NEW g \in Headers, h # g PROVE Extent(h) \cap Extent(g) = {}
    <3>1. h < g => h + mem.total[h] <= g
      BY <2>1 DEF ArenaInv, BlocksInv, Headers
    <3>2. g < h => g + mem.total[g] <= h
      BY <2>1 DEF ArenaInv, BlocksInv, Headers
    <3> QED BY <2>2, <2>6, <3>1, <3>2 DEF Extent
  <2>7. ASSUME NEW p \in Held(own)
        PROVE  LET h == HeaderOf(p)
               IN  h \in Headers /\ h + Hdr <= p - Slot /\ p..p + mem.size[h] - 1 \subseteq Extent(h)
    <3> DEFINE h == HeaderOf(p)
    <3>1. /\ h \in Headers /\ p \in Nat /\ p >= h + Hdr + Slot /\ p + mem.size[h] <= h + mem.total[h]
          /\ mem.size[h] \in Nat
      BY <2>1 DEF ArenaInv, Lodged, BlocksInv, Headers, HeaderOf
    <3> HIDE DEF h
    <3>2. h \in Nat /\ mem.total[h] \in Nat
      BY <2>2, <3>1
    <3>3. h + Hdr <= p - Slot
      BY <3>1, <3>2, ArenaAssumption
    <3>4. p..p + mem.size[h] - 1 \subseteq Extent(h)
      BY <3>1, <3>2, ArenaAssumption DEF Extent
    <3> QED BY <3>1, <3>3, <3>4 DEF h
  <2>8. \A p, q \in Held(own) : HeaderOf(p) = HeaderOf(q) => p = q
    BY <2>1 DEF ArenaInv, SharedOut, HeaderOf
  <2>9. \A n \in Nodes :
          own[n].stack # NoPtr =>
            /\ own[n].stack % Align[arch] = 0
            /\ own[n].stack <= own[n].sp
            /\ own[n].sp + Frame[arch] <= own[n].stack + StackSize
    BY DEF MemInv, StackLaid
  <2> QED BY <2>4, <2>5, <2>6, <2>7, <2>8, <2>9 DEF HoldsApart
<1> QED BY <1>1, MemoryHolds, PTL

\* No block is lost or freed twice, also by a spawn that failed half-way or a
\* pinned task left for later, and stats reports what is live and free.
THEOREM MemoryIsAccounted == MemorySpec => []MemoryAccounted
<1>1. MemInv => MemoryAccounted
  <2> SUFFICES ASSUME MemInv PROVE NothingLeaked /\ StatsExact
    BY DEF MemoryAccounted
  <2>1. ArenaInv(mem, Held(own))
    BY DEF MemInv
  <2>2. NothingLeaked
    <3>1. \A i, j \in DOMAIN mem.free : mem.free[i] = mem.free[j] => i = j
      BY <2>1 DEF ArenaInv, SharedOut
    <3>2. ToSet(mem.free) \cap {HeaderOf(p) : p \in Held(own)} = {}
      BY <2>1 DEF ArenaInv, SharedOut, HeaderOf
    <3>3. Headers = ToSet(mem.free) \cup {HeaderOf(p) : p \in Held(own)}
      BY <2>1 DEF ArenaInv, SharedOut, HeaderOf, Headers
    <3> QED BY <3>1, <3>2, <3>3 DEF NothingLeaked
  <2>3. mem.live = MapThenSumSet(LAMBDA p : mem.size[HeaderOf(p)], Held(own))
    <3>1. mem.live = Owed(mem, Held(own))
      BY <2>1 DEF ArenaInv, Counted
    <3> QED BY <3>1 DEF Owed, HeaderOf
  <2>4. Len(mem.free) = Cardinality(Headers) - Cardinality(Held(own))
    <3>1. Cardinality(Headers) = Len(mem.free) + Cardinality(Held(own))
      BY <2>1 DEF ArenaInv, Counted, Headers
    <3>2. Len(mem.free) \in Nat /\ Cardinality(Held(own)) \in Nat
      BY <2>1, FS_CardinalityType DEF ArenaInv, SharedOut, Counted
    <3> QED BY <3>1, <3>2
  <2>5. mem.bump \in 0..Region
    BY <2>1 DEF ArenaInv, BlocksInv
  <2>6. StatsExact
    BY <2>3, <2>4, <2>5, ArenaAssumption DEF StatsExact, stats
  <2> QED BY <2>2, <2>6
<1> QED BY <1>1, MemoryHolds, PTL

-----------------------------------------------------------------------------
(* How much is carved *)

\* For each request at most k blocks are carved.
Steady(m, k) == \A r \in Requests : Cardinality(BlocksFor(m, r)) <= k

Request(size, align) == [size |-> size, align |-> align] \in Requests

\* Sizes asked for are positive, and alignments are some of Alignments.
LEMMA RequestIs ==
  ASSUME arch \in Builds, NEW r \in Requests
  PROVE  /\ r.size \in Nat \ {0} /\ r.align \in Nat \ {0}
         /\ r = [size |-> r.size, align |-> r.align]
         /\ r.align \in Alignments
<1>1. CASE r = [size |-> TcbSize[arch], align |-> TcbAlign[arch]]
  <2>1. TcbAlign[arch] \in Alignments
    BY MemoryAssumption DEF Alignments
  <2> QED BY <1>1, <2>1, TcbAsked
<1>2. CASE \E f \in Closures : r = [size |-> block_size_for(f), align |-> block_align_for(f)]
  <2>1. PICK f \in Closures : r = [size |-> block_size_for(f), align |-> block_align_for(f)]
    BY <1>2
  <2>2. block_align_for(f) \in Alignments
    BY DEF Alignments, block_align_for
  <2> QED BY <2>1, <2>2, BlockAsked
<1>3. CASE arch # "Win32" /\ r = [size |-> StackSize, align |-> Align[arch]]
  <2>1. arch \in Arenas
    BY <1>3, MemoryAssumption
  <2>2. Align[arch] \in Alignments
    BY <2>1 DEF Alignments
  <2> QED BY <1>3, <2>1, <2>2, StackSizeIs
<1> QED BY <1>1, <1>2, <1>3 DEF Requests

\* The kernel makes these requests.
LEMMA RequestsMade ==
  /\ Request(TcbSize[arch], TcbAlign[arch])
  /\ \A f \in Closures : Request(block_size_for(f), block_align_for(f))
  /\ arch # "Win32" => Request(StackSize, Align[arch])
BY DEF Request, Requests

\* What is a multiple of a is one of every divisor of a.
LEMMA MultipleOf ==
  ASSUME NEW v \in Nat, NEW a \in Nat \ {0}, NEW b \in Nat \ {0}, a % b = 0, align_up(v, a) = v
  PROVE  align_up(v, b) = v
<1> DEFINE q == (v + a - 1) \div a
           c == a \div b
<1>1. v + a - 1 \in Nat
  OBVIOUS
<1>2. q \in Nat /\ v = q * a
  BY <1>1, Quotient DEF align_up
<1>3. c \in Nat /\ a = c * b
  OBVIOUS
<1> DEFINE w == (v + b - 1) \div b
           d == q * c
<1>4. align_up(v, b) = w * b
  BY DEF align_up
<1>5. v + b - 1 \in Nat
  OBVIOUS
<1>6. w \in Nat /\ w * b <= v + b - 1 /\ v + b - 1 < w * b + b
  BY <1>5, Quotient
<1> HIDE DEF q, c, w
<1>7. d \in Nat /\ v = d * b
  BY <1>2, <1>3
<1> HIDE DEF d
<1>8. w * b < (d + 1) * b /\ d * b < (w + 1) * b
  BY <1>6, <1>7
<1>9. w < d + 1
  BY <1>6, <1>7, <1>8
<1>10. d < w + 1
  BY <1>6, <1>7, <1>8
<1>11. w = d
  BY <1>6, <1>7, <1>9, <1>10
<1> QED BY <1>4, <1>7, <1>11

\* A block that serves an alignment serves every weaker one asked for.
LEMMA ServesWeaker ==
  ASSUME arch \in Builds, NEW q \in Requests, NEW r \in Requests, q.align <= r.align,
         NEW h \in Nat, Serves(h, r.align)
  PROVE  Serves(h, q.align)
<1>1. /\ q.align \in Nat \ {0} /\ r.align \in Nat \ {0}
      /\ q.align \in Alignments /\ r.align \in Alignments
  BY RequestIs
<1>2. r.align % q.align = 0
  BY <1>1, MemoryAssumption
<1>3. h + Hdr + Slot \in Nat
  BY ArenaAssumption
<1>4. align_up(h + Hdr + Slot, r.align) = h + Hdr + Slot
  BY DEF Serves, payload_of
<1>5. align_up(h + Hdr + Slot, q.align) = h + Hdr + Slot
  BY <1>1, <1>2, <1>3, <1>4, MultipleOf
<1> QED BY <1>5 DEF Serves, payload_of

\* An allocation that succeeds hands out a free block or carves a new one.
LEMMA AllocCarves ==
  ASSUME NEW m, NEW L, ArenaInv(m, L), NEW size \in Nat \ {0}, NEW align \in Nat \ {0}
  PROVE  LET new == alloc(m, size, align)
         IN  new.mem.total = m.total \/ Carves(new, m, size, align)
<1> DEFINE fit == {i \in DOMAIN m.free : Fits(m, m.free[i], size, align)}
           new == alloc(m, size, align)
<1>1. CASE fit # {}
  <2>1. fit \subseteq Nat
    BY DEF ArenaInv, SharedOut
  <2>2. Min(fit) \in fit
    BY <1>1, <2>1, MinInSet
  <2>3. new = Recycled(m, Min(fit), size, align)
    BY <1>1 DEF alloc
  <2>4. Min(fit) \in DOMAIN m.free /\ Fits(m, m.free[Min(fit)], size, align)
    BY <2>2
  <2> HIDE DEF fit, new
  <2>5. Recycled(m, Min(fit), size, align).mem.total = m.total
    BY <2>4, RecycledKeeps
  <2> QED BY <2>3, <2>5 DEF new
<1>2. CASE fit = {}
  <2>1. new = Carved(m, size, align)
    BY <1>2 DEF alloc
  <2> HIDE DEF new
  <2>2. new.mem = m \/ Carves(new, m, size, align)
    BY <2>1, CarvedKeeps
  <2> QED BY <2>2 DEF new
<1> QED BY <1>1, <1>2

\* A request carves a block only while all that would suit it are held, and the
\* new block counts for no request that those others would not suit.
LEMMA AllocSteady ==
  ASSUME arch \in Builds, NEW m, NEW L, ArenaInv(m, L),
         NEW k \in Nat, Steady(m, k), NEW size, NEW align, Request(size, align),
         Cardinality(L \cup ({alloc(m, size, align).ptr} \ {NoPtr})) <= k
  PROVE  Steady(alloc(m, size, align).mem, k)
<1> DEFINE new == alloc(m, size, align)
           hdr == new.ptr - Slot - Hdr
           q == [size |-> size, align |-> align]
<1>0. q \in Requests /\ q.size = size /\ q.align = align
  BY DEF Request
<1>1. size \in Nat \ {0} /\ align \in Nat \ {0}
  BY <1>0, RequestIs
<1>2. Yields(new, m, L, align)
  BY <1>1, AllocYields
<1>3. new.mem.total = m.total \/ Carves(new, m, size, align)
  BY <1>1, AllocCarves
<1>4. CASE new.mem.total = m.total
  BY <1>4 DEF Steady, BlocksFor
<1>5. CASE new.mem.total # m.total
  <2>1. Cardinality(L) < k /\ Cardinality(L) \in Nat
    <3>1. IsFiniteSet(L) /\ Cardinality(L) \in Nat
      BY FS_CardinalityType DEF ArenaInv, Counted
    <3>2. new.ptr \notin L /\ (new.ptr = NoPtr => new.mem = m)
      BY <1>2 DEF Yields
    <3>3. L \cup ({new.ptr} \ {NoPtr}) = L \cup {new.ptr}
      BY <1>5, <3>2
    <3> HIDE DEF new
    <3>4. Cardinality(L \cup {new.ptr}) = Cardinality(L) + 1
      BY <3>1, <3>2, FS_AddElement
    <3>5. Cardinality(L \cup {new.ptr}) <= k
      BY <3>3 DEF new
    <3> QED BY <3>1, <3>4, <3>5
  <2>2. /\ hdr \notin DOMAIN m.total
        /\ DOMAIN new.mem.total = DOMAIN m.total \cup {hdr}
        /\ new.mem.total[hdr] = Hdr + Slot + size
        /\ \A h \in DOMAIN m.total : new.mem.total[h] = m.total[h]
        /\ Serves(hdr, align)
    <3>1. Carves(new, m, size, align)
      BY <1>3, <1>5
    <3> HIDE DEF new
    <3> QED BY <3>1 DEF Carves, Serves
  <2>3. ASSUME NEW r \in Requests PROVE Cardinality(BlocksFor(new.mem, r)) <= k
    <3> DEFINE B == BlocksFor(m, r)
    <3>1. Cardinality(B) <= k
      BY DEF Steady
    <3>2. B \subseteq DOMAIN m.total /\ IsFiniteSet(DOMAIN m.total)
      BY DEF BlocksFor, ArenaInv, Counted
    <3>3. IsFiniteSet(B) /\ Cardinality(B) \in Nat
      BY <3>2, FS_Subset, FS_CardinalityType
    <3>4. r.size \in Nat \ {0} /\ r.align \in Nat \ {0}
      BY RequestIs
    <3>5. BlocksFor(new.mem, r) \ {hdr} = B
      <4> HIDE DEF new, hdr
      <4> QED BY <2>2 DEF BlocksFor
    <3>6. CASE hdr \notin BlocksFor(new.mem, r)
      <4>1. BlocksFor(new.mem, r) = B
        BY <3>5, <3>6
      <4> QED BY <3>1, <4>1
    <3>7. CASE hdr \in BlocksFor(new.mem, r)
      <4>1. r.size = size /\ align <= r.align
        <5>1. Hdr + Slot + r.size = Hdr + Slot + size
          BY <2>2, <3>7 DEF BlocksFor
        <5>2. r.size = size
          BY <1>1, <3>4, <5>1, ArenaAssumption
        <5>3. ~(align > r.align)
          <6> HIDE DEF new, hdr, q
          <6> QED BY <1>0, <2>2, <3>7, <5>2 DEF BlocksFor
        <5> QED BY <1>1, <3>4, <5>2, <5>3
      <4>2. B \in SUBSET OfSize(m, size)
        BY <4>1 DEF BlocksFor, OfSize
      <4>3. ASSUME NEW h \in B PROVE Serves(h, align)
        <5>1. h \in Nat /\ Serves(h, r.align)
          BY DEF BlocksFor, ArenaInv, BlocksInv
        <5> HIDE DEF q
        <5> QED BY <1>0, <4>1, <5>1, ServesWeaker
      <4> HIDE DEF B
      <4>4. Cardinality(B) <= Cardinality(L)
        BY <1>1, <1>5, <4>2, <4>3, CarvesWhenAllHeld
      <4> HIDE DEF new, hdr
      <4>5. BlocksFor(new.mem, r) = B \cup {hdr} /\ hdr \notin B
        BY <2>2, <3>2, <3>5, <3>7
      <4>6. Cardinality(B \cup {hdr}) = Cardinality(B) + 1
        BY <3>3, <4>5, FS_AddElement
      <4> QED BY <2>1, <3>3, <4>4, <4>5, <4>6
    <3> QED BY <3>6, <3>7
  <2> HIDE DEF new
  <2>4. Steady(new.mem, k)
    BY <2>3 DEF Steady
  <2> QED BY <2>4 DEF new
<1> QED BY <1>4, <1>5

\* Steadiness is about the blocks that are carved.
LEMMA SteadySame ==
  ASSUME NEW m, NEW n, m.total = n.total, NEW k, Steady(n, k)
  PROVE  Steady(m, k)
BY DEF Steady, BlocksFor

\* More live allocations allow more blocks.
LEMMA SteadyGrows ==
  ASSUME NEW m, NEW L, ArenaInv(m, L), NEW j \in Nat, NEW k \in Nat, j <= k, Steady(m, j)
  PROVE  Steady(m, k)
<1>1. ASSUME NEW r \in Requests PROVE Cardinality(BlocksFor(m, r)) <= k
  <2>1. IsFiniteSet(DOMAIN m.total) /\ BlocksFor(m, r) \in SUBSET DOMAIN m.total
    BY DEF ArenaInv, Counted, BlocksFor
  <2>2. Cardinality(BlocksFor(m, r)) \in Nat
    BY <2>1, FS_Subset, FS_CardinalityType
  <2>3. Cardinality(BlocksFor(m, r)) <= j
    BY DEF Steady
  <2> QED BY <2>2, <2>3
<1> QED BY <1>1 DEF Steady

\* Of what is live before the last allocation there is no more than after it.
LEMMA FewerLive ==
  ASSUME NEW m, NEW L, ArenaInv(m, L), NEW k \in Nat, Cardinality(L) <= k, NEW M \in SUBSET L
  PROVE  Cardinality(M) <= k
<1>1. IsFiniteSet(L)
  BY DEF ArenaInv, Counted
<1>2. Cardinality(M) <= Cardinality(L) /\ Cardinality(M) \in Nat /\ Cardinality(L) \in Nat
  BY <1>1, FS_Subset, FS_CardinalityType
<1> QED BY <1>2

\* The three allocations of a spawn, one after the other, leave it steady.
LEMMA AttemptSteady ==
  ASSUME ArenaInv(mem, Held(own)), arch \in Builds,
         NEW body \in Closures, NEW refused \in BOOLEAN, NEW k \in Nat, Steady(mem, k),
         Cardinality(Held(own) \cup Ptrs(Attempt(body, refused).got)) <= k
  PROVE  Steady(Attempt(body, refused).mem, k)
<1> DEFINE L == Held(own)
           tcb == alloc(mem, TcbSize[arch], TcbAlign[arch])
           blob == IF tcb.ptr = NoPtr THEN tcb ELSE alloc(tcb.mem, block_size_for(body), block_align_for(body))
           stack == IF blob.ptr = NoPtr
                    THEN [ok |-> FALSE, ptr |-> NoPtr, sp |-> NoPtr, mem |-> blob.mem]
                    ELSE create_task(blob.mem, refused)
           got == [tcb |-> tcb.ptr, blob |-> blob.ptr, stack |-> stack.ptr, sp |-> stack.sp]
           L1 == L \cup ({tcb.ptr} \ {NoPtr})
           L2 == L1 \cup ({blob.ptr} \ {NoPtr})
           L3 == L2 \cup ({stack.ptr} \ {NoPtr})
<1>1. Attempt(body, refused) = [ok |-> stack.ok, mem |-> stack.mem, got |-> got]
  BY DEF Attempt
<1>2. /\ Request(TcbSize[arch], TcbAlign[arch])
      /\ Request(block_size_for(body), block_align_for(body))
      /\ TcbSize[arch] \in Nat \ {0} /\ TcbAlign[arch] \in Nat \ {0}
      /\ block_size_for(body) \in Nat \ {0} /\ block_align_for(body) \in Nat \ {0}
  BY RequestsMade, TcbAsked, BlockAsked
<1>3. ArenaInv(stack.mem, L3) /\ Cardinality(L3) <= k
  <2>1. Attempt(body, refused).got = got /\ Attempt(body, refused).mem = stack.mem
    BY <1>1
  <2>2. ArenaInv(Attempt(body, refused).mem, L \cup Ptrs(Attempt(body, refused).got))
    BY AttemptTakes
  <2>3. Ptrs(got) = ({tcb.ptr} \ {NoPtr}) \cup ({blob.ptr} \ {NoPtr}) \cup ({stack.ptr} \ {NoPtr})
    BY DEF Ptrs
  <2>4. L \cup Ptrs(got) = L3
    BY <2>3
  <2> HIDE DEF got, stack, L3
  <2> QED BY <2>1, <2>2, <2>4
<1>4. L1 \in SUBSET L3 /\ L2 \in SUBSET L3
  OBVIOUS
<1> HIDE DEF L3
<1>5. Cardinality(L1) <= k /\ Cardinality(L2) <= k
  BY <1>3, <1>4, FewerLive
<1>6. Steady(tcb.mem, k) /\ ArenaInv(tcb.mem, L1)
  <2>1. Steady(tcb.mem, k)
    BY <1>2, <1>5, AllocSteady
  <2>2. Yields(tcb, mem, L, TcbAlign[arch])
    BY <1>2, AllocYields
  <2> QED BY <2>1, <2>2 DEF Yields
<1> HIDE DEF tcb, L1
<1>7. Steady(blob.mem, k) /\ ArenaInv(blob.mem, L2)
  <2>1. CASE tcb.ptr = NoPtr
    <3>1. blob = tcb /\ L2 = L1
      BY <2>1
    <3> QED BY <1>6, <3>1
  <2>2. CASE tcb.ptr # NoPtr
    <3> DEFINE new == alloc(tcb.mem, block_size_for(body), block_align_for(body))
    <3>1. blob = new
      BY <2>2
    <3>2. L2 = L1 \cup ({new.ptr} \ {NoPtr})
      BY <3>1
    <3> HIDE DEF blob, L2
    <3>3. Steady(new.mem, k)
      BY <1>2, <1>5, <1>6, <3>2, AllocSteady
    <3>4. Yields(new, tcb.mem, L1, block_align_for(body))
      BY <1>2, <1>6, AllocYields
    <3> HIDE DEF new
    <3> QED BY <3>1, <3>2, <3>3, <3>4 DEF Yields
  <2> QED BY <2>1, <2>2
<1> HIDE DEF blob, L2
<1>8. Steady(stack.mem, k)
  <2>1. CASE blob.ptr = NoPtr
    BY <1>7, <2>1
  <2>2. CASE blob.ptr # NoPtr /\ arch = "Win32"
    BY <1>7, <2>2 DEF create_task, win32_create_task
  <2>3. CASE blob.ptr # NoPtr /\ arch # "Win32"
    <3> DEFINE new == alloc(blob.mem, StackSize, Align[arch])
    <3>1. stack.ptr = new.ptr /\ stack.mem = new.mem
      BY <2>3 DEF create_task
    <3>2. L3 = L2 \cup ({new.ptr} \ {NoPtr})
      BY <3>1 DEF L3
    <3> HIDE DEF stack
    <3>3. Request(StackSize, Align[arch])
      BY <2>3, RequestsMade
    <3>4. Steady(new.mem, k)
      BY <1>3, <1>7, <3>2, <3>3, AllocSteady
    <3> QED BY <3>1, <3>4
  <2> QED BY <2>1, <2>2, <2>3
<1> HIDE DEF stack, got
<1>9. Attempt(body, refused).mem = stack.mem
  BY <1>1
<1> QED BY <1>8, <1>9

SteadyInv == MemInv /\ Steady(mem, most)

\* With nothing carved the arena is steady.
LEMMA SteadyStart == MemoryInit => SteadyInv
<1> SUFFICES ASSUME MemoryInit PROVE Steady(mem, most)
  BY MemoryStart DEF SteadyInv
<1> DEFINE root == alloc(Fresh, TcbSize[arch], TcbAlign[arch])
           main == alloc(root.mem, TcbSize[arch], TcbAlign[arch])
           L1 == {} \cup ({root.ptr} \ {NoPtr})
<1>1. mem = main.mem /\ most = 2 /\ arch \in Builds
  BY DEF MemoryInit
<1>2. /\ Request(TcbSize[arch], TcbAlign[arch])
      /\ TcbSize[arch] \in Nat \ {0} /\ TcbAlign[arch] \in Nat \ {0}
  BY <1>1, RequestsMade, TcbAsked
<1>3. Steady(Fresh, 2)
  <2>1. ASSUME NEW r PROVE BlocksFor(Fresh, r) = {}
    BY DEF BlocksFor, Fresh
  <2>2. Cardinality({}) = 0
    BY FS_EmptySet
  <2> QED BY <2>1, <2>2 DEF Steady
<1>4. ASSUME NEW p, NEW q PROVE Cardinality({} \cup ({p} \ {NoPtr})) <= 2
                              /\ Cardinality(({} \cup ({p} \ {NoPtr})) \cup ({q} \ {NoPtr})) <= 2
  <2>1. IsFiniteSet({p}) /\ Cardinality({p}) = 1
    BY FS_Singleton
  <2>2. IsFiniteSet({p} \cup {q}) /\ Cardinality({p} \cup {q}) <= 2
    BY <2>1, FS_AddElement
  <2>3. ASSUME NEW M \in SUBSET ({p} \cup {q}) PROVE Cardinality(M) <= 2
    <3>1. Cardinality(M) <= Cardinality({p} \cup {q}) /\ IsFiniteSet(M)
      BY <2>2, FS_Subset
    <3>2. Cardinality(M) \in Nat /\ Cardinality({p} \cup {q}) \in Nat
      BY <2>2, <3>1, FS_CardinalityType
    <3> QED BY <2>2, <3>1, <3>2
  <2>4. /\ {} \cup ({p} \ {NoPtr}) \in SUBSET ({p} \cup {q})
        /\ ({} \cup ({p} \ {NoPtr})) \cup ({q} \ {NoPtr}) \in SUBSET ({p} \cup {q})
    OBVIOUS
  <2> QED BY <2>3, <2>4
<1>5. Cardinality(L1) <= 2
  BY <1>4
<1>6. Yields(root, Fresh, {}, TcbAlign[arch])
  BY <1>2, FreshArena, AllocYields
<1>7. Steady(root.mem, 2)
  BY <1>1, <1>2, <1>3, <1>5, FreshArena, AllocSteady
<1> HIDE DEF root
<1>8. ArenaInv(root.mem, L1)
  BY <1>6 DEF Yields
<1>9. Cardinality(L1 \cup ({main.ptr} \ {NoPtr})) <= 2
  BY <1>4
<1> HIDE DEF L1
<1>10. Steady(main.mem, 2)
  BY <1>1, <1>2, <1>7, <1>8, <1>9, AllocSteady
<1> HIDE DEF main
<1> QED BY <1>1, <1>10

\* A spawn leaves it steady.
LEMMA SpawnSteady ==
  ASSUME SteadyInv, NEW n \in Leaves, NEW body \in Closures, NEW refused \in BOOLEAN,
         spawn_internal(n, body, refused)
  PROVE  Steady(mem', most')
<1> DEFINE try == Attempt(body, refused)
           L == Held(own)
           P == Ptrs(try.got)
           taken == Cardinality({try.got.tcb, try.got.blob, try.got.stack} \ {NoPtr})
<1>1. MemInv /\ Steady(mem, most) /\ ArenaInv(mem, L) /\ arch \in Builds /\ most \in Nat
  BY DEF SteadyInv, MemInv
<1>2. most' = Larger(most, Cardinality(L) + taken)
  BY DEF spawn_internal
<1>3. /\ Cardinality(L \cup P) = Cardinality(L) + taken
      /\ Cardinality(L) \in Nat /\ taken \in Nat
  BY <1>1, AttemptCounts
<1>4. most' \in Nat /\ most' >= most /\ Cardinality(L \cup P) <= most'
  <2> HIDE DEF L, P, taken
  <2> QED BY <1>1, <1>2, <1>3 DEF Larger
<1>5. Steady(mem, most')
  BY <1>1, <1>4, SteadyGrows
<1>6. Steady(try.mem, most')
  BY <1>1, <1>4, <1>5, AttemptSteady
<1>7. ~try.ok => GiveBack(try.mem, try.got.blob, try.got.tcb).total = try.mem.total
  BY <1>1, FailureGivesBack
<1>8. mem' = try.mem \/ (~try.ok /\ mem' = GiveBack(try.mem, try.got.blob, try.got.tcb))
  BY DEF spawn_internal
<1> HIDE DEF try
<1> QED BY <1>6, <1>7, <1>8, SteadySame

\* The spawn of a group leaves it steady.
LEMMA GroupSteady ==
  ASSUME SteadyInv, MemInv', NEW n \in Groups, spawn_group_node(n)
  PROVE  Steady(mem', most')
<1> DEFINE tcb == alloc(mem, TcbSize[arch], TcbAlign[arch])
           L == Held(own)
           M == L \cup ({tcb.ptr} \ {NoPtr})
<1>1. /\ Steady(mem, most) /\ ArenaInv(mem, L) /\ arch \in Builds /\ most \in Nat
      /\ stage[n] = "None" /\ own[n] = Nothing /\ n \in Nodes /\ own \in [Nodes -> Holdings]
  BY DEF SteadyInv, MemInv, OwnInv, spawn_group_node, Nodes
<1>2. /\ mem' = tcb.mem /\ own' = [own EXCEPT ![n].tcb = tcb.ptr]
      /\ most' = Larger(most, Cardinality(Held(own')))
  BY DEF spawn_group_node
<1>3. most' \in Nat /\ Cardinality(Held(own')) <= most' /\ ArenaInv(mem', Held(own'))
  BY DEF MemInv
<1>4. most <= most'
  <2>1. Cardinality(Held(own')) \in Nat
    BY <1>3, FS_CardinalityType DEF ArenaInv, Counted
  <2> QED BY <1>1, <1>2, <2>1 DEF Larger
<1>5. Held(own') = M
  <2> HIDE DEF tcb
  <2>1. own'[n] = [own[n] EXCEPT !.tcb = tcb.ptr] /\ \A k \in Nodes \ {n} : own'[k] = own[k]
    BY <1>1, <1>2
  <2>2. Ptrs(own'[n]) = {tcb.ptr} \ {NoPtr} /\ Ptrs(own[n]) = {}
    BY <1>1, <2>1 DEF Nothing, Ptrs, NoPtr
  <2>3. ASSUME NEW p PROVE p \in Held(own') <=> p \in M
    <3>1. p \in Held(own') <=> \E k \in Nodes : p \in Ptrs(own'[k])
      BY HeldIs
    <3>2. p \in Held(own) <=> \E k \in Nodes : p \in Ptrs(own[k])
      BY HeldIs
    <3> QED BY <1>1, <2>1, <2>2, <3>1, <3>2
  <2> QED BY <2>3
<1>6. Request(TcbSize[arch], TcbAlign[arch])
  BY RequestsMade
<1>7. Steady(mem, most')
  BY <1>1, <1>3, <1>4, SteadyGrows
<1>8. Cardinality(M) <= most'
  BY <1>3, <1>5
<1>9. Steady(tcb.mem, most')
  BY <1>1, <1>3, <1>6, <1>7, <1>8, AllocSteady
<1> HIDE DEF tcb
<1> QED BY <1>2, <1>9

\* Reclamation leaves it steady.
LEMMA ReclaimSteady ==
  ASSUME SteadyInv, NEW pinned \in SUBSET Leaves, reclaim_finished_tasks(pinned)
  PROVE  Steady(mem', most')
<1> DEFINE gone == UNION {Ptrs(own[n]) : n \in ToSet(pending) \ pinned}
<1>1. mem' = Drained(pinned).mem /\ most' = most
  BY DEF reclaim_finished_tasks
<1>2. \A p : p \in gone <=> \E n \in ToSet(pending) \ pinned : p \in Ptrs(own[n])
  OBVIOUS
<1> HIDE DEF gone
<1>3. Drained(pinned).mem.total = mem.total
  BY <1>2, DrainKeeps DEF SteadyInv, MemInv
<1>4. Steady(Drained(pinned).mem, most)
  BY <1>3, SteadySame DEF SteadyInv
<1> QED BY <1>1, <1>4

\* Every step leaves it steady.
LEMMA SteadyStep == SteadyInv /\ [MemoryNext]_memory_vars => SteadyInv'
<1> SUFFICES ASSUME SteadyInv, [MemoryNext]_memory_vars PROVE SteadyInv'
  OBVIOUS
<1>1. MemInv /\ MemInv'
  BY MemoryStep DEF SteadyInv
<1>2. Steady(mem', most')
  <2>1. CASE \E n \in Leaves, f \in Closures, refused \in BOOLEAN : spawn_internal(n, f, refused)
    BY <2>1, SpawnSteady
  <2>2. CASE \E n \in Groups : spawn_group_node(n)
    BY <1>1, <2>2, GroupSteady
  <2>3. CASE \E n \in Leaves \cup {"main"} : push_pending_free(n)
    <3>1. mem' = mem /\ most' = most
      BY <2>3 DEF push_pending_free
    <3> QED BY <3>1 DEF SteadyInv
  <2>4. CASE \E pinned \in SUBSET Leaves : reclaim_finished_tasks(pinned)
    BY <2>4, ReclaimSteady
  <2>5. CASE UNCHANGED memory_vars
    <3>1. mem' = mem /\ most' = most
      BY <2>5 DEF memory_vars
    <3> QED BY <3>1 DEF SteadyInv
  <2> QED BY <2>1, <2>2, <2>3, <2>4, <2>5 DEF MemoryNext
<1>3. arch' = arch
  BY DEF MemoryNext, memory_vars, spawn_internal, spawn_group_node, push_pending_free,
         reclaim_finished_tasks
<1>4. StackSize' = StackSize
  BY <1>3 DEF StackSize
<1>5. Steady(mem, most)'
  BY <1>2, <1>3, <1>4 DEF Steady, BlocksFor, Requests
<1> QED BY <1>1, <1>5 DEF SteadyInv

\* Spawning and exiting for ever carves, for each size and alignment asked for,
\* no more blocks than there ever were live allocations: the first-fit search of
\* alloc then finds every free block that suits.  It is a bound on each kind of
\* block; that a small request may take a large block whole stays (arena.rs alloc).
THEOREM MemoryIsSteady == MemorySpec => []CarvingEnds
<1>1. SteadyInv => CarvingEnds
  BY DEF SteadyInv, Steady, CarvingEnds
<1> QED BY <1>1, SteadyStart, SteadyStep, PTL DEF MemorySpec
===============================================================================
