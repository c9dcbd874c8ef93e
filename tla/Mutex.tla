--------------------------------- MODULE Mutex ---------------------------------
(***************************************************************************)
(* The sleeping lock of sync.rs as it is compiled: owner word, ordering    *)
(* rule over held_locks, blocking on contention, release and wake, and the *)
(* recovery that drops whatever a task holds.                              *)
(*                                                                         *)
(* In try_acquire and in release_shim the store to the owner word stands   *)
(* on a comment line, behind a backslash and an n where the line was meant *)
(* to end.  owner_store is what is left of the first, owner_clear of the   *)
(* second.  Each action is one section: the lock's SpinLock masks local    *)
(* interrupts and excludes the other cores, and a task's held_locks are    *)
(* touched by that task alone.  A guard is dropped by the task that        *)
(* acquired it: none is moved to another task or forgotten.                *)
(***************************************************************************)
EXTENDS Integers, Sequences, SequencesExt

CONSTANTS
  Task,       \* task ids
  LockId,     \* lock ids, whose order is the locking order
  Free,       \* the owner word of a free lock, no task id
  MaxHeld,    \* MAX_HELD_LOCKS
  Slots,      \* how many locks REGISTRY_SLOTS has room for
  MaxGuards   \* bound on the guards a task has of one lock

ASSUME LockAssumption ==
  /\ LockId \subseteq Nat /\ Free \notin Task \cup LockId
  /\ MaxHeld \in Nat \ {0} /\ Slots \in Nat /\ MaxGuards \in Nat \ {0}

VARIABLES
  owner,       \* the owner word of each lock
  held,        \* held_locks of each task, oldest first
  guards,      \* how many MutexGuards each task has of each lock
  wants,       \* the lock each task is inside lock() for, Free for none
  blocked,     \* the tasks blocked on the lock they want
  registered,  \* the locks in REGISTRY_SLOTS, a lock registered twice twice
  dropping,    \* what release_all_held_locks has still to release, per task
  bypassed     \* the tasks that have released a lock past its guard, by unlock
               \* or the recovery: a record for the properties

vars == <<owner, held, guards, wants, blocked, registered, dropping, bypassed>>

Init ==
  /\ owner = [l \in LockId |-> Free]
  /\ held = [t \in Task |-> <<>>]
  /\ guards = [t \in Task |-> [l \in LockId |-> 0]]
  /\ wants = [t \in Task |-> Free]
  /\ blocked = {}
  /\ registered = <<>> /\ bypassed = {}
  /\ dropping = [t \in Task |-> <<>>]

-----------------------------------------------------------------------------
owner_store(l, t) == UNCHANGED owner
owner_clear(l) == UNCHANGED owner

\* held_check_order: increasing ids, and room to record one more.
InOrder_any(t, l) == held[t] = <<>> \/ Len(held[t]) < MaxHeld
InOrder(t, l) ==
  \/ held[t] = <<>>
  \/ Len(held[t]) < MaxHeld /\ l > Last(held[t])

\* held_remove: the first record of l goes, and the later ones move down.
First(s, l) == CHOOSE k \in DOMAIN s : s[k] = l /\ \A j \in 1 .. k - 1 : s[j] # l

Without_none(s, l) == s
Without(s, l) ==
  IF l \in ToSet(s)
  THEN [i \in 1 .. Len(s) - 1 |-> s[IF i < First(s, l) THEN i ELSE i + 1]]
  ELSE s

\* wake_blocked_on
Wakes(l) == blocked' = {u \in blocked : wants[u] # l}

-----------------------------------------------------------------------------
Idle(t) == wants[t] = Free /\ dropping[t] = <<>>

\* The call of lock, try_lock or try_lock_for.
Call(t, l) ==
  /\ Idle(t) /\ guards[t][l] < MaxGuards
  /\ wants' = [wants EXCEPT ![t] = l]
  /\ UNCHANGED <<owner, held, guards, blocked, registered, dropping, bypassed>>

\* Free: take the lock, or be refused by the order.
Takes(t, l) ==
  /\ IF InOrder(t, l)
     THEN /\ owner_store(l, t)
          /\ held' = [held EXCEPT ![t] = Append(@, l)]
          /\ guards' = [guards EXCEPT ![t][l] = @ + 1]
     ELSE UNCHANGED <<owner, held, guards>>
  /\ wants' = [wants EXCEPT ![t] = Free]
  /\ UNCHANGED blocked

\* Own already, or contended and out of time (try_lock, try_lock_for).
GivesUp(t) ==
  /\ wants' = [wants EXCEPT ![t] = Free]
  /\ UNCHANGED <<owner, held, guards, blocked>>

\* Contended: block on the lock's id (lock, try_lock_for before the deadline).
Blocks(t) ==
  /\ blocked' = blocked \cup {t}
  /\ UNCHANGED <<owner, held, guards, wants>>

\* The tick sweep ends a bounded wait, a wake of the task's id any wait.
Resumes(t) ==
  /\ blocked' = blocked \ {t}
  /\ UNCHANGED <<owner, held, guards, wants>>

\* A turn of the loop around try_acquire.
Turn(t, l) ==
  /\ wants[t] = l
  /\ IF t \in blocked
     THEN Resumes(t)
     ELSE CASE owner[l] = Free           -> Takes(t, l)
            [] owner[l] = t              -> GivesUp(t)
            [] owner[l] \notin {Free, t} -> GivesUp(t) \/ Blocks(t)
  /\ UNCHANGED <<registered, dropping, bypassed>>

\* release_shim and held_remove by t, and wake_blocked_on.
release_lock(t, l) ==
  /\ Idle(t)
  /\ owner_clear(l)
  /\ held' = [held EXCEPT ![t] = Without(@, l)]
  /\ Wakes(l)
  /\ UNCHANGED <<wants, registered, dropping>>

\* Dropping a guard.
Release(t, l) ==
  /\ guards[t][l] > 0
  /\ guards' = [guards EXCEPT ![t][l] = @ - 1]
  /\ release_lock(t, l)
  /\ UNCHANGED bypassed

\* Mutex::unlock, which anyone who can name the lock may call, guard or none.
\* A guard the caller has stays.
unlock(t, l) ==
  /\ release_lock(t, l)
  /\ bypassed' = bypassed \cup {t}
  /\ UNCHANGED guards

\* Mutex::register: the first free slot, and nothing when there is none.
Register(l) ==
  /\ Len(registered) < Slots
  /\ registered' = Append(registered, l)
  /\ UNCHANGED <<owner, held, guards, wants, blocked, dropping, bypassed>>

\* release_all_held_locks: the section that copies and clears the records ...
release_all_held_locks(t) ==
  /\ Idle(t) /\ held[t] # <<>>
  /\ dropping' = [dropping EXCEPT ![t] = held[t]]
  /\ held' = [held EXCEPT ![t] = <<>>]
  /\ bypassed' = bypassed \cup {t}
  /\ UNCHANGED <<owner, guards, wants, blocked, registered>>

\* ... then release_shim for each of them that is registered.  The guards stay.
Drops(t) ==
  /\ dropping[t] # <<>>
  /\ dropping' = [dropping EXCEPT ![t] = Tail(@)]
  /\ LET l == Head(dropping[t])
     IN  IF l \in ToSet(registered)
         THEN /\ owner_clear(l)
              /\ held' = [held EXCEPT ![t] = Without(@, l)]
              /\ Wakes(l)
         ELSE UNCHANGED <<owner, held, blocked>>
  /\ UNCHANGED <<guards, wants, registered, bypassed>>

Next ==
  \/ \E t \in Task : release_all_held_locks(t) \/ Drops(t)
  \/ \E t \in Task, l \in LockId : Call(t, l) \/ Turn(t, l)
  \/ \E t \in Task, l \in LockId : Release(t, l) \/ unlock(t, l)
  \/ \E l \in LockId : Register(l)

Spec == Init /\ [][Next]_vars

-----------------------------------------------------------------------------
\* The order check looks at the last record only.  That is enough, whatever the
\* order in which locks are released: the records increase, so the last one is
\* the highest, and there is room for those the check lets through.
HeldInOrder ==
  \A t \in Task :
    /\ Len(held[t]) <= MaxHeld
    /\ \A i, j \in DOMAIN held[t] : i < j => held[t][i] < held[t][j]

\* A record belongs to a guard, even after unlock or the recovery, so that none
\* is left to refuse lower locks for ever; and while a task leaves releasing to
\* its guards, each guard has its one record, so that the order rule keeps the
\* task from locking what it holds.  A task that calls unlock with its guard
\* alive, or release_all_held_locks, may lock again what it has a guard of.
RecordsAgree ==
  \A t \in Task, l \in LockId :
    /\ l \in ToSet(held[t]) => guards[t][l] > 0
    /\ t \notin bypassed => guards[t][l] = IF l \in ToSet(held[t]) THEN 1 ELSE 0

\* At most one task has a guard, and with it a mutable reference to the data,
\* of a lock at a time, among those that leave releasing to their guards.
MutualExclusion ==
  \A t, u \in Task \ bypassed, l \in LockId :
    t # u => guards[t][l] = 0 \/ guards[u][l] = 0
=============================================================================
