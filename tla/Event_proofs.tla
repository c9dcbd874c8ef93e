------------------------------ MODULE Event_proofs ------------------------------
(***************************************************************************)
(* Waits: no wake flag and no signal is lost, for any number of tasks and  *)
(* setters; and the ticks a deadline or a quantum is counted in last as    *)
(* long as was asked for, for all clocks, register widths and slices.      *)
(***************************************************************************)
EXTENDS Event, Timing, TLAPS

\* A task blocked in Signal::wait is the registered waiter of an unset signal,
\* or the one a set has found registered and is about to wake.
SignalWaiter ==
  \A t \in Task : state[t] = "Blocked" /\ call[t] = "Signal" =>
    (waiter = t /\ ~set) \/ \E s \in Setter : waking[s] = t

\* Signal is used by a single waiter.
OneWaiter == \A t, u \in Task : call[t] = "Signal" /\ call[u] = "Signal" => t = u

WaitInv == TypeOK /\ NoLostFlag /\ DeadlineKept /\ SignalWaiter /\ OneWaiter

USE DEF Never, Calls

\* A wake keeps the invariant: it only unblocks.
LEMMA UnblockInv ==
  ASSUME WaitInv, NEW S \in SUBSET Task, Unblock(S),
         woken' = woken \/ \E t \in Task : woken' = [woken EXCEPT ![t] = TRUE] /\ (state[t] = "Ready" \/ t \in S),
         UNCHANGED <<task, signal>>
  PROVE  WaitInv'
<1>1. \A t \in Task : state'[t] = "Blocked" =>
        /\ state[t] = "Blocked" /\ t \notin S
        /\ blockedOn'[t] = blockedOn[t] /\ togo'[t] = togo[t] /\ woken'[t] = woken[t]
  BY DEF Unblock, WaitInv, TypeOK
<1>2. TypeOK'
  BY DEF Unblock, WaitInv, TypeOK, task, signal
<1> QED BY <1>1, <1>2 DEF WaitInv, NoLostFlag, DeadlineKept, SignalWaiter, OneWaiter, task, signal

\* A turn of a blocking call keeps the invariant: what it blocks on is not
\* there yet, and the deadline it blocks with is its own.
LEMMA TurnInv ==
  ASSUME WaitInv, NEW t \in Task, Turn(t)
  PROVE  WaitInv'
<1>1. CASE park(t)
  BY <1>1, WaitAssumption DEF park, In, Running, BlockUnless, Decision, Block, Returns, take_wake_flag_locked,
     WaitInv, TypeOK, NoLostFlag, DeadlineKept, SignalWaiter, OneWaiter, task, signal
<1>2. CASE queue_wait(t)
  BY <1>2, WaitAssumption DEF queue_wait, In, Running, BlockUnless, Decision, Block, Returns, take_wake_flag_locked,
     WaitInv, TypeOK, NoLostFlag, DeadlineKept, SignalWaiter, OneWaiter, task, signal
<1>3. CASE signal_wait(t)
  <2>1. /\ state[t] = "Ready" /\ call[t] = "Signal"
        /\ set' = FALSE /\ waiter' = (IF set THEN waiter ELSE t)
        /\ UNCHANGED <<woken, waking>>
    BY <1>3 DEF signal_wait, In, Running, Registers
  <2>2. \/ /\ ~set /\ due[t] # 0
           /\ Block(t, t, due[t]) /\ UNCHANGED task
        \/ \E r \in {"Ok", "Timeout"} : Returns(t, r) /\ UNCHANGED <<state, blockedOn, togo>>
    BY <1>3 DEF signal_wait, BlockUnless, Decision
  <2>3. \A u \in Task \ {t} :
          /\ state'[u] = state[u] /\ call'[u] = call[u] /\ due'[u] = due[u] /\ togo'[u] = togo[u]
          /\ call[u] # "Signal"
    BY <2>1, <2>2 DEF Block, Returns, task, WaitInv, TypeOK, OneWaiter
  <2>4. \/ /\ state'[t] = "Blocked" /\ call'[t] = "Signal" /\ waiter' = t
           /\ due'[t] = due[t] /\ togo'[t] = due[t] /\ due[t] # 0
        \/ state'[t] = "Ready" /\ call'[t] = "Run"
    BY <2>1, <2>2 DEF Block, Returns, task, WaitInv, TypeOK
  <2>5. TypeOK'
    <3>1. state' \in [Task -> {"Ready", "Blocked"}] /\ togo' \in [Task -> Nat \cup {Never}]
      BY <2>2 DEF Block, Returns, task, WaitInv, TypeOK
    <3>2. blockedOn' \in [Task -> Task \cup {Queue, Null}]
      BY <2>2 DEF Block, Returns, task, WaitInv, TypeOK
    <3>3. /\ call' \in [Task -> Calls \cup {"Run"}] /\ due' \in [Task -> Nat \cup {Never}]
          /\ result' \in [Task -> {"None", "Ok", "Timeout"}]
      BY <2>2 DEF Block, Returns, task, WaitInv, TypeOK
    <3>4. waiter' \in Task \cup {Null} /\ set' \in BOOLEAN
      BY <2>1 DEF WaitInv, TypeOK
    <3> QED BY <2>1, <3>1, <3>2, <3>3, <3>4 DEF WaitInv, TypeOK
  <2>6. NoLostFlag' /\ DeadlineKept'
    BY <2>1, <2>3, <2>4 DEF WaitInv, NoLostFlag, DeadlineKept
  <2>7. SignalWaiter' /\ OneWaiter'
    BY <2>1, <2>3, <2>4 DEF SignalWaiter, OneWaiter
  <2> QED BY <2>5, <2>6, <2>7 DEF WaitInv
<1>4. CASE sleep_until_tick(t)
  BY <1>4, WaitAssumption DEF sleep_until_tick, SleepAgain, In, Running, Block, Returns,
     WaitInv, TypeOK, NoLostFlag, DeadlineKept, SignalWaiter, OneWaiter, task, signal
<1>5. CASE sleep_ticks_returns(t)
  BY <1>5 DEF sleep_ticks_returns, In, Running, Returns, tcb,
     WaitInv, TypeOK, NoLostFlag, DeadlineKept, SignalWaiter, OneWaiter, signal
<1> QED BY <1>1, <1>2, <1>3, <1>4, <1>5 DEF Turn

\* Entering a call keeps the invariant.
LEMMA EnterInv ==
  ASSUME WaitInv, NEW t \in Task, Enter(t) \/ sleep_ticks(t)
  PROVE  WaitInv'
<1>1. CASE Enter(t)
  BY <1>1, WaitAssumption DEF Enter, Enters, Deadlines, unwrap_or_zero, None, SomeZero, In, Running, tcb,
     WaitInv, TypeOK, NoLostFlag, DeadlineKept, SignalWaiter, OneWaiter, signal
<1>2. CASE sleep_ticks(t)
  BY <1>2, WaitAssumption DEF sleep_ticks, Enters, In, Running, Block,
     WaitInv, TypeOK, NoLostFlag, DeadlineKept, SignalWaiter, OneWaiter, signal
<1> QED BY <1>1, <1>2

\* The tick keeps deadline and sweep in step.
LEMMA TickInv ==
  ASSUME WaitInv, Tick
  PROVE  WaitInv'
<1>1. \A t \in Task :
        /\ due'[t] = IF due[t] > 0 THEN due[t] - 1 ELSE due[t]
        /\ state'[t] = "Blocked" => state[t] = "Blocked" /\ togo[t] \notin {0, 1}
        /\ state'[t] = "Blocked" => togo'[t] = IF togo[t] > 0 THEN togo[t] - 1 ELSE togo[t]
  BY DEF Tick, Countdown, WaitInv, TypeOK
<1>2. TypeOK'
  BY DEF Tick, Countdown, WaitInv, TypeOK, signal
<1>3. DeadlineKept'
  BY <1>1 DEF WaitInv, TypeOK, DeadlineKept
<1> QED BY <1>1, <1>2, <1>3 DEF Tick, WaitInv, NoLostFlag, SignalWaiter, OneWaiter, signal

\* Signal::set hands the waiter over before it lets go of the registration.
LEMMA SetInv ==
  ASSUME WaitInv, NEW s \in Setter, set_flag(s)
  PROVE  WaitInv'
<1>1. /\ waking[s] = Null /\ set' = TRUE /\ waiter' = Null
      /\ waking' = [waking EXCEPT ![s] = waiter]
      /\ UNCHANGED <<call, due, result, state, blockedOn, togo, woken>>
  BY DEF set_flag, task, tcb
<1>2. \A r \in Setter : waking'[r] = IF r = s THEN waiter ELSE waking[r]
  BY <1>1 DEF WaitInv, TypeOK
<1>3. TypeOK'
  BY <1>1, <1>2 DEF WaitInv, TypeOK
<1>4. SignalWaiter'
  <2> SUFFICES ASSUME NEW t \in Task, state[t] = "Blocked", call[t] = "Signal"
               PROVE  \E r \in Setter : waking'[r] = t
    BY <1>1 DEF SignalWaiter
  <2>1. Null # t
    BY WaitAssumption
  <2>2. waiter = t \/ \E r \in Setter : waking[r] = t
    BY DEF WaitInv, SignalWaiter
  <2> QED BY <1>1, <1>2, <2>1, <2>2
<1> QED BY <1>1, <1>3, <1>4 DEF WaitInv, NoLostFlag, DeadlineKept, OneWaiter

LEMMA WaitInvariant == Spec => []WaitInv
<1>1. Init => WaitInv
  BY DEF Init, WaitInv, TypeOK, NoLostFlag, DeadlineKept, SignalWaiter, OneWaiter
<1>2. WaitInv /\ [Next]_vars => WaitInv'
  <2> SUFFICES ASSUME WaitInv, [Next]_vars PROVE WaitInv'
    OBVIOUS
  <2>1. CASE Tick
    BY <2>1, TickInv
  <2>2. ASSUME NEW t \in Task, Enter(t) \/ sleep_ticks(t) \/ Turn(t) PROVE WaitInv'
    BY <2>2, EnterInv, TurnInv
  <2>3. ASSUME NEW t \in Task, wake_task(t), UNCHANGED <<task, signal>>
        PROVE  WaitInv'
    <3> DEFINE S == {t} \ {u \in Task : Running(u)}
    <3>1. S \in SUBSET Task /\ Unblock(S) /\ woken' = [woken EXCEPT ![t] = TRUE]
      BY <2>3 DEF wake_task
    <3>2. state[t] = "Ready" \/ t \in S
      BY DEF Running
    <3> QED BY <2>3, <3>1, <3>2, UnblockInv
  <2>4. ASSUME NEW t \in Task, wake(t) PROVE WaitInv'
    BY <2>3, <2>4 DEF wake, WaitInv, TypeOK
  <2>5. ASSUME NEW s \in Setter, set_flag(s) PROVE WaitInv'
    BY <2>5, SetInv
  <2>6. ASSUME NEW s \in Setter, set_wakes(s) PROVE WaitInv'
    <3> DEFINE w == waking[s]
    <3>1. w \in Task
      BY <2>6 DEF set_wakes, WaitInv, TypeOK
    <3>2. /\ w = w /\ wake_task(w) /\ waking' = [waking EXCEPT ![s] = Null]
          /\ UNCHANGED <<call, due, result, set, waiter>>
      BY <2>6 DEF set_wakes, task
    <3>3. \A t \in Task : state'[t] = "Blocked" =>
            /\ state[t] = "Blocked" /\ t # w
            /\ togo'[t] = togo[t] /\ woken'[t] = woken[t]
      BY <3>1, <3>2 DEF wake_task, Unblock, Running, WaitInv, TypeOK
    <3>4. TypeOK'
      BY <3>1, <3>2 DEF wake_task, Unblock, WaitInv, TypeOK
    <3>5. SignalWaiter'
      <4> SUFFICES ASSUME NEW t \in Task, state'[t] = "Blocked", call'[t] = "Signal"
                   PROVE  (waiter' = t /\ ~set') \/ \E r \in Setter : waking'[r] = t
        BY DEF SignalWaiter
      <4>1. (waiter = t /\ ~set) \/ \E r \in Setter : waking[r] = t
        BY <3>2, <3>3 DEF WaitInv, SignalWaiter
      <4>2. \A r \in Setter : waking[r] = t => r # s /\ waking'[r] = t
        BY <3>2, <3>3 DEF WaitInv, TypeOK
      <4> QED BY <3>2, <4>1, <4>2
    <3> QED BY <3>2, <3>3, <3>4, <3>5 DEF WaitInv, NoLostFlag, DeadlineKept, OneWaiter
  <2>7. CASE try_take
    BY <2>7 DEF try_take, task, tcb, WaitInv, TypeOK, NoLostFlag, DeadlineKept, SignalWaiter, OneWaiter
  <2>8. CASE wake_one
    BY <2>3, <2>8 DEF wake_one, BlockedOn, WaitInv, TypeOK
  <2>9. ASSUME NEW r, Unblock(BlockedOn(r)), UNCHANGED <<task, woken, signal>>
        PROVE  WaitInv'
    BY <2>9, UnblockInv DEF BlockedOn
  <2>10. CASE wake_all
    BY <2>9, <2>10 DEF wake_all, BlockedOn, WaitInv, TypeOK
  <2>11. ASSUME NEW l \in LockId, unlock(l) PROVE WaitInv'
    BY <2>9, <2>11 DEF unlock, WaitInv, TypeOK
  <2>12. CASE UNCHANGED vars
    BY <2>12 DEF vars, task, tcb, signal, WaitInv, TypeOK, NoLostFlag, DeadlineKept, SignalWaiter, OneWaiter
  <2> QED BY <2>1, <2>2, <2>4, <2>5, <2>6, <2>7, <2>8, <2>10, <2>11, <2>12 DEF Next
<1> QED BY <1>1, <1>2, PTL DEF Spec

-----------------------------------------------------------------------------
\* Every variable keeps its type, and a registration or a pending wake names a
\* task or nothing.
THEOREM WaitTypes == Spec => []TypeOK
<1>1. WaitInv => TypeOK
  BY DEF WaitInv
<1> QED BY <1>1, WaitInvariant, PTL

\* No task blocks in park or WaitQueue::wait over its wake flag: the check and
\* the block are one section (block_until_tick_if).  And whatever the timeouts,
\* early wakes and stale registrations before it, a task blocked in Signal::wait
\* over a set signal is about to be woken by the set.  wake_all sets no flag, and
\* nothing is claimed of it.
THEOREM FlagsAndSignalsAreKept == Spec => []FlagsAndSignalsKept
<1>1. WaitInv => FlagsAndSignalsKept
  BY DEF WaitInv, SignalWaiter, FlagsAndSignalsKept, NoLostSignal
<1> QED BY <1>1, WaitInvariant, PTL

\* The sweep that ends a wait looks at the deadline the call was given, through
\* any number of early wakes and renewed blocks.
THEOREM DeadlinesKept == Spec => []DeadlineKept
<1>1. WaitInv => DeadlineKept
  BY DEF WaitInv
<1> QED BY <1>1, WaitInvariant, PTL

\* A step that reports a timeout or ends a sleep_until_tick is a turn of that
\* call, and the turn looked at the condition and at the clock.
LEMMA StepReturns ==
  ASSUME WaitInv, [Next]_vars, NEW t \in Task
  PROVE  /\ result[t] = "None" /\ result'[t] = "Timeout" =>
              /\ due[t] = 0
              /\ call[t] \in {"Park", "Queue"} => ~woken[t]
              /\ call[t] = "Signal" => ~set
         /\ call[t] = "SleepUntil" /\ call'[t] = "Run" => due[t] = 0
<1> DEFINE Good(u) ==
      /\ result[u] = "None" /\ result'[u] = "Timeout" =>
           /\ due[u] = 0
           /\ call[u] \in {"Park", "Queue"} => ~woken[u]
           /\ call[u] = "Signal" => ~set
      /\ call[u] = "SleepUntil" /\ call'[u] = "Run" => due[u] = 0
<1>1. call \in [Task -> Calls \cup {"Run"}] /\ result \in [Task -> {"None", "Ok", "Timeout"}]
  BY DEF WaitInv, TypeOK
<1>2. ASSUME UNCHANGED <<call, result>> PROVE Good(t)
  BY <1>2
<1>3. ASSUME NEW u \in Task, NEW c \in Calls, NEW d, Enters(u, c, d) PROVE Good(t)
  BY <1>1, <1>3 DEF Enters, In
<1>4. ASSUME NEW u \in Task, NEW r, NEW ready \in BOOLEAN, BlockUnless(u, r, ready),
             call[u] # "SleepUntil"
      PROVE  \/ UNCHANGED <<call, result>>
             \/ /\ \A v \in Task \ {u} : call'[v] = call[v] /\ result'[v] = result[v]
                /\ result'[u] = "Timeout" => due[u] = 0 /\ ~ready
  <2>1. CASE Decision(u, ready) = "Block"
    BY <1>4, <2>1 DEF BlockUnless, task
  <2>2. CASE Decision(u, ready) # "Block"
    <3>1. Returns(u, Decision(u, ready))
      BY <1>4, <2>2 DEF BlockUnless
    <3>2. Decision(u, ready) = "Timeout" => due[u] = 0 /\ ~ready
      BY DEF Decision
    <3> QED BY <1>1, <3>1, <3>2 DEF Returns
  <2> QED BY <2>1, <2>2
<1>5. ASSUME NEW u \in Task, park(u) \/ queue_wait(u) PROVE Good(t)
  <2>1. (call[u] = "Park" \/ call[u] = "Queue") /\ \E r : BlockUnless(u, r, woken[u])
    BY <1>5 DEF park, queue_wait, In
  <2>2. woken[u] \in BOOLEAN
    BY DEF WaitInv, TypeOK
  <2>3. \/ UNCHANGED <<call, result>>
        \/ /\ \A v \in Task \ {u} : call'[v] = call[v] /\ result'[v] = result[v]
           /\ result'[u] = "Timeout" => due[u] = 0 /\ ~woken[u]
    BY <1>4, <2>1, <2>2
  <2> QED BY <1>2, <2>1, <2>3
<1>6. ASSUME NEW u \in Task, signal_wait(u) PROVE Good(t)
  <2>1. call[u] = "Signal" /\ BlockUnless(u, u, set) /\ set \in BOOLEAN
    BY <1>6 DEF signal_wait, In, WaitInv, TypeOK
  <2>2. \/ UNCHANGED <<call, result>>
        \/ /\ \A v \in Task \ {u} : call'[v] = call[v] /\ result'[v] = result[v]
           /\ result'[u] = "Timeout" => due[u] = 0 /\ ~set
    BY <1>4, <2>1
  <2> QED BY <1>2, <2>1, <2>2
<1>7. ASSUME NEW u \in Task, sleep_until_tick(u) \/ sleep_ticks_returns(u) PROVE Good(t)
  <2>1. CASE UNCHANGED task
    BY <1>2, <2>1 DEF task
  <2>2. CASE Returns(u, "Ok") /\ (call[u] = "SleepUntil" => due[u] = 0)
    BY <1>1, <2>2 DEF Returns
  <2> QED BY <1>7, <2>1, <2>2 DEF sleep_until_tick, sleep_ticks_returns, In, SleepAgain
<1>8. ASSUME NEW u \in Task, Enter(u) \/ sleep_ticks(u) PROVE Good(t)
  BY <1>3, <1>8 DEF Enter, sleep_ticks
<1>9. CASE Tick \/ (\E u \in Task : wake(u)) \/ (\E s \in Setter : set_flag(s) \/ set_wakes(s))
           \/ (\E l \in LockId : unlock(l)) \/ try_take \/ wake_one \/ wake_all
           \/ UNCHANGED vars
  BY <1>2, <1>9
  DEF Tick, wake, set_flag, set_wakes, unlock, try_take, wake_one, wake_all, vars, task
<1> QED
  BY <1>5, <1>6, <1>7, <1>8, <1>9 DEF Next, Turn

\* A wait reports a timeout only while its wake flag or its signal is clear: the
\* condition is looked at before the deadline, in the section that reports (park,
\* Signal::wait and WaitQueue::wait over block_until_tick_if).
THEOREM TimeoutsMeanClear == Spec => TimeoutMeansClear
<1>1. WaitInv /\ [Next]_vars =>
        [\A t \in Task : result[t] = "None" /\ result'[t] = "Timeout" =>
           /\ due[t] = 0
           /\ call[t] \in {"Park", "Queue"} => ~woken[t]
           /\ call[t] = "Signal" => ~set]_vars
  BY StepReturns
<1> QED BY <1>1, WaitInvariant, PTL DEF Spec, TimeoutMeansClear

\* sleep_until_tick never returns before its deadline, whoever wakes the task.
THEOREM SleepsFull == Spec => SleepUntilNotEarly
<1>1. WaitInv /\ [Next]_vars =>
        [\A t \in Task : call[t] = "SleepUntil" /\ call'[t] = "Run" => due[t] = 0]_vars
  BY StepReturns
<1> QED BY <1>1, WaitInvariant, PTL DEF Spec, SleepUntilNotEarly

-----------------------------------------------------------------------------
(* Durations: the time slice and what is counted in ticks of it (module   *)
(* Timing), for all clocks, register widths and slices.                    *)

LEMMA TimingNumbers ==
  /\ Second \in Nat \ {0} /\ Second <= U64 /\ K \in Nat \ {0} /\ Unit \in Nat \ {0}
  /\ U24 \in Nat /\ U32 \in Nat /\ U64 \in Nat /\ U24 <= U32 /\ U32 <= U64 /\ U32 * Unit <= U64
  /\ MinCycles \in Nat /\ MinCycles > 1 /\ Second % Unit = 0
<1>1. K * K * K \in Nat \ {0}
  <2>1. K \in Nat \ {0}
    BY TimingAssumption
  <2>2. K * K \in Nat \ {0}
    BY <2>1
  <2> DEFINE k == K * K
  <2> HIDE DEF k
  <2>3. k \in Nat \ {0} => k * K \in Nat \ {0}
    BY <2>1
  <2> QED BY <2>2, <2>3 DEF k
<1>2. Second \in Nat \ {0}
  BY <1>1 DEF Second
<1> QED BY <1>2, TimingAssumption

LEMMA MulMono ==
  ASSUME NEW a \in Int, NEW b \in Int, NEW c \in Nat, a <= b
  PROVE  a * c <= b * c /\ a * c \in Int /\ b * c \in Int
OBVIOUS

LEMMA MulCancel ==
  ASSUME NEW a \in Int, NEW b \in Int, NEW c \in Nat, a * c < b * c
  PROVE  a < b
<1> SUFFICES ASSUME b <= a
             PROVE  FALSE
  OBVIOUS
<1> QED BY MulMono

LEMMA ModKeeps ==
  ASSUME NEW w \in Nat \ {0}, NEW r \in 0 .. w - 1
  PROVE  r % w = r
OBVIOUS

LEMMA DivAndMod ==
  ASSUME NEW a \in Int, NEW w \in Nat \ {0}
  PROVE  a = w * (a \div w) + (a % w)
OBVIOUS

\* A division rounds down.
LEMMA DivDown ==
  ASSUME NEW a \in Nat, NEW b \in Nat \ {0}
  PROVE  LET q == a \div b IN q \in Nat /\ q * b <= a /\ a < q * b + b /\ q <= a
<1> DEFINE q == a \div b
<1>1. q \in Nat /\ q * b <= a /\ a < q * b + b
  OBVIOUS
<1> HIDE DEF q
<1>2. q * 1 <= q * b
  <2>1. 1 * q <= b * q
    BY <1>1, MulMono
  <2> QED BY <1>1, <2>1
<1> QED BY <1>1, <1>2 DEF q

LEMMA DivUp ==
  ASSUME NEW a \in Nat, NEW b \in Nat \ {0}
  PROVE  LET q == DivCeil(a, b) IN
         /\ q \in Nat /\ a <= q * b /\ q * b < a + b /\ q <= a /\ (a > 0 => q > 0)
<1> DEFINE q == (a + b - 1) \div b
<1>1. q \in Nat /\ q * b <= a + b - 1 /\ a + b - 1 < q * b + b
  BY DivDown
<1> HIDE DEF q
<1>2. a <= q * b /\ q * b < a + b
  <2> DEFINE m == q * b
  <2>1. m \in Int
    BY <1>1
  <2> HIDE DEF m
  <2>2. m <= a + b - 1 /\ a + b - 1 < m + b => a <= m /\ m < a + b
    BY <2>1
  <2> QED BY <1>1, <2>2 DEF m
<1>3. a = 0 => q = 0
  <2>1. a = 0 => q * b < 1 * b
    BY <1>2
  <2> QED BY <1>1, <2>1, MulCancel
<1>4. a > 0 => q > 0
  BY <1>1, <1>2
<1>5. a > 0 => q <= a
  <2> SUFFICES ASSUME a > 0
               PROVE  q <= a
    OBVIOUS
  <2>1. (q - 1) * b < a
    BY <1>1, <1>2
  <2>2. (q - 1) * 1 <= (q - 1) * b
    <3>1. q - 1 \in Nat
      BY <1>1, <1>4
    <3>2. 1 * (q - 1) <= b * (q - 1)
      BY <3>1, MulMono
    <3> QED BY <3>1, <3>2
  <2>3. (q - 1) * b \in Int /\ (q - 1) * 1 = q - 1
    BY <1>1
  <2> QED BY <1>1, <2>1, <2>2, <2>3
<1> QED BY <1>1, <1>2, <1>3, <1>4, <1>5 DEF q, DivCeil

-----------------------------------------------------------------------------
(* config.rs *)

LEMMA AsNanosFits ==
  ASSUME NEW s \in Slices, NEW hz \in Nat
  PROVE  as_nanos(s, hz) \in 0 .. U64
<1>1. s.kind \in Kinds /\ s.n \in 0 .. U64 /\ U64 \in Nat /\ Second \in Nat \ {0} /\ Second <= U64 /\ K \in Nat
  BY TimingNumbers, TimingAssumption
<1>2. s.n * K \in Nat /\ s.n * K * K \in Nat /\ s.n * Second \in Nat
  BY <1>1
<1>3. ASSUME NEW m \in Nat
      PROVE  Lesser(m, U64) \in 0 .. U64
  BY <1>1 DEF Lesser
<1>4. s.n # 0 => Second \div s.n \in 0 .. U64
  <2> HIDE DEF Second
  <2> QED BY <1>1, DivDown
<1>5. hz # 0 => Lesser(s.n * Second, U64) \div hz \in 0 .. U64
  <2> DEFINE m == Lesser(s.n * Second, U64)
  <2>1. m \in 0 .. U64
    BY <1>2, <1>3
  <2> HIDE DEF m
  <2> QED BY <1>1, <2>1, DivDown DEF m
<1>6. Lesser(s.n * K, U64) \in 0 .. U64 /\ Lesser(s.n * K * K, U64) \in 0 .. U64
  BY <1>2, <1>3
<1>7. 0 \in 0 .. U64
  BY <1>1
<1> HIDE DEF Second
<1> QED BY <1>1, <1>4, <1>5, <1>6, <1>7 DEF as_nanos, Kinds

\* Rounding to the nearest cycle is off by half a cycle at most, and does not
\* overflow.
LEMMA NearestIs ==
  ASSUME NEW ns \in 0 .. U64, NEW hz \in 0 .. Second
  PROVE  /\ Nearest(ns, hz) \in Nat
         /\ 2 * (ns * hz - Nearest(ns, hz) * Second) \in -Second .. Second
<1> DEFINE p == ns * hz
           h == Second \div 2
           c == (p + h) \div Second
<1>1. Second \in Nat \ {0} /\ U64 \in Nat
  BY TimingNumbers
<1>2. p \in Nat /\ p <= U64 * Second
  <2>1. ns * hz <= U64 * hz
    BY <1>1, MulMono
  <2>2. hz * U64 <= Second * U64
    BY <1>1, MulMono
  <2> QED BY <1>1, <2>1, <2>2
<1>3. h \in Nat /\ 2 * h <= Second /\ Second <= 2 * h + 1
  <2> HIDE DEF Second
  <2> QED BY <1>1
<1> HIDE DEF p, h
<1>4. c \in Nat /\ c * Second <= p + h /\ p + h < c * Second + Second
  BY <1>1, <1>2, <1>3, DivDown
<1> HIDE DEF c
<1>5. c < U64 + 1
  <2>1. c * Second < (U64 + 1) * Second
    <3> DEFINE u == U64 * Second
               m == c * Second
    <3>1. u \in Int /\ m \in Int /\ (U64 + 1) * Second = u + Second
      BY <1>1, <1>4
    <3>2. m <= p + h /\ p <= u /\ 2 * h <= Second
      BY <1>2, <1>3, <1>4
    <3> HIDE DEF u, m
    <3>3. m < u + Second
      BY <1>1, <1>2, <1>3, <3>1, <3>2
    <3> QED BY <3>1, <3>3 DEF m
  <2> QED BY <1>1, <1>4, <2>1, MulCancel
<1>6. Nearest(ns, hz) = c
  <2>1. Nearest(ns, hz) = c % (U64 + 1)
    BY DEF Nearest, c, p, h
  <2>2. c \in 0 .. (U64 + 1) - 1 /\ U64 + 1 \in Nat \ {0}
    BY <1>1, <1>4, <1>5
  <2> QED BY <2>1, <2>2, ModKeeps
<1>7. 2 * (p - c * Second) \in -Second .. Second
  <2> DEFINE m == c * Second
  <2>1. m \in Int
    BY <1>1, <1>4
  <2>2. m <= p + h /\ p + h < m + Second
    BY <1>4
  <2> HIDE DEF m, Second
  <2>3. 2 * (p - m) \in -Second .. Second
    BY <1>1, <1>2, <1>3, <2>1, <2>2
  <2> QED BY <2>3 DEF m
<1> QED BY <1>4, <1>6, <1>7 DEF p

LEMMA ToCyclesFits ==
  ASSUME NEW s \in Slices, NEW hz \in 0 .. Second
  PROVE  /\ to_cycles(s, hz) \in Nat
         /\ s.kind # "Default" /\ to_cycles(s, hz) > 1 =>
              2 * (as_nanos(s, hz) * hz - to_cycles(s, hz) * Second) \in -Second .. Second
         /\ s.kind = "Default" => to_cycles(s, hz) = 0
<1>1. Second \in Nat \ {0}
  BY TimingNumbers
<1>2. hz \in Nat
  BY <1>1
<1>3. as_nanos(s, hz) \in 0 .. U64
  BY <1>2, AsNanosFits
<1> DEFINE c == Nearest(as_nanos(s, hz), hz)
<1>4. c \in Nat /\ 2 * (as_nanos(s, hz) * hz - c * Second) \in -Second .. Second
  BY <1>3, NearestIs
<1>5. to_cycles(s, hz) = IF s.kind = "Default" \/ hz = 0 THEN 0 ELSE IF c = 0 THEN 1 ELSE c
  BY DEF to_cycles
<1> HIDE DEF c, Second
<1> QED BY <1>1, <1>4, <1>5

-----------------------------------------------------------------------------
(* The ports' plan_timer *)

LEMMA BarePlanHonours ==
  ASSUME NEW s \in Slices, NEW hz \in 0 .. Second, NEW max \in Nat, BarePlan(s, hz, max).ok
  PROVE  LET p == BarePlan(s, hz, max) IN
         /\ p.hz = hz /\ hz # 0 /\ p.cycles \in MinCycles .. max
         /\ IF s.kind = "Cycles" THEN p.cycles = s.n
            ELSE 2 * (as_nanos(s, hz) * hz - p.cycles * Second) \in -Second .. Second
<1> DEFINE c == IF s.kind = "Cycles" THEN s.n ELSE to_cycles(s, hz)
<1>1. to_cycles(s, hz) \in Nat /\ s.n \in Nat /\ MinCycles \in Nat /\ MinCycles > 1
  BY ToCyclesFits, TimingNumbers, TimingAssumption
<1>2. c \in Nat
  BY <1>1
<1> HIDE DEF c
<1>3. BarePlan(s, hz, max) = Planned(c, hz) /\ hz # 0 /\ c >= MinCycles /\ c <= max
  <2>1. Refused("TimerClockRequired").ok = FALSE /\ Refused("ZeroSlice").ok = FALSE
        /\ Refused("SliceBelowPlatformMinimum").ok = FALSE /\ Refused("SliceAboveTimerRange").ok = FALSE
    BY DEF Refused
  <2>2. /\ hz = 0 => BarePlan(s, hz, max) = Refused("TimerClockRequired")
        /\ hz # 0 /\ c = 0 => BarePlan(s, hz, max) = Refused("ZeroSlice")
        /\ hz # 0 /\ c \in 1 .. MinCycles - 1 => BarePlan(s, hz, max) = Refused("SliceBelowPlatformMinimum")
        /\ hz # 0 /\ c >= MinCycles /\ c > max => BarePlan(s, hz, max) = Refused("SliceAboveTimerRange")
        /\ hz # 0 /\ c >= MinCycles /\ c <= max => BarePlan(s, hz, max) = Planned(c, hz)
    BY <1>1, <1>2 DEF BarePlan, c
  <2> QED BY <1>1, <1>2, <2>1, <2>2
<1>4. BarePlan(s, hz, max).hz = hz /\ BarePlan(s, hz, max).cycles = c
  <2>1. Planned(c, hz).hz = hz /\ Planned(c, hz).cycles = c
    BY DEF Planned
  <2> QED BY <1>3, <2>1
<1>5. CASE s.kind = "Cycles"
  <2>1. c = s.n
    BY <1>5 DEF c
  <2> QED BY <1>1, <1>2, <1>3, <1>4, <1>5, <2>1
<1>6. CASE s.kind # "Cycles"
  <2>1. c = to_cycles(s, hz) /\ c > 1
    BY <1>1, <1>2, <1>3, <1>6 DEF c
  <2>2. s.kind # "Default"
    BY <2>1, ToCyclesFits
  <2> QED BY <1>1, <1>2, <1>3, <1>4, <1>6, <2>1, <2>2, ToCyclesFits
<1> QED BY <1>5, <1>6

LEMMA HostPlanHonours ==
  ASSUME NEW s \in Slices, NEW hz \in Nat, NEW min \in Nat \ {0}, HostPlan(s, hz, min).ok
  PROVE  LET p  == HostPlan(s, hz, min)
             ns == IF s.kind = "Cycles" THEN s.n * Unit ELSE as_nanos(s, hz)
         IN  /\ p.hz = Second \div Unit /\ p.cycles \in 1 .. U32
             /\ ns <= p.cycles * Unit /\ p.cycles * Unit < ns + Unit /\ min <= ns
<1> DEFINE ns == IF s.kind = "Cycles" THEN s.n * Unit ELSE as_nanos(s, hz)
           u == DivCeil(ns, Unit)
<1>1. U32 \in Nat /\ Unit \in Nat \ {0} /\ s.n \in Nat
  BY TimingNumbers, TimingAssumption
<1>2. ns \in Nat
  <2>1. as_nanos(s, hz) \in Nat
    BY AsNanosFits
  <2> QED BY <1>1, <2>1
<1> HIDE DEF ns
<1>3. u \in Nat /\ ns <= u * Unit /\ u * Unit < ns + Unit /\ (ns > 0 => u > 0)
  BY <1>1, <1>2, DivUp
<1> HIDE DEF u
<1>4. HostPlan(s, hz, min) = Planned(u, Second \div Unit) /\ ns > 0 /\ ns >= min /\ u <= U32
  <2>1. Refused("ZeroSlice").ok = FALSE /\ Refused("SliceBelowPlatformMinimum").ok = FALSE
        /\ Refused("SliceAboveTimerRange").ok = FALSE
    BY DEF Refused
  <2>2. /\ ns = 0 => HostPlan(s, hz, min) = Refused("ZeroSlice")
        /\ ns \in 1 .. min - 1 => HostPlan(s, hz, min) = Refused("SliceBelowPlatformMinimum")
        /\ ns >= min /\ ns > 0 /\ u > U32 => HostPlan(s, hz, min) = Refused("SliceAboveTimerRange")
        /\ ns >= min /\ ns > 0 /\ u <= U32 => HostPlan(s, hz, min) = Planned(u, Second \div Unit)
    <3>1. HostPlan(s, hz, min) =
            CASE ns = 0 -> Refused("ZeroSlice")
              [] ns \in 1 .. min - 1 -> Refused("SliceBelowPlatformMinimum")
              [] ns >= min /\ ns > 0 /\ u > U32 -> Refused("SliceAboveTimerRange")
              [] OTHER -> Planned(u, Second \div Unit)
      BY DEF HostPlan, ns, u
    <3> QED BY <1>1, <1>2, <1>3, <3>1
  <2> QED BY <1>1, <1>2, <1>3, <2>1, <2>2
<1>5. HostPlan(s, hz, min).hz = Second \div Unit /\ HostPlan(s, hz, min).cycles = u
  <2>1. Planned(u, Second \div Unit).hz = Second \div Unit /\ Planned(u, Second \div Unit).cycles = u
    BY DEF Planned
  <2> QED BY <1>4, <2>1
<1> QED BY <1>1, <1>2, <1>3, <1>4, <1>5 DEF ns

\* What plan_timer answers, config and the plans of set_slice then hold.
Sound(c, hz, s) ==
  /\ Honours(c, hz, s) /\ c \in 1 .. U32 /\ hz \in 1 .. Second
  /\ arch \in Hosts => hz = Second \div Unit

LEMMA HostHertz == Second \div Unit \in 1 .. Second /\ Second = Unit * (Second \div Unit)
<1> DEFINE h == Second \div Unit
<1>1. Second \in Nat \ {0} /\ Unit \in Nat \ {0} /\ Second % Unit = 0
  BY TimingNumbers
<1>2. h \in Nat /\ h <= Second /\ Second = Unit * h + (Second % Unit)
  <2> HIDE DEF Second
  <2>1. Second = Unit * (Second \div Unit) + (Second % Unit)
    BY <1>1, DivAndMod
  <2> QED BY <1>1, <2>1, DivDown
<1> HIDE DEF h, Second
<1>3. Second = Unit * h
  <2> DEFINE m == Unit * h
  <2>1. m \in Int
    BY <1>1, <1>2
  <2> HIDE DEF m
  <2> QED BY <1>1, <1>2, <2>1 DEF m
<1>4. h # 0
  BY <1>1, <1>3
<1> QED BY <1>2, <1>3, <1>4 DEF h

LEMMA PlanSound ==
  ASSUME arch \in Builds, hires \in MinHost, NEW s \in Slices, NEW hz \in 0 .. Second, plan_timer(s, hz).ok
  PROVE  Sound(plan_timer(s, hz).cycles, plan_timer(s, hz).hz, s)
<1> DEFINE p == plan_timer(s, hz)
<1>1. /\ arch \in Bare \cup Hosts /\ hires \in Nat \ {0} /\ Cntfrq \in 0 .. Second
      /\ s \in [kind : Kinds, n : 0 .. U64] /\ (s.kind \in {"Hertz", "Cycles"} => s.n <= U32)
      /\ U24 \in Nat /\ U32 \in Nat /\ U24 <= U32 /\ MinCycles \in Nat /\ MinCycles > 1
      /\ Second \in Nat \ {0}
  BY TimingAssumption, TimingNumbers
<1>2. CASE arch \in Hosts
  <2>1. p = HostPlan(s, hz, hires)
    BY <1>2 DEF plan_timer, Hosts, posix_plan_timer, win32_plan_timer
  <2>2. hz \in Nat /\ HostPlan(s, hz, hires).ok
    BY <1>1, <2>1
  <2>3. LET ns == IF s.kind = "Cycles" THEN s.n * Unit ELSE as_nanos(s, hz)
        IN  /\ p.hz = Second \div Unit /\ p.cycles \in 1 .. U32
            /\ ns <= p.cycles * Unit /\ p.cycles * Unit < ns + Unit /\ hires <= ns
    BY <1>1, <2>1, <2>2, HostPlanHonours
  <2>4. s.kind # "Cycles" => as_nanos(s, hz) = as_nanos(s, p.hz)
    BY DEF as_nanos
  <2> HIDE DEF p
  <2>5. Honours(p.cycles, p.hz, s)
    BY <1>2, <2>3, <2>4 DEF Honours
  <2> QED BY <1>2, <2>3, <2>5, HostHertz DEF Sound, p
<1>3. CASE arch \notin Hosts
  <2> DEFINE f   == IF arch = "Arm" THEN IF hz # 0 THEN hz ELSE Cntfrq ELSE hz
             max == IF arch = "CortexM" THEN U24 ELSE U32
  <2>1. p = BarePlan(s, f, max) /\ f \in 0 .. Second /\ max \in Nat /\ max <= U32
    BY <1>1, <1>3 DEF plan_timer, Bare, Hosts, cortex_m_plan_timer, riscv_plan_timer, arm_plan_timer, xtensa_plan_timer
  <2> HIDE DEF f
  <2>2. /\ p.hz = f /\ f # 0 /\ p.cycles \in MinCycles .. max
        /\ IF s.kind = "Cycles" THEN p.cycles = s.n
           ELSE 2 * (as_nanos(s, f) * f - p.cycles * Second) \in -Second .. Second
    BY <2>1, BarePlanHonours
  <2> HIDE DEF p
  <2>3. Honours(p.cycles, p.hz, s)
    BY <1>1, <1>3, <2>1, <2>2 DEF Honours
  <2>4. p.cycles \in 1 .. U32 /\ p.hz \in 1 .. Second
    BY <1>1, <2>1, <2>2
  <2> QED BY <1>3, <2>3, <2>4 DEF Sound, p
<1> QED BY <1>2, <1>3

-----------------------------------------------------------------------------
(* The timer and the configuration *)

\* At any time the kernel reckons with a slice that honours what was asked for
\* last, and every plan under way honours what it was made for.
PlansSound ==
  /\ running => Sound(config.cycles, config.hz, asked)
  /\ config.hz \in 0 .. Second
  /\ \A t \in Caller : pc[t] # "idle" =>
       running /\ Sound(plan[t].cycles, plan[t].hz, plan[t].slice)

\* As long as no two calls have overlapped, the one under way has either not
\* touched the timer yet, or brought it to its plan.
OneRetunes ==
  running /\ arch \in OwnCopy /\ ~overlapped =>
    /\ \A t, u \in Caller : pc[t] # "idle" /\ pc[u] # "idle" => t = u
    /\ (\A t \in Caller : pc[t] # "retuned") => load = config.cycles /\ armed = config.cycles
    /\ \A t \in Caller : pc[t] = "retuned" => load = plan[t].cycles /\ armed = plan[t].cycles

TimingInv == TimingTypeOK /\ PlansSound /\ OneRetunes

LEMMA TimingInitInv == TimingInit => TimingInv
<1> SUFFICES ASSUME TimingInit
             PROVE  TimingInv
  OBVIOUS
<1>1. U32 \in Nat /\ Second \in Nat \ {0}
  BY TimingNumbers
<1> HIDE DEF Second
<1>2. TimingTypeOK
  <2>1. NoPlan \in [cycles : 0..U32, hz : Nat, slice : Slices \cup {Unasked}]
    BY <1>1 DEF NoPlan
  <2>2. config \in Setting
    BY <1>1 DEF TimingInit, Setting
  <2>3. plan \in [Caller -> [cycles : 0..U32, hz : Nat, slice : Slices \cup {Unasked}]]
    BY <2>1 DEF TimingInit
  <2>4. pc \in [Caller -> {"idle", "planned", "retuned"}] /\ arch \in Builds /\ hires \in MinHost
    BY DEF TimingInit
  <2>5. running \in BOOLEAN /\ overlapped \in BOOLEAN /\ asked \in Slices \cup {Unasked}
    BY DEF TimingInit
  <2>6. load \in 0..U32 /\ armed \in 0..U32
    BY <1>1 DEF TimingInit
  <2> QED BY <2>2, <2>3, <2>4, <2>5, <2>6 DEF TimingTypeOK
<1> QED BY <1>1, <1>2 DEF TimingInit, TimingInv, PlansSound, OneRetunes

LEMMA TimingNextInv == TimingInv /\ [TimingNext]_timing => TimingInv'
<1> SUFFICES ASSUME TimingInv, [TimingNext]_timing
             PROVE  TimingInv'
  OBVIOUS
<1>1. U32 \in Nat /\ Second \in Nat \ {0} /\ Freqs \subseteq 0 .. Second
  BY TimingNumbers, TimingAssumption
<1> HIDE DEF Second
<1> USE DEF TimingInv, TimingTypeOK, Setting
<1>2. CASE UNCHANGED timing
  BY <1>2 DEF timing, PlansSound, OneRetunes, Sound, Honours
<1>3. CASE SliceStarts
  BY <1>3 DEF SliceStarts, PlansSound, OneRetunes, Sound, Honours
<1>4. ASSUME NEW s \in Slices, NEW hz \in Freqs, init_with(s, hz)
      PROVE  TimingInv'
  <2> DEFINE p == plan_timer(s, hz)
  <2>1. Sound(p.cycles, p.hz, s) /\ arch' = arch /\ hires' = hires
    BY <1>1, <1>4, PlanSound DEF init_with
  <2>2. /\ ~running /\ config' = [cycles |-> p.cycles, hz |-> p.hz]
        /\ \/ running' = TRUE /\ SetsTimer(p.cycles, p.cycles) /\ asked' = s
           \/ UNCHANGED <<running, load, armed, asked>>
        /\ UNCHANGED <<arch, hires, pc, plan, overlapped>>
    BY <1>4 DEF init_with
  <2> HIDE DEF p
  <2>3. p.cycles \in 1 .. U32 /\ p.hz \in 1 .. Second
    BY <2>1 DEF Sound
  <2>4. SetsTimer(p.cycles, p.cycles) =>
          /\ armed' = p.cycles /\ load' \in {load, p.cycles}
          /\ arch \in OwnCopy => load' = p.cycles
    BY DEF SetsTimer, cortex_m_timer, riscv_timer, arm_timer, xtensa_timer, posix_timer, win32_timer, OwnCopy
  <2>5. TimingTypeOK'
    <3>1. config' \in [cycles : 0..U32, hz : Nat]
      BY <1>1, <2>2, <2>3
    <3>2. load' \in 0..U32 /\ armed' \in 0..U32
      BY <1>1, <2>2, <2>3, <2>4
    <3>3. running' \in BOOLEAN /\ asked' \in Slices \cup {Unasked}
      BY <2>2
    <3> QED BY <2>2, <3>1, <3>2, <3>3
  <2>6. \A t \in Caller : pc[t] = "idle"
    BY <2>2 DEF PlansSound
  <2>7. PlansSound'
    BY <1>1, <2>1, <2>2, <2>3, <2>6 DEF PlansSound, Sound, Honours
  <2>8. OneRetunes'
    BY <2>2, <2>4, <2>6 DEF OneRetunes
  <2> QED BY <2>5, <2>7, <2>8
<1>5. ASSUME NEW t \in Caller, NEW s \in Slices, set_slice(t, s)
      PROVE  TimingInv'
  <2> DEFINE p == plan_timer(s, config.hz)
  <2>1. Sound(p.cycles, p.hz, s)
    BY <1>1, <1>5, PlanSound DEF set_slice, PlansSound
  <2>2. /\ running /\ pc[t] = "idle"
        /\ pc' = [pc EXCEPT ![t] = "planned"]
        /\ plan' = [plan EXCEPT ![t] = [cycles |-> p.cycles, hz |-> p.hz, slice |-> s]]
        /\ overlapped' = (overlapped \/ \E u \in Caller : pc[u] # "idle")
        /\ UNCHANGED <<arch, hires, running, config, load, armed, asked>>
    BY <1>5 DEF set_slice
  <2> HIDE DEF p
  <2>3. p.cycles \in 1 .. U32 /\ p.hz \in 1 .. Second
    BY <2>1 DEF Sound
  <2>4. TimingTypeOK'
    <3>1. plan' \in [Caller -> [cycles : 0..U32, hz : Nat, slice : Slices \cup {Unasked}]]
      BY <1>1, <2>2, <2>3
    <3>2. overlapped' \in BOOLEAN
      BY <2>2
    <3> QED BY <2>2, <3>1, <3>2
  <2>5. PlansSound'
    BY <1>1, <2>1, <2>2 DEF PlansSound, Sound, Honours
  <2>6. OneRetunes'
    BY <2>2 DEF OneRetunes
  <2> QED BY <2>4, <2>5, <2>6
<1>6. ASSUME NEW t \in Caller, retune_timer(t)
      PROVE  TimingInv'
  <2>1. /\ pc[t] = "planned" /\ pc' = [pc EXCEPT ![t] = "retuned"]
        /\ UNCHANGED <<arch, hires, running, config, plan, asked, overlapped>>
    BY <1>6 DEF retune_timer
  <2>2. /\ armed' \in {plan[t].cycles, config.cycles} /\ load' \in {load, plan[t].cycles}
        /\ arch \in OwnCopy => load' = plan[t].cycles /\ armed' = plan[t].cycles
    BY <1>6 DEF retune_timer, SetsTimer, cortex_m_timer, riscv_timer, arm_timer, xtensa_timer, posix_timer,
       win32_timer, OwnCopy
  <2>3. TimingTypeOK'
    BY <2>1, <2>2
  <2>4. PlansSound'
    BY <2>1 DEF PlansSound, Sound, Honours
  <2>5. OneRetunes'
    BY <2>1, <2>2 DEF OneRetunes
  <2> QED BY <2>3, <2>4, <2>5
<1>7. ASSUME NEW t \in Caller, set_slice_stores(t)
      PROVE  TimingInv'
  <2>1. /\ pc[t] = "retuned" /\ pc' = [pc EXCEPT ![t] = "idle"]
        /\ config' = [cycles |-> plan[t].cycles, hz |-> plan[t].hz]
        /\ asked' = plan[t].slice
        /\ plan' = [plan EXCEPT ![t] = NoPlan]
        /\ UNCHANGED <<arch, hires, running, load, armed, overlapped>>
    BY <1>7 DEF set_slice_stores
  <2>2. running /\ Sound(plan[t].cycles, plan[t].hz, plan[t].slice)
    BY <2>1 DEF PlansSound
  <2>3. NoPlan \in [cycles : 0..U32, hz : Nat, slice : Slices \cup {Unasked}]
    BY <1>1 DEF NoPlan
  <2>4. TimingTypeOK'
    BY <1>1, <2>1, <2>2, <2>3
  <2>5. PlansSound'
    BY <1>1, <2>1, <2>2 DEF PlansSound, Sound, Honours
  <2>6. OneRetunes'
    BY <2>1 DEF OneRetunes
  <2> QED BY <2>4, <2>5, <2>6
<1> QED BY <1>2, <1>3, <1>4, <1>5, <1>6, <1>7 DEF TimingNext

-----------------------------------------------------------------------------
(* What is counted in ticks *)

\* A tick lasts as long as the slice, but for what its nanoseconds round off.
LEMMA TickLength ==
  ASSUME TimingInv, running
  PROVE  /\ tick_ns \in Nat \ {0} /\ config.cycles \in Nat /\ config.hz \in Nat \ {0}
         /\ LET d == config.cycles * Second - tick_ns * config.hz IN 0 <= d /\ d < config.hz
<1> DEFINE c == config.cycles
           h == config.hz
           T == tick_ns
<1>1. c \in 1 .. U32 /\ h \in 1 .. Second /\ (arch \in Hosts => h = Second \div Unit)
  BY DEF TimingInv, PlansSound, Sound
<1>2. U32 \in Nat /\ Second \in Nat \ {0} /\ Unit \in Nat \ {0} /\ Second = Unit * (Second \div Unit)
  BY TimingNumbers, HostHertz
<1>3. c * Second \in Nat /\ c * Unit \in Nat \ {0}
  <2> HIDE DEF c, h, Second
  <2> QED BY <1>1, <1>2
<1>4. CASE arch \in Hosts
  <2>1. T = c * Unit
    BY <1>4 DEF tick_ns, host_cycles_to_ns
  <2>2. c * Second = (c * Unit) * h
    <3> HIDE DEF c, h, Second
    <3>1. Second = Unit * h
      BY <1>1, <1>2, <1>4
    <3>2. c \in Int /\ h \in Int /\ Unit \in Int
      BY <1>1, <1>2
    <3>3. c * (Unit * h) = (c * Unit) * h
      BY <3>2
    <3> QED BY <3>1, <3>3
  <2> HIDE DEF c, h, T, Second
  <2>3. c * Second - T * h = 0
    BY <1>3, <2>1, <2>2
  <2> QED BY <1>1, <1>2, <1>3, <2>1, <2>3 DEF c, h, T
<1>5. CASE arch \notin Hosts
  <2>1. T = (c * Second) \div h
    BY <1>1, <1>5 DEF tick_ns, bare_cycles_to_ns
  <2> DEFINE p == c * Second
  <2>2. T \in Nat /\ T * h <= p /\ p < T * h + h
    <3> HIDE DEF c, h, T, Second, p
    <3>1. p \in Nat /\ h \in Nat \ {0}
      BY <1>1, <1>2, <1>3 DEF p
    <3>2. T = p \div h
      BY <2>1 DEF p
    <3> QED BY <3>1, <3>2, DivDown
  <2>3. h <= p
    <3> HIDE DEF c, h, T, Second
    <3>1. 1 * Second <= c * Second
      BY <1>1, <1>2, MulMono
    <3> QED BY <1>1, <1>2, <1>3, <3>1 DEF p
  <2> HIDE DEF c, h, T, Second
  <2>4. T # 0
    <3>1. T = 0 => T * h = 0
      BY <1>1, <1>2
    <3> QED BY <1>1, <1>2, <1>3, <2>2, <2>3, <3>1 DEF p
  <2>5. 0 <= p - T * h /\ p - T * h < h
    <3> DEFINE m == T * h
    <3>1. m \in Int /\ p \in Int /\ h \in Int
      BY <1>1, <1>2, <1>3, <2>2 DEF p
    <3>2. m <= p /\ p < m + h
      BY <2>2
    <3> HIDE DEF m, p
    <3> QED BY <3>1, <3>2 DEF m
  <2> QED BY <1>1, <1>2, <2>2, <2>4, <2>5 DEF c, h, T, p
<1> QED BY <1>4, <1>5

LEMMA UpCovers ==
  ASSUME NEW c \in Nat, NEW h \in Nat, NEW S \in Nat, NEW T \in Nat \ {0}, NEW ns \in Nat \ {0},
         T * h <= c * S
  PROVE  LET n == DivCeil(ns, T)
         IN  /\ n \in Nat \ {0} /\ n <= ns
             /\ ns * h <= n * c * S /\ (n - 1) * T < ns
<1> DEFINE n == DivCeil(ns, T)
<1>1. n \in Nat /\ ns <= n * T /\ n * T < ns + T /\ n <= ns /\ n > 0
  BY DivUp
<1> HIDE DEF n
<1>2. ns * h <= (n * T) * h
  BY <1>1, MulMono
<1>3. (T * h) * n <= (c * S) * n
  BY <1>1, MulMono
<1>4. (n * T) * h = (T * h) * n /\ (c * S) * n = n * c * S
  BY <1>1
<1>5. (n - 1) * T = n * T - T
  BY <1>1
<1>6. ns * h \in Int /\ n * c * S \in Int /\ (n * T) * h \in Int
  BY <1>1
<1>7. n * T \in Int
  BY <1>1
<1>8. (n - 1) * T < ns
  <2> DEFINE m == n * T
  <2>1. m \in Int /\ m < ns + T
    BY <1>1, <1>7
  <2> HIDE DEF m
  <2>2. m - T < ns
    BY <2>1
  <2> QED BY <1>5, <2>2 DEF m
<1>9. ns * h <= n * c * S
  <2>1. ns * h <= (n * T) * h /\ (n * T) * h <= n * c * S
    BY <1>2, <1>3, <1>4
  <2> DEFINE x == ns * h
             y == (n * T) * h
             z == n * c * S
  <2>2. x <= y /\ y <= z /\ x \in Int /\ y \in Int /\ z \in Int
    BY <1>6, <2>1
  <2> HIDE DEF x, y, z
  <2>3. x <= z
    BY <2>2
  <2> QED BY <2>3 DEF x, z
<1> QED BY <1>1, <1>8, <1>9 DEF n

LEMMA WholeTicks ==
  ASSUME NEW c \in Nat, NEW h \in Nat, NEW S \in Nat, NEW T \in Nat, NEW n \in Nat \ {0},
         T * h <= c * S, c * S - T * h < h
  PROVE  LET d == n * c * S - (n * T) * h IN 0 <= d /\ d < n * h
<1> DEFINE e == c * S - T * h
<1>1. e \in Nat /\ e + 1 <= h
  <2>1. c * S \in Int /\ T * h \in Int
    OBVIOUS
  <2> QED BY <2>1
<1>2. n * c * S - (n * T) * h = n * e
  BY DEF e
<1> HIDE DEF e
<1>3. 0 <= n * e
  BY <1>1
<1>4. (e + 1) * n <= h * n /\ (e + 1) * n \in Int /\ h * n \in Int
  BY <1>1, MulMono
<1>5. (e + 1) * n = n * e + n /\ h * n = n * h /\ n * e \in Int
  BY <1>1
<1>6. n * e < n * h
  <2> DEFINE x == n * e
             y == n * h
  <2>1. x + n <= y /\ x \in Int /\ y \in Int
    BY <1>4, <1>5
  <2> HIDE DEF x, y
  <2>2. x < y
    BY <2>1
  <2> QED BY <2>2 DEF x, y
<1> QED BY <1>2, <1>3, <1>6

LEMMA ModWraps ==
  ASSUME NEW w \in Nat \ {0}, NEW r \in Nat, w <= r, r < 2 * w
  PROVE  r % w = r - w
<1>1. r = 1 * w + (r - w) /\ r - w \in 0 .. w - 1
  OBVIOUS
<1> QED BY <1>1

\* A deadline that does not wrap is so many ticks ahead; one that does is past,
\* or 0.
LEMMA DeadlineIs ==
  ASSUME NEW now \in 0 .. U64, NEW n \in 1 .. U64,
         NEW w \in {block_for_ticks(now, n), TicksUntil(now, deadline_after_ticks(now, n))}
  PROVE  /\ now + n <= U64 => w = n
         /\ now + n > U64 => w \in {0, Forever}
<1> DEFINE d == deadline_after_ticks(now, n)
<1>1. U64 \in Nat
  BY TimingNumbers
<1>2. now + n <= U64 => d = now + n
  <2> SUFFICES ASSUME now + n <= U64 PROVE d = now + n
    OBVIOUS
  <2>1. U64 + 1 \in Nat \ {0} /\ now + n \in 0 .. (U64 + 1) - 1
    BY <1>1
  <2> QED BY <2>1, ModKeeps DEF deadline_after_ticks
<1>3. now + n > U64 => d = now + n - (U64 + 1)
  <2> SUFFICES ASSUME now + n > U64 PROVE d = now + n - (U64 + 1)
    OBVIOUS
  <2>1. U64 + 1 \in Nat \ {0} /\ now + n \in Nat /\ U64 + 1 <= now + n /\ now + n < 2 * (U64 + 1)
    BY <1>1
  <2>2. (now + n) % (U64 + 1) = (now + n) - (U64 + 1)
    BY ONLY <2>1, ModWraps
  <2> QED BY <1>1, <2>2 DEF deadline_after_ticks
<1>4. w = TicksUntil(now, d) \/ (w = Forever /\ d = 0)
  BY DEF block_for_ticks
<1> HIDE DEF d
<1> QED BY <1>1, <1>2, <1>3, <1>4 DEF TicksUntil

\* Any duration, converted to ticks as ticks_for does.
LEMMA WaitIsKept ==
  ASSUME TimingInv, running, NEW now \in 0 .. U64, NEW ns \in Nat \ {0},
         NEW n, n = Lesser(DivCeil(ns, tick_ns), U64),
         NEW w \in {block_for_ticks(now, n), TicksUntil(now, deadline_after_ticks(now, n))}
  PROVE  WaitKept(now, w, ns)
<1> DEFINE c == config.cycles
           h == config.hz
           T == tick_ns
           q == DivCeil(ns, T)
<1>1. /\ T \in Nat \ {0} /\ c \in Nat /\ h \in Nat \ {0} /\ Second \in Nat /\ U64 \in Nat \ {0}
      /\ T * h <= c * Second
  <2>1. T \in Nat \ {0} /\ c \in Nat /\ h \in Nat \ {0} /\ 0 <= c * Second - T * h
    BY TickLength
  <2>2. Second \in Nat /\ U64 \in Nat \ {0}
    BY TimingNumbers
  <2> DEFINE x == c * Second
             y == T * h
  <2>3. x \in Int /\ y \in Int
    BY <2>1, <2>2
  <2>4. 0 <= x - y
    BY <2>1
  <2> HIDE DEF x, y
  <2>5. y <= x
    BY <2>3, <2>4
  <2> QED BY <2>1, <2>2, <2>5 DEF x, y
<1> HIDE DEF Second
<1>2. Covers(q, ns) /\ q \in Nat \ {0}
  <2> HIDE DEF c, h, T, q
  <2>1. LET m == DivCeil(ns, T)
        IN  /\ m \in Nat \ {0} /\ m <= ns
            /\ ns * h <= m * c * Second /\ (m - 1) * T < ns
    BY <1>1, UpCovers
  <2> QED BY <1>1, <2>1 DEF Covers, c, h, T, q
<1>3. n = Lesser(q, U64)
  OBVIOUS
<1> HIDE DEF c, h, T, q
<1>4. n \in 1 .. U64 /\ (q <= U64 => n = q) /\ (q > U64 => n = U64)
  BY <1>1, <1>2, <1>3 DEF Lesser
<1>5. now + n <= U64 => w = n
  BY <1>4, DeadlineIs
<1>6. now + n > U64 => w \in {0, Forever}
  BY <1>4, DeadlineIs
<1>7. CASE now + q <= U64
  <2>1. w = q
    BY <1>1, <1>2, <1>4, <1>5, <1>7
  <2> QED BY <1>2, <1>7, <2>1 DEF WaitKept, q, T
<1>8. CASE ~(now + q <= U64)
  <2>1. now > 0 => now + n > U64
    BY <1>1, <1>2, <1>4, <1>8
  <2> QED BY <1>6, <1>8, <2>1 DEF WaitKept, q, T
<1> QED BY <1>7, <1>8

LEMMA WaitsAreCovered ==
  ASSUME TimingInv, running
  PROVE  WaitsCovered
<1>1. tick_ns \in Nat \ {0} /\ U64 \in Nat \ {0} /\ K \in Nat \ {0}
  BY TickLength, TimingNumbers
<1> SUFFICES ASSUME NEW now \in Clock
             PROVE  /\ \A ns \in Durations \ {0} :
                         LET n == ticks_for(ns)
                         IN  /\ WaitKept(now, block_for_ticks(now, n), ns)
                             /\ WaitKept(now, TicksUntil(now, deadline_after_ticks(now, n)), ns)
                    /\ \A ms \in Timeouts \ {0} :
                         LET n == ms_to_ticks(ms)
                         IN  WaitKept(now, TicksUntil(now, deadline_after_ticks(now, n)), Lesser(ms * K * K, U64))
  BY DEF WaitsCovered
<1>2. now \in 0 .. U64
  BY TimingAssumption
<1>3. ASSUME NEW ns \in Durations \ {0}
      PROVE  /\ WaitKept(now, block_for_ticks(now, ticks_for(ns)), ns)
             /\ WaitKept(now, TicksUntil(now, deadline_after_ticks(now, ticks_for(ns))), ns)
  <2>1. ns \in Nat \ {0}
    BY TimingAssumption
  <2>2. DivCeil(ns, tick_ns) > 0
    BY <1>1, <2>1, DivUp
  <2>3. ticks_for(ns) = Lesser(DivCeil(ns, tick_ns), U64)
    BY <1>1, <2>2 DEF ticks_for
  <2> QED BY <1>2, <2>1, <2>3, WaitIsKept
<1>4. ASSUME NEW ms \in Timeouts \ {0}
      PROVE  WaitKept(now, TicksUntil(now, deadline_after_ticks(now, ms_to_ticks(ms))), Lesser(ms * K * K, U64))
  <2> DEFINE m == Lesser(ms * K * K, U64)
  <2>1. ms * K * K \in Nat \ {0}
    <3>1. ms \in Nat \ {0}
      BY TimingAssumption
    <3>2. ms * K \in Nat \ {0}
      BY <1>1, <3>1
    <3> DEFINE k == ms * K
    <3> HIDE DEF k
    <3>3. k \in Nat \ {0} => k * K \in Nat \ {0}
      BY <1>1
    <3> QED BY <3>2, <3>3 DEF k
  <2>2. m \in Nat \ {0} /\ m <= U64
    BY <1>1, <2>1 DEF Lesser
  <2>3. ms_to_ticks(ms) = DivCeil(m, tick_ns)
    BY <1>1 DEF ms_to_ticks
  <2> HIDE DEF m
  <2>4. DivCeil(m, tick_ns) \in Nat /\ DivCeil(m, tick_ns) <= U64
    <3>1. DivCeil(m, tick_ns) \in Nat /\ DivCeil(m, tick_ns) <= m
      BY <1>1, <2>2, DivUp
    <3> QED BY <1>1, <2>2, <3>1
  <2>5. ms_to_ticks(ms) = Lesser(DivCeil(m, tick_ns), U64)
    BY <2>3, <2>4 DEF Lesser
  <2>6. WaitKept(now, TicksUntil(now, deadline_after_ticks(now, ms_to_ticks(ms))), m)
    BY <1>2, <2>2, <2>5, WaitIsKept
  <2> QED BY <2>6 DEF m
<1> QED BY <1>3, <1>4

LEMMA QuantaAreKept ==
  ASSUME TimingInv, running
  PROVE  QuantumKept
<1> DEFINE c == config.cycles
           h == config.hz
           T == tick_ns
<1>1. /\ T \in Nat \ {0} /\ c \in Nat /\ h \in Nat \ {0} /\ Second \in Nat /\ U64 \in Nat
      /\ T * h <= c * Second /\ c * Second - T * h < h
  <2>1. T \in Nat \ {0} /\ c \in Nat /\ h \in Nat \ {0} /\ 0 <= c * Second - T * h /\ c * Second - T * h < h
    BY TickLength
  <2>2. Second \in Nat /\ U64 \in Nat
    BY TimingNumbers
  <2> DEFINE x == c * Second
             y == T * h
  <2>3. x \in Int /\ y \in Int
    BY <2>1, <2>2
  <2>4. 0 <= x - y
    BY <2>1
  <2> HIDE DEF x, y
  <2>5. y <= x
    BY <2>3, <2>4
  <2> QED BY <2>1, <2>2, <2>5 DEF x, y
<1> HIDE DEF Second
<1> SUFFICES ASSUME NEW s \in Slices, s.kind # "Default", quantum_ticks_for(s) > 0
             PROVE  LET n == quantum_ticks_for(s)
                        d == n * c * Second - as_nanos(s, h) * h
                    IN  0 <= d /\ d < n * h
  BY DEF QuantumKept
<1> DEFINE ns == as_nanos(s, h)
           n  == quantum_ticks_for(s)
<1>2. ns \in 0 .. U64
  BY <1>1, AsNanosFits
<1> HIDE DEF ns, T
<1>3. n = ns \div T /\ ns % T = 0
  BY DEF quantum_ticks_for, ns, T
<1>4. ns = n * T /\ n \in Nat \ {0}
  <2>1. ns = T * (ns \div T) + (ns % T) /\ ns \div T \in Nat
    <3>1. ns \in Nat /\ ns \in Int
      BY <1>1, <1>2
    <3>2. ns = T * (ns \div T) + (ns % T)
      BY <1>1, <3>1, DivAndMod
    <3>3. ns \div T \in Nat
      BY <1>1, <3>1, DivDown
    <3> QED BY <3>2, <3>3
  <2> HIDE DEF n
  <2>2. n \in Nat /\ n > 0
    BY <1>3, <2>1 DEF n
  <2>3. ns = T * n + 0
    BY <1>3, <2>1
  <2> QED BY <1>1, <2>2, <2>3
<1> HIDE DEF n, c, h
<1>5. LET d == n * c * Second - (n * T) * h IN 0 <= d /\ d < n * h
  BY <1>1, <1>4, WholeTicks
<1> QED BY <1>4, <1>5 DEF n, ns, c, h

\* set_slice and init_with keep the plan, the configuration and the timer as
\* TimingInv relates them, through every step of every call.
THEOREM TimingInvariant == TimingSpec => []TimingInv
BY TimingInitInv, TimingNextInv, PTL DEF TimingSpec

\* The slice in force honours the one asked for last, whatever the clocks and
\* register widths: every port's plan_timer refuses what it cannot keep, and
\* set_slice installs nothing else.
THEOREM SliceIsHonoured == TimingSpec => []SliceHonoured
<1>1. TimingInv => SliceHonoured
  BY DEF TimingInv, PlansSound, Sound, SliceHonoured
<1> QED BY <1>1, TimingInvariant, PTL

\* With one set_slice at a time, from any number of callers, the hardware timer
\* ends at the slice that KERNEL.config has.
THEOREM TimerIsConfigured == TimingSpec => []TimerFollowsConfig
<1>1. TimingInv => TimerFollowsConfig
  BY DEF TimingInv, OneRetunes, TimerFollowsConfig
<1> QED BY <1>1, TimingInvariant, PTL

\* Whatever ticks_for, ms_to_ticks and quantum_ticks_for round, a sleep, a
\* timeout or a quantum is not shorter than asked, as long as the clock's u64 can
\* show its end; a sleep beyond that is over at once, or never.
THEOREM DurationsAreKept == TimingSpec => []DurationsKept
<1>1. TimingInv => DurationsKept
  <2>1. CASE running
    BY <2>1, WaitsAreCovered, QuantaAreKept DEF DurationsKept
  <2>2. CASE ~running
    BY <2>2 DEF DurationsKept, WaitsCovered, QuantumKept
  <2> QED BY <2>1, <2>2
<1> QED BY <1>1, TimingInvariant, PTL
=============================================================================
