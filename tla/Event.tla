--------------------------------- MODULE Event ---------------------------------
(***************************************************************************)
(* The waiting layer of rrkernel: park and wake, Signal and WaitQueue      *)
(* (event.rs) and the sleeps (time.rs), on top of the blocking and waking  *)
(* sections of scheduler.rs.                                               *)
(*                                                                         *)
(* Of the scheduler below only this is taken for granted: a blocked task   *)
(* does not run, and a tick that comes reaches every blocked task.         *)
(* Deadlines are kept as the ticks left until them.                        *)
(***************************************************************************)
EXTENDS Integers, FiniteSets

CONSTANTS
  Task,       \* task ids
  LockId,     \* lock ids, which share the numbers of the task ids
  Queue,      \* the resource id of the one wait queue
  Setter,     \* contexts that call Signal::set: tasks and interrupts
  Wakeable,   \* tasks whose id some waker keeps, to call event::wake with
  Waits,      \* the bounded waits asked for, in ticks
  Null        \* task id 0: no waiter, and the resource of a plain sleep

ASSUME WaitAssumption ==
  /\ Waits \subseteq Nat /\ Wakeable \subseteq Task
  /\ Queue \notin Task \cup LockId
  /\ Null \notin Task \cup LockId \cup {Queue}

VARIABLES
  call,       \* the blocking call each task is in, "Run" for none
  due,        \* ticks until the deadline that call was given; Never for None
  result,     \* what the last call returned, "None" during a call
  state,      \* TaskState
  blockedOn,  \* blocked_on
  togo,       \* ticks until block_deadline; Never when it is 0
  woken,      \* TCB_FLAG_WOKEN
  set,        \* Signal.set
  waiter,     \* Signal.waiter
  waking      \* per setter, the waiter it has taken and not woken yet

tcb    == <<state, blockedOn, togo, woken>>
signal == <<set, waiter, waking>>
task   == <<call, due, result>>
vars   == <<task, tcb, signal>>

\* The deadlines a caller can pass: none, tick 0, or one so many ticks ahead.
None == -1
SomeZero == -2
Deadlines == Waits \cup {None, SomeZero}

\* unwrap_or(0), and 0 is no deadline: Some(0) waits for ever, like None.
Never == -1
unwrap_or_zero(d) == IF d \in Waits THEN d ELSE Never

Calls == {"Park", "Signal", "Queue", "Sleep", "SleepUntil"}

Running(t) == state[t] = "Ready"

In(t, c) == Running(t) /\ call[t] = c

-----------------------------------------------------------------------------
Init ==
  /\ call = [t \in Task |-> "Run"] /\ due = [t \in Task |-> Never]
  /\ result = [t \in Task |-> "None"]
  /\ state = [t \in Task |-> "Ready"] /\ blockedOn = [t \in Task |-> Null]
  /\ togo = [t \in Task |-> Never] /\ woken = [t \in Task |-> FALSE]
  /\ set = FALSE /\ waiter = Null /\ waking = [s \in Setter |-> Null]

-----------------------------------------------------------------------------
(* Sections of scheduler.rs *)

\* mark_blocked_locked
Block_undated(t, r, d) ==
  /\ state' = [state EXCEPT ![t] = "Blocked"]
  /\ blockedOn' = [blockedOn EXCEPT ![t] = r]
  /\ UNCHANGED togo
Block(t, r, d) ==
  /\ state' = [state EXCEPT ![t] = "Blocked"]
  /\ blockedOn' = [blockedOn EXCEPT ![t] = r]
  /\ togo' = [togo EXCEPT ![t] = d]

\* What every wake does to the blocked tasks of S.
Unblock(S) ==
  /\ state' = [t \in Task |-> IF t \in S THEN "Ready" ELSE state[t]]
  /\ blockedOn' = [t \in Task |-> IF t \in S THEN Null ELSE blockedOn[t]]
  /\ togo' = [t \in Task |-> IF t \in S THEN Never ELSE togo[t]]

BlockedOn(r) == {t \in Task : state[t] = "Blocked" /\ blockedOn[t] = r}

\* wake_task: the flag is set whether the task is blocked or not.
wake_task(t) ==
  /\ woken' = [woken EXCEPT ![t] = TRUE]
  /\ Unblock({t} \ {u \in Task : Running(u)})

Returns(t, r) ==
  /\ call' = [call EXCEPT ![t] = "Run"]
  /\ due' = [due EXCEPT ![t] = Never]
  /\ result' = [result EXCEPT ![t] = r]

\* What a section of block_until_tick_if decides, given whether its condition
\* holds: the condition comes before the deadline.
Decision_deadline_first(t, ready) ==
  CASE due[t] = 0 -> "Timeout" [] due[t] # 0 /\ ready -> "Ok" [] OTHER -> "Block"
Decision(t, ready) ==
  CASE ready -> "Ok" [] ~ready /\ due[t] = 0 -> "Timeout" [] OTHER -> "Block"

\* One turn of the loop around block_until_tick_if.
BlockUnless(t, r, ready) ==
  LET d == Decision(t, ready)
  IN  \/ d = "Block" /\ Block(t, r, due[t]) /\ UNCHANGED task
      \/ d # "Block" /\ Returns(t, d) /\ UNCHANGED <<state, blockedOn, togo>>

\* on_tick: the clock, then wake_expired.
Countdown_all(f) == [t \in Task |-> IF f[t] # 0 THEN f[t] - 1 ELSE f[t]]
Countdown(f) == [t \in Task |-> IF f[t] > 0 THEN f[t] - 1 ELSE f[t]]

Tick ==
  /\ due' = Countdown(due)
  /\ \E expired \in {{t \in Task : state[t] = "Blocked" /\ togo[t] \in {0, 1}}} :
       /\ state' = [t \in Task |-> IF t \in expired THEN "Ready" ELSE state[t]]
       /\ blockedOn' = [t \in Task |-> IF t \in expired THEN Null ELSE blockedOn[t]]
       /\ togo' = [t \in Task |-> IF t \in expired THEN Never ELSE Countdown(togo)[t]]
  /\ UNCHANGED <<call, result, woken, signal>>

-----------------------------------------------------------------------------
(* Blocking calls.  A call is entered with its deadline, then takes turns;  *)
(* anything may happen in between.                                          *)

Enters(t, c, d) ==
  /\ In(t, "Run")
  /\ call' = [call EXCEPT ![t] = c]
  /\ due' = [due EXCEPT ![t] = d]
  /\ result' = [result EXCEPT ![t] = "None"]

\* Signal is made for a single waiter.
Enter(t) ==
  /\ \/ \E c \in {"Park", "Queue"}, d \in Deadlines : Enters(t, c, unwrap_or_zero(d))
     \/ \E d \in Deadlines :
          (\A u \in Task : call[u] # "Signal") /\ Enters(t, "Signal", unwrap_or_zero(d))
     \/ \E d \in Waits : Enters(t, "SleepUntil", d)
  /\ UNCHANGED <<tcb, signal>>

\* The condition of park and of WaitQueue::wait.
take_wake_flag_locked(t) == woken' = [woken EXCEPT ![t] = FALSE]

park(t) ==
  /\ In(t, "Park")
  /\ BlockUnless(t, t, woken[t])
  /\ take_wake_flag_locked(t)
  /\ UNCHANGED signal

queue_wait(t) ==
  /\ In(t, "Queue")
  /\ BlockUnless(t, Queue, woken[t])
  /\ take_wake_flag_locked(t)
  /\ UNCHANGED signal

\* The closure of Signal::wait: take the signal, or register as its waiter.
Registers_keeps(t) == IF set \/ waiter # Null THEN waiter ELSE t
Registers(t) == IF set THEN waiter ELSE t

signal_wait(t) ==
  /\ In(t, "Signal")
  /\ BlockUnless(t, t, set)
  /\ set' = FALSE
  /\ waiter' = Registers(t)
  /\ UNCHANGED <<woken, waking>>

\* sleep_until_tick: blocks again after an early wake.
SleepAgain(t) == due[t] # 0

sleep_until_tick(t) ==
  /\ In(t, "SleepUntil")
  /\ \/ SleepAgain(t) /\ Block(t, Null, due[t]) /\ UNCHANGED task
     \/ ~SleepAgain(t) /\ Returns(t, "Ok") /\ UNCHANGED <<state, blockedOn, togo>>
  /\ UNCHANGED <<woken, signal>>

\* sleep_ticks: deadline and block in one section, and no loop around it.  The
\* wrapping sum of the clock and the ticks may come out as 0, no deadline; when
\* it comes out as past, as for no ticks at all, nothing happens.
sleep_ticks(t) ==
  \E d \in (Waits \ {0}) \cup {Never} :
    /\ Enters(t, "Sleep", d)
    /\ Block(t, Null, d)
    /\ UNCHANGED <<woken, signal>>

sleep_ticks_returns(t) ==
  /\ In(t, "Sleep")
  /\ Returns(t, "Ok")
  /\ UNCHANGED <<tcb, signal>>

-----------------------------------------------------------------------------
(* Wakes, from tasks and interrupts.  None of them blocks. *)

wake(t) == t \in Wakeable /\ wake_task(t) /\ UNCHANGED <<task, signal>>

\* Signal::set: the section that stores the flag and takes the waiter ...
set_flag(s) ==
  /\ waking[s] = Null
  /\ set' = TRUE
  /\ waking' = [waking EXCEPT ![s] = waiter]
  /\ waiter' = Null
  /\ UNCHANGED <<task, tcb>>

\* ... and the wake that follows it.
set_wakes(s) ==
  /\ waking[s] # Null
  /\ wake_task(waking[s])
  /\ waking' = [waking EXCEPT ![s] = Null]
  /\ UNCHANGED <<task, set, waiter>>

try_take ==
  /\ set' = FALSE
  /\ UNCHANGED <<task, tcb, waiter, waking>>

\* wake_first_blocked_on does to the first waiter of its walk, whichever that
\* is, what wake_task does.
wake_one ==
  \E t \in BlockedOn(Queue) :
    /\ wake_task(t)
    /\ UNCHANGED <<task, signal>>

\* wake_blocked_on: no flag, so a waiter of WaitQueue::wait finds no reason to
\* return when it runs, and blocks again.
wake_all ==
  /\ BlockedOn(Queue) # {}
  /\ Unblock(BlockedOn(Queue))
  /\ UNCHANGED <<task, woken, signal>>

\* Mutex::unlock wakes whoever is blocked on the lock's id: a task parked
\* under its own id, when the two numbers agree.
unlock(l) ==
  /\ BlockedOn(l) # {}
  /\ Unblock(BlockedOn(l))
  /\ UNCHANGED <<task, woken, signal>>

Turn(t) ==
  \/ park(t) \/ queue_wait(t) \/ signal_wait(t)
  \/ sleep_until_tick(t) \/ sleep_ticks_returns(t)

Next ==
  \/ Tick
  \/ \E t \in Task : Enter(t) \/ sleep_ticks(t) \/ Turn(t) \/ wake(t)
  \/ \E s \in Setter : set_flag(s) \/ set_wakes(s)
  \/ \E l \in LockId : unlock(l)
  \/ try_take \/ wake_one \/ wake_all

Spec == Init /\ [][Next]_vars

-----------------------------------------------------------------------------
TypeOK ==
  /\ call \in [Task -> Calls \cup {"Run"}]
  /\ due \in [Task -> Nat \cup {Never}]
  /\ result \in [Task -> {"None", "Ok", "Timeout"}]
  /\ state \in [Task -> {"Ready", "Blocked"}]
  /\ blockedOn \in [Task -> Task \cup {Queue, Null}]
  /\ togo \in [Task -> Nat \cup {Never}]
  /\ woken \in [Task -> BOOLEAN]
  /\ set \in BOOLEAN /\ waiter \in Task \cup {Null}
  /\ waking \in [Setter -> Task \cup {Null}]

\* block_until_tick_if leaves no gap for a wake that sets the wake flag (wake,
\* wake_one, the wake of Signal::set): a task blocked in park or in
\* WaitQueue::wait has no such wake waiting for it.
NoLostFlag ==
  \A t \in Task : state[t] = "Blocked" /\ call[t] \in {"Park", "Queue"} => ~woken[t]

\* A task blocked in Signal::wait while the signal is set is about to be
\* woken by the set that found it registered, whatever timeouts, other wakes
\* and earlier waiters came before.
NoLostSignal ==
  \A t \in Task : state[t] = "Blocked" /\ call[t] = "Signal" /\ set =>
    \E s \in Setter : waking[s] = t

\* Neither a wake flag nor a signal is left lying before the task that blocks
\* for it.  A wake without the flag, wake_all's, is not remembered at all.
FlagsAndSignalsKept == NoLostFlag /\ NoLostSignal

\* The deadline the tick sweep sees is the one the call was given, through
\* any number of early wakes and renewed blocks.
DeadlineKept ==
  \A t \in Task : state[t] = "Blocked" => togo[t] = due[t] /\ due[t] # 0

\* A wait reports Timeout only after its deadline, and only if at that moment
\* its wake flag or its signal is clear: a wake with the flag or a set that
\* raced the deadline wins.  (A waiter that only wake_all has reached does
\* report Timeout, for it has no flag.)
TimeoutMeansClear ==
  [][\A t \in Task : result[t] = "None" /\ result'[t] = "Timeout" =>
       /\ due[t] = 0
       /\ call[t] \in {"Park", "Queue"} => ~woken[t]
       /\ call[t] = "Signal" => ~set]_vars

\* sleep_until_tick never returns before its deadline.
SleepUntilNotEarly ==
  [][\A t \in Task : call[t] = "SleepUntil" /\ call'[t] = "Run" => due[t] = 0]_vars

\* If the ticks go on, and this task gets its turn when it is ready, its bounded
\* wait ends: however often it is woken early and blocks again, and whatever
\* the others do.  Neither is promised here: tasks that switch before every
\* slice ends put the tick off, and a group may starve a child.
BoundedWaitReturns ==
  \A t \in Task :
    WF_vars(Tick) /\ WF_vars(Turn(t)) => ((due[t] # Never) ~> (call[t] = "Run"))
=============================================================================
