-------------------------------- MODULE Streams --------------------------------
(***************************************************************************)
(* The byte pipe of io.rs with its blocking and async reads and writes,    *)
(* and under the async ones the executor of exec.rs: block_on, Sleep,      *)
(* SignalWait and the task waker.                                          *)
(*                                                                         *)
(* One task reads, one writes, and an interrupt pushes bytes and fires     *)
(* wakers.  Every action is one critical section of the code, with the     *)
(* steps around it that touch nothing another context reads; what a        *)
(* context does next is its pc.  Deadlines are kept as the ticks left      *)
(* until them.                                                             *)
(***************************************************************************)
EXTENDS Integers, Sequences, FiniteSetsExt

CONSTANTS
  Byte, Capacity, Writes,  \* as in Channel
  Word,       \* 2^w for the w bits of usize: where head and tail wrap
  reader, writer, isr,
  Null,       \* no waiter
  Programs    \* what an application does with the pipe, one record each:
              \*   producer  what fills it, writer or isr
              \*   reads     the lengths of the buffers read into
              \*   waits     the deadlines each task makes blocking calls with
              \*   limits    the deadlines of SignalWait, Never for its 0
              \*   futures   what each task calls block_on with: the ticks of a
              \*             Sleep, Never for none, joined to "Move", a transfer
              \*             through the pipe, "Event", a wait for an event whose
              \*             interrupt calls the waker, or "Block", a sleep_ticks(1)
              \*             inside the poll

Task  == {reader, writer}
Never == -1

\* Ticks until a deadline.
Deadlines == Nat \cup {Never}

ASSUME PipeAssumption ==
  /\ Capacity \in Nat \ {0} /\ Word \in Nat /\ Word > Capacity
  /\ Word % Capacity = 0
  /\ Byte # {} /\ Writes \subseteq Seq(Byte)
  /\ reader # writer /\ isr \notin Task /\ Null \notin Task \cup {isr}
  /\ Programs \subseteq
       [producer : {writer, isr}, limits : SUBSET Deadlines, reads : SUBSET Nat,
        waits    : [Task -> SUBSET Deadlines],
        futures  : [Task -> SUBSET [nap : Deadlines, rest : {"Move", "Event", "Block"}]]]

VARIABLES
  buf, head, tail,   \* Pipe
  got,               \* the bytes of the read that returns
  left,              \* the bytes the writer has still to write
  want,              \* the length of the buffer the reader reads into
  flag, waiter,      \* Pipe.data and Pipe.space
  program,           \* the application, made for one producer and one consumer
  event,             \* what the "Event" future waits for
  pc,                \* what each context does next
  waking,            \* the waiter a set has taken and not woken yet
  due,               \* ticks until the deadline of the wait each task is in
  state, timer, woken,  \* TaskState, block_deadline, TCB_FLAG_WOKEN
  nap,               \* the Sleep of each future; Never when there is none left
  rest,              \* where the tail of each future resumes; "None": blocking
  limit              \* the deadline of its SignalWait

ring   == <<buf, head, tail, got, left, want>>
signal == <<flag, waiter>>
tcb    == <<state, timer, woken>>
future == <<nap, rest, limit>>
vars   == <<ring, signal, program, event, pc, waking, due, tcb, future>>

\* The signal of the pipe that each task waits for; the other one tells the
\* task at the other end.
Side(c)  == IF c = reader THEN "data" ELSE "space"
Other(c) == IF c = reader THEN "space" ELSE "data"

-----------------------------------------------------------------------------
Init ==
  /\ buf = [i \in 0 .. Capacity - 1 |-> CHOOSE b \in Byte : TRUE]
  /\ head = 0 /\ tail = 0 /\ got = <<>> /\ left = <<>> /\ want = 0
  /\ flag = [s \in {"data", "space"} |-> FALSE]
  /\ waiter = [s \in {"data", "space"} |-> Null]
  /\ program \in Programs /\ event = FALSE
  /\ pc = [c \in Task \cup {isr} |-> "Idle"]
  /\ waking = [c \in Task \cup {isr} |-> Null]
  /\ due = [t \in Task |-> Never]
  /\ state = [t \in Task |-> "Ready"] /\ timer = [t \in Task |-> Never]
  /\ woken = [t \in Task |-> FALSE]
  /\ nap = [t \in Task |-> Never] /\ rest = [t \in Task |-> "None"]
  /\ limit = [t \in Task |-> Never]

-----------------------------------------------------------------------------
(* The ring *)

Used_no_wrap == head - tail
Used == (head - tail) % Word
Room == Capacity - Used

Oldest(n) == [k \in 1 .. n |-> buf[(tail + k - 1) % Capacity]]

\* Bytes in at head, which both writes index with a mask.
Put(s) ==
  /\ buf' = [i \in DOMAIN buf |->
       LET k == (i - head) % Capacity IN IF k < Len(s) THEN s[k + 1] ELSE buf[i]]
  /\ head' = (head + Len(s)) % Word
  /\ UNCHANGED <<tail, got, want>>

Get(n) ==
  /\ got' = Oldest(n)
  /\ tail' = (tail + n) % Word
  /\ UNCHANGED <<buf, head, left, want>>

-----------------------------------------------------------------------------
(* What the sections of scheduler.rs and event.rs do *)

Goes(c, p) == pc' = [pc EXCEPT ![c] = p]

At(t, p) == state[t] = "Ready" /\ pc[t] = p

\* mark_blocked_locked
Blocks(t, d) ==
  /\ state' = [state EXCEPT ![t] = "Blocked"]
  /\ timer' = [timer EXCEPT ![t] = d]

wake_task_unflagged(t) ==
  /\ state' = [state EXCEPT ![t] = "Ready"]
  /\ timer' = [timer EXCEPT ![t] = IF state[t] = "Blocked" THEN Never ELSE @]
  /\ UNCHANGED woken
wake_task(t) ==
  /\ woken' = [woken EXCEPT ![t] = TRUE]
  /\ state' = [state EXCEPT ![t] = "Ready"]
  /\ timer' = [timer EXCEPT ![t] = IF state[t] = "Blocked" THEN Never ELSE @]

Countdown(f) == [t \in Task |-> IF f[t] > 0 THEN f[t] - 1 ELSE f[t]]

Expired == {t \in Task : state[t] = "Blocked" /\ timer[t] \in {0, 1}}

Tick ==
  /\ state' = [t \in Task |-> IF t \in Expired THEN "Ready" ELSE state[t]]
  /\ timer' = [t \in Task |-> IF t \in Expired THEN Never ELSE Countdown(timer)[t]]
  /\ due' = Countdown(due) /\ nap' = Countdown(nap) /\ limit' = Countdown(limit)
  /\ UNCHANGED <<ring, signal, program, event, pc, waking, woken, rest>>

\* Signal::set, up to its wake of the waiter it took.  A context that took
\* none goes on to p at once.
set_wakes_only(c, s, p) ==
  /\ waiter' = [waiter EXCEPT ![s] = Null]
  /\ waking' = [waking EXCEPT ![c] = waiter[s]]
  /\ Goes(c, IF waiter[s] = Null THEN p ELSE "Wake")
  /\ UNCHANGED flag
set(c, s, p) ==
  /\ flag' = [flag EXCEPT ![s] = TRUE]
  /\ waiter' = [waiter EXCEPT ![s] = Null]
  /\ waking' = [waking EXCEPT ![c] = waiter[s]]
  /\ Goes(c, IF waiter[s] = Null THEN p ELSE "Wake")

\* The section of Signal::wait takes the signal, or registers the waiter and
\* blocks, or finds the deadline passed.
Registers_nobody(t) == waiter
Registers(t) == IF flag[Side(t)] THEN waiter ELSE [waiter EXCEPT ![Side(t)] = t]

Takes(t) == flag' = [flag EXCEPT ![Side(t)] = FALSE]

-----------------------------------------------------------------------------
(* The calls *)

Starts(t) ==
  /\ pc[t] = "Idle" /\ t \in {reader, program.producer}
  /\ left' \in IF t = writer THEN Writes ELSE {left}
  /\ want' \in IF t = reader THEN program.reads ELSE {want}
  /\ UNCHANGED <<buf, head, tail, got, signal, program, event, waking, tcb>>

\* read_blocking and write_blocking, of which the second has nothing to do for
\* an empty slice.
Blocking(t) ==
  /\ Starts(t)
  /\ \E d \in program.waits[t] : due' = [due EXCEPT ![t] = d]
  /\ rest' = [rest EXCEPT ![t] = "None"]
  /\ Goes(t, IF t = writer /\ left' = <<>> THEN "Moved" ELSE "Move")
  /\ UNCHANGED <<nap, limit>>

\* block_on
Async(t) ==
  /\ Starts(t)
  /\ \E f \in program.futures[t] :
       /\ nap' = [nap EXCEPT ![t] = f.nap]
       /\ rest' = [rest EXCEPT ![t] = f.rest]
  /\ Goes(t, "Poll")
  /\ UNCHANGED <<due, limit>>

Returns(t) ==
  /\ due' = [due EXCEPT ![t] = Never]
  /\ rest' = [rest EXCEPT ![t] = "None"]
  /\ Goes(t, "Idle")

\* Pending: the timer deadline d that the poll armed is handed to park.
Pends(t, d) == Goes(t, "Parked") /\ due' = [due EXCEPT ![t] = d]

\* What follows the end of a future's tail: the end of block_on, or Pending
\* while the Sleep is.
TailEnds(t) ==
  IF nap[t] = Never
  THEN Returns(t)
  ELSE rest' = [rest EXCEPT ![t] = "Done"] /\ Pends(t, timer[t])

\* pop_into, and write_from_isr in a write: the section that moves bytes.
Moves(t) == IF t = reader THEN Min({Used, want}) ELSE Min({Room, Len(left)})

Transfers(t) ==
  /\ Moves(t) > 0
  /\ IF t = reader
     THEN Get(Moves(t))
     ELSE /\ Put(SubSeq(left, 1, Moves(t)))
          /\ left' = SubSeq(left, Moves(t) + 1, Len(left))

\* A transfer of no bytes waits for the signal, whether the pipe is in the way
\* or the buffer is empty.
Move(t) ==
  /\ At(t, "Move")
  /\ \/ Transfers(t) /\ Goes(t, "Set") /\ UNCHANGED <<rest, limit>>
     \/ /\ Moves(t) = 0
        /\ UNCHANGED ring
        /\ IF rest[t] = "None"
           THEN Goes(t, "Wait") /\ UNCHANGED <<rest, limit>>
           ELSE \E d \in program.limits :
                  /\ limit' = [limit EXCEPT ![t] = d]
                  /\ rest' = [rest EXCEPT ![t] = "Take"]
                  /\ Goes(t, "Take")
  /\ UNCHANGED <<signal, program, event, waking, due, tcb, nap>>

\* data.set and space.set after a transfer
Sets(t) ==
  /\ At(t, "Set")
  /\ set(t, Other(t), "Moved")
  /\ UNCHANGED <<ring, program, event, due, tcb, future>>

Wakes(c) ==
  /\ pc[c] = "Wake" /\ (c \in Task => state[c] = "Ready")
  /\ wake_task(waking[c])
  /\ waking' = [waking EXCEPT ![c] = Null]
  /\ Goes(c, IF c = isr THEN "Idle" ELSE "Moved")
  /\ UNCHANGED <<ring, signal, program, event, due, future>>

\* write_blocking goes on until all is written; every other transfer ends the
\* call, or the tail of its future.
Moved(t) ==
  /\ At(t, "Moved")
  /\ CASE rest[t] = "None" /\ t = writer /\ left # <<>> ->
            Goes(t, "Wait") /\ UNCHANGED <<rest, due>>
       [] rest[t] = "None" /\ ~(t = writer /\ left # <<>>) -> Returns(t)
       [] OTHER -> TailEnds(t)
  /\ got' = IF t = reader THEN <<>> ELSE got
  /\ UNCHANGED <<buf, head, tail, left, want, signal, program, event, waking, tcb, nap, limit>>

\* A turn of Signal::wait
Wait(t) ==
  /\ At(t, "Wait")
  /\ Takes(t) /\ waiter' = Registers(t)
  /\ \/ flag[Side(t)] /\ Goes(t, "Move") /\ UNCHANGED <<due, rest, state, timer>>
     \/ ~flag[Side(t)] /\ due[t] = 0 /\ Returns(t) /\ UNCHANGED <<state, timer>>
     \/ ~flag[Side(t)] /\ due[t] # 0 /\ Blocks(t, due[t]) /\ UNCHANGED <<pc, due, rest>>
  /\ UNCHANGED <<ring, program, event, waking, woken, nap, limit>>

-----------------------------------------------------------------------------
(* The executor *)

\* set_timer_deadline keeps the earliest.
Earliest_last(a, b) == b
Earliest(a, b) == IF a = Never THEN b ELSE Min({a, b})

\* clear_wake_flag and clear_timer_deadline, then the poll of the Sleep.
Poll(t) ==
  /\ At(t, "Poll")
  /\ woken' = [woken EXCEPT ![t] = FALSE]
  /\ nap' = [nap EXCEPT ![t] = IF @ = 0 THEN Never ELSE @]
  /\ timer' = [timer EXCEPT ![t] = nap'[t]]
  /\ IF rest[t] = "Done" /\ nap'[t] = Never
     THEN Returns(t)
     ELSE /\ IF rest[t] = "Done" THEN Pends(t, nap'[t]) ELSE Goes(t, rest[t]) /\ UNCHANGED due
          /\ UNCHANGED rest
  /\ UNCHANGED <<ring, signal, program, event, waking, state, limit>>

\* SignalWait::poll: the signal first ...
Take(t) ==
  /\ At(t, "Take")
  /\ Takes(t)
  /\ Goes(t, IF flag[Side(t)] THEN "Move" ELSE "Arm")
  /\ limit' = [limit EXCEPT ![t] = IF flag[Side(t)] THEN Never ELSE @]
  /\ UNCHANGED <<ring, waiter, program, event, waking, due, tcb, nap, rest>>

\* ... then the deadline, and without one the next tick.
Arm(t) ==
  /\ At(t, "Arm")
  /\ \/ /\ limit[t] = 0
        /\ limit' = [limit EXCEPT ![t] = Never]
        /\ TailEnds(t)
        /\ UNCHANGED timer
     \/ /\ limit[t] # 0
        /\ timer' = [timer EXCEPT ![t] =
             Earliest(@, IF limit[t] = Never THEN 1 ELSE limit[t])]
        /\ Pends(t, timer'[t])
        /\ UNCHANGED <<rest, limit>>
  /\ UNCHANGED <<ring, signal, program, event, waking, state, woken, nap>>

\* The poll of a future that an interrupt completes and wakes.
Event(t) ==
  /\ At(t, "Event")
  /\ event' = FALSE
  /\ IF event THEN TailEnds(t) ELSE Pends(t, timer[t]) /\ UNCHANGED rest
  /\ UNCHANGED <<ring, signal, program, waking, tcb, nap, limit>>

\* A blocking call inside a poll: sleep_ticks, and its return.
NapsInPoll(t) ==
  /\ At(t, "Block")
  /\ Blocks(t, 1)
  /\ Goes(t, "Napped")
  /\ UNCHANGED <<ring, signal, program, event, waking, due, woken, future>>

Napped(t) ==
  /\ At(t, "Napped")
  /\ TailEnds(t)
  /\ UNCHANGED <<ring, signal, program, event, waking, tcb, nap, limit>>

\* A turn of park, which a wake or the deadline ends.
Parked(t) ==
  /\ At(t, "Parked")
  /\ woken' = [woken EXCEPT ![t] = FALSE]
  /\ \/ /\ woken[t] \/ due[t] = 0
        /\ Goes(t, "Poll")
        /\ due' = [due EXCEPT ![t] = Never]
        /\ UNCHANGED <<state, timer>>
     \/ ~woken[t] /\ due[t] # 0 /\ Blocks(t, due[t]) /\ UNCHANGED <<pc, due>>
  /\ UNCHANGED <<ring, signal, program, event, waking, future>>

-----------------------------------------------------------------------------
(* Interrupts *)

\* push_from_isr: the section that pushes; a full ring drops the byte.
push_from_isr ==
  /\ pc[isr] = "Idle" /\ program.producer = isr /\ Room > 0
  /\ \E b \in Byte : Put(<<b>>)
  /\ Goes(isr, "Set")
  /\ UNCHANGED <<left, signal, program, event, waking, due, tcb, future>>

push_sets ==
  /\ pc[isr] = "Set"
  /\ set(isr, "data", "Idle")
  /\ UNCHANGED <<ring, program, event, due, tcb, future>>

\* An interrupt completes an event, then calls the waker of the reader.
fire ==
  /\ pc[isr] = "Idle" /\ rest[reader] = "Event"
  /\ event' = TRUE
  /\ waking' = [waking EXCEPT ![isr] = reader]
  /\ Goes(isr, "Wake")
  /\ UNCHANGED <<ring, signal, program, due, tcb, future>>

Steps(t) ==
  \/ Move(t) \/ Sets(t) \/ Wakes(t) \/ Moved(t) \/ Wait(t)
  \/ Poll(t) \/ Take(t) \/ Arm(t) \/ Event(t) \/ NapsInPoll(t) \/ Napped(t)
  \/ Parked(t)

Next ==
  \/ Tick
  \/ \E t \in Task : Blocking(t) \/ Async(t) \/ Steps(t)
  \/ push_from_isr \/ push_sets \/ fire \/ Wakes(isr)

Spec == Init /\ [][Next]_vars

\* The tick comes, a ready task gets its turn, and an interrupt handler, once
\* begun, ends.  Of these the scheduler below promises neither of the first two:
\* tasks that switch before every slice ends put the tick off, and a group may
\* starve a child.
Runs ==
  /\ WF_vars(Tick)
  /\ \A t \in Task : WF_vars(Steps(t))
  /\ WF_vars(push_sets \/ Wakes(isr))

FairSpec == Spec /\ Runs

-----------------------------------------------------------------------------
\* The pipe is a bounded first-in, first-out channel, across the wrap of its
\* indices and of its buffer: no byte is lost, repeated, reordered or read
\* before it is written.
Pipe == INSTANCE Channel WITH queue <- Oldest(Used)
PipeIsChannel == Pipe!Spec

\* No task sleeps through its transfer: while a task is blocked in a read or a
\* write that could move a byte, a context is between its transfer and the wake
\* that follows.  (A read into an empty buffer can move none: it stays blocked
\* with bytes in the pipe.)
NoneStranded ==
  \A t \in Task : state[t] = "Blocked" /\ pc[t] = "Wait" /\ Moves(t) > 0 =>
    \E c \in DOMAIN pc \ {t} : pc[c] = "Set" \/ waking[c] = t

\* A task that block_on has parked has no wake waiting for it, and its event,
\* if that has come, is followed by a wake.
NoWakeSlept ==
  \A t \in Task : state[t] = "Blocked" /\ pc[t] = "Parked" =>
    /\ ~woken[t]
    /\ t = reader /\ rest[t] = "Event" /\ event => waking[isr] = t

\* When a parked future asks to be polled again: at the end of its Sleep, and
\* for its SignalWait at the deadline, or at the next tick if that has none.
\* (The comment in SignalWait::poll promises the next tick at the latest in
\* either case; the code gives it only without a deadline, and Signal::set,
\* which finds no waiter registered, does not wake the task.)
Needs(t) ==
  {d \in {nap[t]} : d # Never} \cup
  {IF limit[t] = Never THEN 1 ELSE limit[t] : x \in {rest[t]} \cap {"Take"}}

\* The one block_deadline serves every timer of a parked future: it is the
\* earliest of the moments it asked for, neither a later nor a stale earlier
\* one.
TimerServesAll ==
  \A t \in Task : state[t] = "Blocked" /\ pc[t] = "Parked" =>
    timer[t] = IF Needs(t) = {} THEN Never ELSE Min(Needs(t))

\* If ticks and turns go on, bytes in the pipe end the read of a buffer with
\* room that is waiting for them: a blocking one at their signal, an async one
\* when it is polled again, at its deadline at the latest.
Waiting == pc[reader] # "Idle" /\ rest[reader] \in {"None", "Take", "Move"}
ReadDelivered == Runs => ((Waiting /\ want > 0 /\ Used > 0) ~> (Used = 0 \/ ~Waiting))

\* A Sleep joined to another future resolves.
SleepResolves == \A t \in Task : (nap[t] = 0) ~> (nap[t] # 0)
=============================================================================
