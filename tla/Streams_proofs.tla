---------------------------- MODULE Streams_proofs ----------------------------
(***************************************************************************)
(* Proofs about the byte pipe and the executor, for every capacity and     *)
(* index width: the pipe is a first-in, first-out channel, and no task     *)
(* sleeps through what it waits for.                                       *)
(***************************************************************************)
EXTENDS Streams, TLAPS

-----------------------------------------------------------------------------
(* Arithmetic of the indices *)

LEMMA DivMod ==
  ASSUME NEW a \in Int, NEW w \in Nat \ {0}
  PROVE  /\ a % w \in 0 .. w - 1 /\ a \div w \in Int
         /\ a = w * (a \div w) + (a % w)
OBVIOUS

LEMMA ModIs ==
  ASSUME NEW w \in Nat \ {0}, NEW q \in Int, NEW r \in 0 .. w - 1
  PROVE  (w * q + r) % w = r
OBVIOUS

\* Numbers that differ by a multiple of w.
LEMMA ModSame ==
  ASSUME NEW w \in Nat \ {0}, NEW a \in Int, NEW b \in Int, NEW q \in Int, a = b + w * q
  PROVE  a % w = b % w
<1> DEFINE d == b \div w
           r == b % w
<1>1. d \in Int /\ r \in 0 .. w - 1 /\ b = w * d + r
  BY DivMod
<1> HIDE DEF d, r
<1>2. a = w * (d + q) + r
  BY <1>1
<1>3. (w * (d + q) + r) % w = r
  BY <1>1, ModIs
<1> QED BY <1>2, <1>3 DEF r

\* A reduction on the way to another makes no difference.
LEMMA ModInside ==
  ASSUME NEW w \in Nat \ {0}, NEW a \in Int, NEW b \in Int
  PROVE  /\ ((a % w) + b) % w = (a + b) % w
         /\ (b - (a % w)) % w = (b - a) % w
         /\ a % w \in 0 .. w - 1
<1> DEFINE d == a \div w
           r == a % w
           u == r + b
           v == a + b
           x == b - r
           y == b - a
<1>1. d \in Int /\ r \in 0 .. w - 1 /\ a = w * d + r
  BY DivMod
<1>2. u \in Int /\ v \in Int /\ x \in Int /\ y \in Int /\ v = u + w * d /\ x = y + w * d
  <2> HIDE DEF d, r
  <2> QED BY <1>1
<1> HIDE DEF d, u, v, x, y
<1>3. v % w = u % w
  BY <1>1, <1>2, ModSame
<1>4. x % w = y % w
  BY <1>1, <1>2, ModSame
<1> QED BY <1>1, <1>3, <1>4 DEF u, v, x, y

LEMMA ModSmall ==
  ASSUME NEW w \in Nat \ {0}, NEW r \in 0 .. w - 1
  PROVE  r % w = r
OBVIOUS

LEMMA MinTwo ==
  ASSUME NEW a \in Int, NEW b \in Int
  PROVE  Min({a, b}) = IF a <= b THEN a ELSE b
BY DEF Min

-----------------------------------------------------------------------------
(* The ring *)

RingInv ==
  /\ buf \in [0 .. Capacity - 1 -> Byte] /\ left \in Seq(Byte) /\ want \in Nat
  /\ head \in 0 .. Word - 1 /\ tail \in 0 .. Word - 1
  /\ Used <= Capacity

\* head is Used ahead of tail, but for the wrap of the indices, which is a
\* multiple of the capacity.
LEMMA HeadAhead ==
  ASSUME RingInv
  PROVE  /\ Used \in 0 .. Capacity
         /\ \E q \in Int : head = tail + Used + Capacity * q
<1>1. /\ Word \in Nat \ {0} /\ Capacity \in Nat \ {0}
      /\ head \in 0 .. Word - 1 /\ tail \in 0 .. Word - 1
  BY PipeAssumption DEF RingInv
<1>2. Used = (head - tail) % Word /\ Used <= Capacity
  BY DEF RingInv, Used
<1>3. Used \in 0 .. Word - 1 /\ head - tail = Word * ((head - tail) \div Word) + Used
  BY <1>1, <1>2, DivMod
<1>4. Word = Capacity * (Word \div Capacity) /\ Word \div Capacity \in Int
  BY <1>1, DivMod, PipeAssumption
<1> DEFINE m == Word \div Capacity
           d == (head - tail) \div Word
<1>5. d \in Int
  BY <1>1, DivMod
<1> HIDE DEF m, d
<1>6. head = tail + Used + (Capacity * m) * d
  BY <1>1, <1>3, <1>4, <1>5 DEF m, d
<1>7. (Capacity * m) * d = Capacity * (m * d) /\ m * d \in Int
  BY <1>1, <1>4, <1>5 DEF m
<1>8. m * d \in Int /\ head = tail + Used + Capacity * (m * d)
  BY <1>6, <1>7
<1>9. \E q \in Int : head = tail + Used + Capacity * q
  BY <1>8
<1>10. Used \in 0 .. Capacity
  BY <1>1, <1>2, <1>3
<1> QED BY <1>9, <1>10

\* Where the bytes in flight lie, seen from head.
LEMMA SlotFromHead ==
  ASSUME RingInv, NEW k \in 1 .. Capacity
  PROVE  /\ (tail + k - 1) % Capacity \in 0 .. Capacity - 1
         /\ (((tail + k - 1) % Capacity) - head) % Capacity
              = IF k <= Used THEN Capacity + k - 1 - Used ELSE k - 1 - Used
<1> DEFINE a == tail + k - 1
           s == a % Capacity
           d == a \div Capacity
           r == IF k <= Used THEN Capacity + k - 1 - Used ELSE k - 1 - Used
           p == IF k <= Used THEN -1 ELSE 0
<1>1. Capacity \in Nat \ {0} /\ tail \in Int /\ head \in Int /\ a \in Int
  BY PipeAssumption DEF RingInv
<1>2. PICK q \in Int : Used \in 0 .. Capacity /\ head = tail + Used + Capacity * q
  BY HeadAhead
<1>3. s \in 0 .. Capacity - 1 /\ d \in Int /\ a = Capacity * d + s
  BY <1>1, DivMod
<1>4. r \in 0 .. Capacity - 1 /\ p \in Int /\ k - 1 - Used = r + Capacity * p
  BY <1>1, <1>2
<1> HIDE DEF s, d, r, p
<1>5. s - head = (k - 1 - Used) - Capacity * d - Capacity * q
  BY <1>1, <1>2, <1>3
<1>6. s - head = Capacity * (p - d - q) + r
  BY <1>1, <1>2, <1>3, <1>4, <1>5
<1>7. (Capacity * (p - d - q) + r) % Capacity = r
  BY <1>1, <1>2, <1>3, <1>4, ModIs
<1> QED BY <1>3, <1>6, <1>7 DEF s, r

\* Bytes put into the room there is follow those in flight.
LEMMA PutAppends ==
  ASSUME RingInv, NEW s \in Seq(Byte), Len(s) <= Room, Put(s), left' \in Seq(Byte)
  PROVE  RingInv' /\ Used' = Used + Len(s) /\ Oldest(Used)' = Oldest(Used) \o s
<1>1. /\ Word \in Nat \ {0} /\ Capacity \in Nat \ {0} /\ Word > Capacity
      /\ head \in 0 .. Word - 1 /\ tail \in 0 .. Word - 1
      /\ Used \in 0 .. Capacity /\ Len(s) \in Nat /\ Used + Len(s) <= Capacity
      /\ buf \in [0 .. Capacity - 1 -> Byte]
  BY PipeAssumption, HeadAhead DEF RingInv, Room
<1>2. /\ tail' = tail /\ want' = want /\ head' = (head + Len(s)) % Word
      /\ buf' = [i \in 0 .. Capacity - 1 |->
           LET k == (i - head) % Capacity IN IF k < Len(s) THEN s[k + 1] ELSE buf[i]]
  BY <1>1 DEF Put
<1>3. head' \in 0 .. Word - 1
  <2>1. head + Len(s) \in Int
    BY <1>1
  <2> QED BY <1>1, <1>2, <2>1, ModInside
<1>4. Used' = Used + Len(s)
  <2> DEFINE n == Len(s)
  <2>1. n \in Int /\ head \in Int /\ tail \in Int /\ head + n \in Int /\ head - tail \in Int /\ -tail \in Int
    BY <1>1
  <2> HIDE DEF n
  <2>2. Used' = (((head + n) % Word) + (-tail)) % Word
    BY <1>1, <1>2, <1>3, <2>1 DEF Used, n
  <2>3. @ = ((head + n) + (-tail)) % Word
    BY <1>1, <2>1, ModInside
  <2>4. @ = ((head - tail) + n) % Word
    BY <2>1
  <2>5. @ = (((head - tail) % Word) + n) % Word
    BY <1>1, <2>1, ModInside
  <2>6. @ = (Used + n) % Word
    BY DEF Used
  <2>7. @ = Used + n
    <3>1. Used + n \in 0 .. Word - 1
      BY <1>1 DEF n
    <3> QED BY <1>1, <3>1, ModSmall
  <2> QED BY <2>2, <2>3, <2>4, <2>5, <2>6, <2>7 DEF n
<1>5. buf' \in [0 .. Capacity - 1 -> Byte]
  <2> SUFFICES ASSUME NEW i \in 0 .. Capacity - 1
               PROVE  LET k == (i - head) % Capacity
                      IN  (IF k < Len(s) THEN s[k + 1] ELSE buf[i]) \in Byte
    BY <1>2
  <2> DEFINE k == (i - head) % Capacity
  <2>1. k \in Nat
    BY <1>1, DivMod
  <2> HIDE DEF k
  <2>2. k < Len(s) => s[k + 1] \in Byte
    BY <1>1, <2>1
  <2> QED BY <1>1, <2>2 DEF k
<1>6. RingInv'
  BY <1>1, <1>2, <1>3, <1>4, <1>5 DEF RingInv
<1>7. Oldest(Used)' = [k \in 1 .. Used + Len(s) |-> buf'[(tail + k - 1) % Capacity]]
  BY <1>2, <1>4 DEF Oldest
<1>8. ASSUME NEW k \in 1 .. Used + Len(s)
      PROVE  buf'[(tail + k - 1) % Capacity]
               = IF k <= Used THEN buf[(tail + k - 1) % Capacity] ELSE s[k - Used]
  <2> DEFINE i == (tail + k - 1) % Capacity
             j == (i - head) % Capacity
  <2>1. i \in 0 .. Capacity - 1
        /\ j = IF k <= Used THEN Capacity + k - 1 - Used ELSE k - 1 - Used
    BY <1>1, SlotFromHead
  <2> HIDE DEF i, j
  <2>2. buf'[i] = IF j < Len(s) THEN s[j + 1] ELSE buf[i]
    BY <1>2, <2>1 DEF j
  <2>3. CASE k <= Used
    BY <1>1, <2>1, <2>2, <2>3 DEF i
  <2>4. CASE k > Used
    <3>1. j = k - 1 - Used /\ j < Len(s) /\ j + 1 = k - Used
      BY <1>1, <2>1, <2>4
    <3> QED BY <1>1, <2>2, <2>4, <3>1 DEF i
  <2> QED BY <1>1, <2>3, <2>4
<1>9. Oldest(Used) \o s = [k \in 1 .. Used + Len(s) |->
        IF k <= Used THEN buf[(tail + k - 1) % Capacity] ELSE s[k - Used]]
  BY <1>1 DEF Oldest
<1> QED BY <1>4, <1>6, <1>7, <1>8, <1>9

\* Bytes taken are the oldest ones.
LEMMA GetTakes ==
  ASSUME RingInv, NEW n \in 1 .. Used, Get(n)
  PROVE  /\ RingInv' /\ Used' = Used - n
         /\ got' = SubSeq(Oldest(Used), 1, n)
         /\ Oldest(Used)' = SubSeq(Oldest(Used), n + 1, Len(Oldest(Used)))
<1>1. /\ Word \in Nat \ {0} /\ Capacity \in Nat \ {0} /\ Word > Capacity
      /\ head \in 0 .. Word - 1 /\ tail \in 0 .. Word - 1
      /\ Used \in 0 .. Capacity /\ n \in 1 .. Used
  BY PipeAssumption, HeadAhead DEF RingInv
<1>2. /\ got' = Oldest(n) /\ tail' = (tail + n) % Word /\ head' = head /\ buf' = buf /\ left' = left
      /\ want' = want
  BY DEF Get
<1>3. tail' \in 0 .. Word - 1
  <2>1. tail + n \in Int
    BY <1>1
  <2> QED BY <1>1, <1>2, <2>1, ModInside
<1>4. Used' = Used - n
  <2>1. n \in Int /\ head \in Int /\ tail \in Int /\ tail + n \in Int /\ head - tail \in Int /\ -n \in Int
    BY <1>1
  <2>2. Used' = (head - ((tail + n) % Word)) % Word
    BY <1>2 DEF Used
  <2>3. @ = (head - (tail + n)) % Word
    BY <1>1, <2>1, ModInside
  <2>4. @ = ((head - tail) + (-n)) % Word
    BY <2>1
  <2>5. @ = (((head - tail) % Word) + (-n)) % Word
    BY <1>1, <2>1, ModInside
  <2>6. @ = (Used + (-n)) % Word
    BY DEF Used
  <2>7. @ = Used + (-n)
    BY <1>1, ModSmall
  <2> QED BY <1>1, <2>2, <2>3, <2>4, <2>5, <2>6, <2>7
<1>5. RingInv'
  BY <1>1, <1>2, <1>3, <1>4 DEF RingInv
<1>6. PICK f \in Int : tail + n = tail' + Capacity * f
  <2> DEFINE e == (tail + n) \div Word
             m == Word \div Capacity
  <2>1. e \in Int /\ tail + n = Word * e + tail'
    BY <1>1, <1>2, DivMod
  <2>2. m \in Int /\ Word = Capacity * m
    BY <1>1, DivMod, PipeAssumption
  <2> HIDE DEF e, m
  <2>3. (Capacity * m) * e = Capacity * (m * e) /\ m * e \in Int
    BY <1>1, <2>1, <2>2
  <2>4. tail + n = tail' + Capacity * (m * e)
    BY <1>3, <2>1, <2>2, <2>3
  <2> QED BY <2>3, <2>4
<1>7. ASSUME NEW k \in 1 .. Used - n
      PROVE  (tail' + k - 1) % Capacity = (tail + (n + k) - 1) % Capacity
  <2>1. Capacity * f \in Int /\ k \in Int /\ n \in Int /\ tail \in Int /\ tail' \in Int
    BY <1>1, <1>3, <1>6
  <2> DEFINE c == Capacity * f
  <2>2. tail + n = tail' + c /\ c \in Int
    BY <1>6, <2>1
  <2> HIDE DEF c
  <2>3. /\ tail + (n + k) - 1 = (tail' + k - 1) + c
        /\ tail + (n + k) - 1 \in Int /\ tail' + k - 1 \in Int
    <3>1. PICK u \in Int : u = tail'
      BY <2>1
    <3>2. tail + n = u + c
      BY <2>2, <3>1
    <3>3. tail + (n + k) - 1 = (u + k - 1) + c
      BY <2>1, <2>2, <3>2
    <3>4. tail + (n + k) - 1 \in Int /\ u + k - 1 \in Int
      BY <2>1
    <3> QED BY <3>1, <3>3, <3>4
  <2> QED BY <1>1, <1>6, <2>3, ModSame DEF c
<1>8. Oldest(Used)' = [k \in 1 .. Used - n |-> buf[(tail + (n + k) - 1) % Capacity]]
  BY <1>2, <1>4, <1>7 DEF Oldest
<1>9. Len(Oldest(Used)) = Used
  BY <1>1 DEF Oldest
<1>10. SubSeq(Oldest(Used), n + 1, Used) = [k \in 1 .. Used - n |-> buf[(tail + (n + k) - 1) % Capacity]]
  BY <1>1 DEF Oldest
<1>11. got' = SubSeq(Oldest(Used), 1, n)
  BY <1>1, <1>2 DEF Oldest
<1> QED BY <1>4, <1>5, <1>8, <1>9, <1>10, <1>11

-----------------------------------------------------------------------------
(* The pipe implements the channel *)

LEMMA RingInit == Init => RingInv /\ Pipe!Init
<1> SUFFICES ASSUME Init
             PROVE  RingInv /\ Pipe!Init
  OBVIOUS
<1>1. Word \in Nat \ {0} /\ Capacity \in Nat \ {0} /\ Byte # {}
  BY PipeAssumption
<1>2. head = 0 /\ tail = 0 /\ left = <<>> /\ got = <<>> /\ want = 0 /\ buf \in [0 .. Capacity - 1 -> Byte]
  BY <1>1 DEF Init
<1>3. Used = 0
  BY <1>1, <1>2, ModSmall DEF Used
<1>4. Oldest(Used) = <<>>
  BY <1>3 DEF Oldest
<1> QED BY <1>1, <1>2, <1>3, <1>4 DEF RingInv, Pipe!Init

\* Nothing moves, but a new write may begin.
LEMMA RingStill ==
  ASSUME RingInv, UNCHANGED <<buf, head, tail>>, left' \in Seq(Byte), want' \in Nat
  PROVE  RingInv' /\ Oldest(Used)' = Oldest(Used)
BY DEF RingInv, Used, Oldest

LEMMA TransferMaps ==
  ASSUME RingInv, NEW t \in Task, Transfers(t)
  PROVE  RingInv' /\ Pipe!Next
<1>1. Used \in 0 .. Capacity /\ Capacity \in Nat /\ Word \in Nat \ {0} /\ left \in Seq(Byte)
  BY HeadAhead, PipeAssumption DEF RingInv
<1>2. Len(Oldest(Used)) = Used
  BY <1>1 DEF Oldest
<1>3. CASE t = reader
  <2> DEFINE n == Min({Used, want})
  <2>1. n > 0 /\ Get(n)
    BY <1>3 DEF Transfers, Moves
  <2>2. want \in Nat /\ n \in 1 .. Used
    BY <1>1, <2>1, MinTwo DEF RingInv
  <2>3. n \in 1 .. Used /\ Get(n)
    BY <2>1, <2>2
  <2> HIDE DEF n
  <2>4. /\ RingInv' /\ got' = SubSeq(Oldest(Used), 1, n)
        /\ Oldest(Used)' = SubSeq(Oldest(Used), n + 1, Len(Oldest(Used)))
        /\ left' = left
    BY <2>3, GetTakes DEF Get
  <2>5. Pipe!Deliver
    BY <1>2, <2>3, <2>4 DEF Pipe!Deliver
  <2> QED BY <2>4, <2>5 DEF Pipe!Next
<1>4. CASE t # reader
  <2> DEFINE n == Min({Room, Len(left)})
             s == SubSeq(left, 1, n)
  <2>1. n > 0 /\ Put(s) /\ left' = SubSeq(left, n + 1, Len(left))
    BY <1>4 DEF Transfers, Moves
  <2>2. Room \in Int /\ Len(left) \in Nat /\ Room + Used = Capacity
    BY <1>1 DEF Room
  <2>3. n \in 1 .. Len(left) /\ n <= Room
    BY <2>1, <2>2, MinTwo
  <2> HIDE DEF n
  <2>4. s \in Seq(Byte) /\ Len(s) = n /\ left' \in Seq(Byte)
    BY <1>1, <2>1, <2>3
  <2>5. RingInv' /\ Oldest(Used)' = Oldest(Used) \o s
    BY <2>1, <2>3, <2>4, PutAppends
  <2>6. got' = got
    BY <2>1 DEF Put
  <2>7. Used + n <= Capacity
    BY <1>1, <2>2, <2>3
  <2>8. Pipe!Accept
    BY <1>2, <2>1, <2>3, <2>5, <2>6, <2>7 DEF Pipe!Accept
  <2> QED BY <2>5, <2>8 DEF Pipe!Next
<1> QED BY <1>3, <1>4

LEMMA PushMaps ==
  ASSUME RingInv, push_from_isr
  PROVE  RingInv' /\ Pipe!Next
<1>1. Used \in 0 .. Capacity /\ Capacity \in Nat /\ left \in Seq(Byte)
  BY HeadAhead, PipeAssumption DEF RingInv
<1>2. Len(Oldest(Used)) = Used
  BY <1>1 DEF Oldest
<1>3. PICK b \in Byte : Put(<<b>>) /\ Room > 0 /\ left' = left
  BY DEF push_from_isr
<1>4. <<b>> \in Seq(Byte) /\ Len(<<b>>) = 1 /\ 1 <= Room /\ Used < Capacity
  BY <1>1, <1>3 DEF Room
<1>5. RingInv' /\ Oldest(Used)' = Oldest(Used) \o <<b>>
  BY <1>1, <1>3, <1>4, PutAppends
<1>6. Oldest(Used) \in Seq(Byte)
  <2>1. \A k \in 1 .. Used : (tail + k - 1) % Capacity \in 0 .. Capacity - 1
    BY <1>1, SlotFromHead
  <2> QED BY <1>1, <2>1 DEF Oldest, RingInv
<1>7. Oldest(Used)' = Append(Oldest(Used), b)
  BY <1>5, <1>6
<1>8. got' = got
  BY <1>3 DEF Put
<1> QED BY <1>2, <1>3, <1>4, <1>5, <1>7, <1>8 DEF Pipe!Push, Pipe!Next

LEMMA RingNext ==
  ASSUME RingInv, program \in Programs, [Next]_vars
  PROVE  RingInv' /\ [Pipe!Next]_(Pipe!vars)
<1> USE DEF ring
<1>1. left \in Seq(Byte) /\ Writes \subseteq Seq(Byte) /\ want \in Nat /\ program.reads \subseteq Nat
  BY PipeAssumption DEF RingInv
<1>2. CASE UNCHANGED <<buf, head, tail, got, left, want>>
  BY <1>1, <1>2, RingStill DEF Pipe!vars
<1>3. ASSUME NEW t \in Task, Starts(t)
      PROVE  RingInv' /\ [Pipe!Next]_(Pipe!vars)
  <2>1. UNCHANGED <<buf, head, tail, got>> /\ (left' \in Writes \/ left' = left) /\ want' \in Nat
    BY <1>1, <1>3 DEF Starts
  <2>2. RingInv' /\ Oldest(Used)' = Oldest(Used)
    BY <1>1, <2>1, RingStill
  <2> QED BY <2>1, <2>2 DEF Pipe!vars, Pipe!Next, Pipe!Offer
<1>4. ASSUME NEW t \in Task, Move(t)
      PROVE  RingInv' /\ [Pipe!Next]_(Pipe!vars)
  <2>1. Transfers(t) \/ UNCHANGED <<buf, head, tail, got, left, want>>
    BY <1>4 DEF Move
  <2> QED BY <1>2, <2>1, TransferMaps
<1>5. ASSUME NEW t \in Task, Moved(t)
      PROVE  RingInv' /\ [Pipe!Next]_(Pipe!vars)
  <2>1. UNCHANGED <<buf, head, tail, left, want>> /\ (got' = <<>> \/ got' = got)
    BY <1>5 DEF Moved
  <2>2. RingInv' /\ Oldest(Used)' = Oldest(Used)
    BY <1>1, <2>1, RingStill
  <2> QED BY <2>1, <2>2 DEF Pipe!vars, Pipe!Next, Pipe!Ask
<1>6. CASE push_from_isr
  BY <1>6, PushMaps
<1>7. CASE UNCHANGED vars
  BY <1>2, <1>7 DEF vars
<1>8. CASE Tick
  BY <1>2, <1>8 DEF Tick
<1>9. ASSUME NEW t \in Task, Blocking(t) \/ Async(t)
      PROVE  RingInv' /\ [Pipe!Next]_(Pipe!vars)
  BY <1>3, <1>9 DEF Blocking, Async
<1>10. ASSUME NEW t \in Task, Steps(t)
       PROVE  RingInv' /\ [Pipe!Next]_(Pipe!vars)
  <2>1. \/ Move(t) \/ Moved(t) \/ UNCHANGED ring
    BY <1>10 DEF Steps, Sets, Wakes, Wait, Poll, Take, Arm, Event, NapsInPoll, Napped, Parked
  <2> QED BY <1>2, <1>4, <1>5, <2>1
<1>11. CASE push_sets \/ fire \/ Wakes(isr)
  BY <1>2, <1>11 DEF push_sets, fire, Wakes
<1> QED BY <1>6, <1>7, <1>8, <1>9, <1>10, <1>11 DEF Next

\* An application stays what it is.
LEMMA ProgramKept ==
  ASSUME [Next]_vars
  PROVE  program' = program
<1>1. \A t \in Task : Blocking(t) \/ Async(t) \/ Steps(t) => program' = program
  BY DEF Blocking, Async, Starts, Steps, Move, Sets, Wakes, Moved, Wait, Poll, Take, Arm, Event,
         NapsInPoll, Napped, Parked
<1> QED BY <1>1 DEF Next, Tick, push_from_isr, push_sets, fire, Wakes, vars

\* Every interleaving of reads, writes and pushes is a first-in, first-out
\* channel: io.rs loses, repeats and reorders no byte, and reads none before it
\* is written, whatever the capacity and wherever head and tail wrap.
THEOREM PipeImplementsChannel == Spec => PipeIsChannel
<1>1. Init => RingInv /\ program \in Programs /\ Pipe!Init
  BY RingInit DEF Init
<1>2. program \in Programs /\ [Next]_vars => (program \in Programs)'
  BY ProgramKept
<1>3. RingInv /\ program \in Programs /\ [Next]_vars => RingInv' /\ [Pipe!Next]_(Pipe!vars)
  BY RingNext
<1> QED BY <1>1, <1>2, <1>3, PTL DEF Spec, PipeIsChannel, Pipe!Spec

-----------------------------------------------------------------------------
(* Where the tasks and the interrupt can be *)

Context == Task \cup {isr}
Sides   == {"data", "space"}

StreamTypes ==
  /\ program \in Programs /\ event \in BOOLEAN
  /\ pc \in [Context -> {"Idle", "Poll", "Move", "Set", "Wake", "Moved", "Wait", "Take", "Arm",
                         "Event", "Block", "Napped", "Parked"}]
  /\ pc[isr] \in {"Idle", "Set", "Wake"}
  /\ waking \in [Context -> Task \cup {Null}]
  /\ flag \in [Sides -> BOOLEAN]
  /\ waiter \in [Sides -> Task \cup {Null}]
  /\ state \in [Task -> {"Ready", "Blocked"}] /\ woken \in [Task -> BOOLEAN]
  /\ rest \in [Task -> {"None", "Move", "Event", "Block", "Take", "Done"}]
  /\ due \in [Task -> Deadlines] /\ timer \in [Task -> Deadlines]
  /\ nap \in [Task -> Deadlines] /\ limit \in [Task -> Deadlines]

\* A signal has one task that waits for it; a wake in progress is its context's
\* next step; only waits, parks and naps block; and where a task stands says
\* what its future is at.
Placed ==
  /\ waiter["data"] \in {Null, reader} /\ waiter["space"] \in {Null, writer}
  /\ \A c \in Context : pc[c] = "Wake" <=> waking[c] # Null
  /\ \A t \in Task :
       /\ waking[t] # t
       /\ state[t] = "Blocked" => pc[t] \in {"Wait", "Parked", "Napped"}
       /\ pc[t] = "Wait" => rest[t] = "None"
       /\ pc[t] \in {"Take", "Arm"} => rest[t] = "Take"
       /\ pc[t] \in {"Block", "Napped"} => rest[t] = "Block"
       /\ pc[t] = "Event" => rest[t] = "Event"
       /\ pc[t] = "Poll" => rest[t] # "None"
       /\ pc[t] = "Parked" => rest[t] \in {"Event", "Take", "Done"}

\* The contexts that set the signal t waits for.
Setters(t) == {c \in Context : c # t /\ (t = writer => c = reader)}

\* What keeps a transfer from moving a byte.
Stuck(t) == IF t = reader THEN Used = 0 \/ want = 0 ELSE Room = 0 \/ left = <<>>

\* A task that may be about to wait, or is, with its transfer possible, will
\* find its signal set.
SignalComes(t) == flag[Side(t)] \/ \E c \in Setters(t) : pc[c] = "Set"

Signalled ==
  /\ \A t \in Task : pc[t] = "Wait" /\ ~Stuck(t) => SignalComes(t)
  /\ pc[writer] \in {"Set", "Wake", "Moved"} /\ left # <<>> /\ Room # 0 => SignalComes(writer)

\* A blocked waiter is registered, unsignalled, or taken to be woken.
Registered ==
  \A t \in Task : pc[t] = "Wait" /\ state[t] = "Blocked" =>
    \/ waiter[Side(t)] = t /\ ~flag[Side(t)]
    \/ \E c \in Context \ {t} : waking[c] = t

\* An event that has come is noted in the flag of its waiter, or is about to be.
WakeKept ==
  /\ \A t \in Task : pc[t] = "Parked" /\ state[t] = "Blocked" => ~woken[t]
  /\ pc[reader] = "Parked" /\ rest[reader] = "Event" /\ event =>
       woken[reader] \/ waking[isr] = reader

StreamInv == RingInv /\ StreamTypes /\ Placed /\ Signalled /\ Registered /\ WakeKept

\* No future makes a blocking call beside a Sleep: the call would take the one
\* block_deadline from it.
PollsNeverBlock ==
  \A p \in Programs : \A t \in Task : \A f \in p.futures[t] : f.rest = "Block" => f.nap = Never

\* The deadline a parked future needs: the earliest of its Needs.
NeedOf(n, r, l) == IF r = "Take" THEN Earliest(n, IF l = Never THEN 1 ELSE l) ELSE n
Want(t) == NeedOf(nap[t], rest[t], limit[t])

Timed ==
  \A t \in Task :
    /\ rest[t] = "Block" => nap[t] = Never
    /\ pc[t] \in {"Move", "Set", "Wake", "Moved", "Take", "Arm", "Event"} /\ rest[t] # "None" =>
         timer[t] = nap[t]
    /\ pc[t] = "Parked" /\ due[t] # 0 => due[t] = Want(t)
    /\ pc[t] = "Parked" /\ state[t] = "Blocked" => timer[t] = due[t] /\ due[t] # 0

-----------------------------------------------------------------------------
(* The types *)

LEMMA Names ==
  /\ reader # writer /\ isr \notin Task /\ Null \notin Context
  /\ reader \in Task /\ writer \in Task
  /\ \A t \in Task : t \in {reader, writer} /\ Side(t) \in Sides /\ Other(t) \in Sides
  /\ Side(reader) = "data" /\ Side(writer) = "space"
  /\ Other(reader) = "space" /\ Other(writer) = "data"
BY PipeAssumption DEF Task, Context, Side, Other, Sides

LEMMA DeadlineFacts ==
  /\ Never \in Deadlines /\ 1 \in Deadlines /\ 0 \in Deadlines
  /\ \A d \in Deadlines : d \in Int
  /\ \A d, e \in Deadlines : Earliest(d, e) \in Deadlines
  /\ \A f \in [Task -> Deadlines] : Countdown(f) \in [Task -> Deadlines]
<1>1. \A d, e \in Deadlines : Min({d, e}) \in Deadlines
  BY MinTwo DEF Deadlines, Never
<1> QED BY <1>1 DEF Deadlines, Never, Countdown, Earliest

LEMMA ProgramFacts ==
  ASSUME StreamTypes
  PROVE  /\ program.producer \in {writer, isr} /\ program.limits \subseteq Deadlines
         /\ program.reads \subseteq Nat
         /\ \A t \in Task : program.waits[t] \subseteq Deadlines
         /\ \A t \in Task : \A f \in program.futures[t] :
              f.nap \in Deadlines /\ f.rest \in {"Move", "Event", "Block"}
BY PipeAssumption DEF StreamTypes

LEMMA TypesInit == Init => StreamTypes
<1> SUFFICES ASSUME Init
             PROVE  StreamTypes
  OBVIOUS
<1> USE Names, DeadlineFacts DEF Init
<1>1. program \in Programs /\ event \in BOOLEAN /\ pc[isr] = "Idle" /\ \A c \in Context : pc[c] = "Idle"
  BY DEF Context
<1>2. /\ waking \in [Context -> Task \cup {Null}] /\ flag \in [Sides -> BOOLEAN]
      /\ waiter \in [Sides -> Task \cup {Null}]
  BY DEF Context, Sides
<1>3. state \in [Task -> {"Ready", "Blocked"}] /\ woken \in [Task -> BOOLEAN]
  OBVIOUS
<1>4. /\ due \in [Task -> Deadlines] /\ timer \in [Task -> Deadlines]
      /\ nap \in [Task -> Deadlines] /\ limit \in [Task -> Deadlines]
  OBVIOUS
<1> QED BY <1>1, <1>2, <1>3, <1>4 DEF StreamTypes, Context

LEMMA TailEndsTypes ==
  ASSUME StreamTypes, NEW t \in Task, TailEnds(t)
  PROVE  /\ \E p \in {"Idle", "Parked"} : Goes(t, p)
         /\ due' \in [Task -> Deadlines]
         /\ rest' \in [Task -> {"None", "Move", "Event", "Block", "Take", "Done"}]
<1>1. CASE nap[t] = Never
  BY <1>1, DeadlineFacts DEF StreamTypes, TailEnds, Returns
<1>2. CASE nap[t] # Never
  BY <1>2 DEF StreamTypes, TailEnds, Pends
<1> QED BY <1>1, <1>2

LEMMA TypesKept ==
  ASSUME StreamTypes, NEW t \in Task,
         UNCHANGED <<signal, program, waking, tcb, nap, limit>>, event' \in BOOLEAN,
         \/ TailEnds(t)
         \/ Returns(t)
         \/ Pends(t, timer[t]) /\ UNCHANGED rest
         \/ Goes(t, "Wait") /\ UNCHANGED <<rest, due>>
  PROVE  StreamTypes'
<1>1. /\ \E p \in {"Idle", "Parked", "Wait"} : Goes(t, p)
      /\ due' \in [Task -> Deadlines]
      /\ rest' \in [Task -> {"None", "Move", "Event", "Block", "Take", "Done"}]
  <2>1. CASE TailEnds(t)
    BY <2>1, TailEndsTypes
  <2>2. CASE Returns(t)
    BY <2>2, DeadlineFacts DEF StreamTypes, Returns
  <2>3. CASE Pends(t, timer[t]) /\ UNCHANGED rest
    BY <2>3 DEF StreamTypes, Pends
  <2>4. CASE Goes(t, "Wait") /\ UNCHANGED <<rest, due>>
    BY <2>4 DEF StreamTypes
  <2> QED BY <2>1, <2>2, <2>3, <2>4
<1>2. /\ pc' \in [Context -> {"Idle", "Poll", "Move", "Set", "Wake", "Moved", "Wait", "Take", "Arm",
                              "Event", "Block", "Napped", "Parked"}]
      /\ pc'[isr] \in {"Idle", "Set", "Wake"}
  BY <1>1, Names DEF StreamTypes, Goes, Context
<1> QED BY <1>1, <1>2 DEF StreamTypes, signal, tcb

LEMMA TypesNext ==
  ASSUME StreamTypes, Placed, [Next]_vars
  PROVE  StreamTypes'
<1> USE Names, DeadlineFacts, ProgramFacts DEF StreamTypes, Context, Sides, ring, signal, tcb, future, Goes, At
<1>1. CASE UNCHANGED vars
  BY <1>1 DEF vars
<1>2. CASE Tick
  BY <1>2 DEF Tick
<1>3. ASSUME NEW t \in Task, Blocking(t)
      PROVE  StreamTypes'
  <2>1. /\ due' \in [Task -> Deadlines] /\ rest' = [rest EXCEPT ![t] = "None"]
        /\ UNCHANGED <<signal, program, event, waking, tcb, nap, limit>>
    BY <1>3 DEF Blocking, Starts
  <2>2. \E p \in {"Move", "Moved"} : pc' = [pc EXCEPT ![t] = p]
    BY <1>3 DEF Blocking
  <2>3. /\ pc' \in [Context -> {"Idle", "Poll", "Move", "Set", "Wake", "Moved", "Wait", "Take", "Arm",
                                "Event", "Block", "Napped", "Parked"}]
        /\ pc'[isr] = pc[isr]
    BY <2>2
  <2> QED BY <2>1, <2>3
<1>4. ASSUME NEW t \in Task, Async(t)
      PROVE  StreamTypes'
  BY <1>4 DEF Async, Starts
<1>5. ASSUME NEW t \in Task, Move(t)
      PROVE  StreamTypes'
  BY <1>5 DEF Move
<1>6. ASSUME NEW t \in Task, Sets(t)
      PROVE  StreamTypes'
  BY <1>6 DEF Sets, set
<1>7. ASSUME NEW t \in Context, Wakes(t)
      PROVE  StreamTypes'
  BY <1>7 DEF Wakes, wake_task, Placed
<1>8. ASSUME NEW t \in Task, Moved(t)
      PROVE  StreamTypes'
  BY <1>8, TypesKept DEF Moved
<1>9. ASSUME NEW t \in Task, Wait(t)
      PROVE  StreamTypes'
  <2>1. flag' \in [Sides -> BOOLEAN] /\ waiter' \in [Sides -> Task \cup {Null}]
    BY <1>9 DEF Wait, Takes, Registers
  <2>2. /\ state' \in [Task -> {"Ready", "Blocked"}] /\ timer' \in [Task -> Deadlines]
        /\ due' \in [Task -> Deadlines]
        /\ rest' \in [Task -> {"None", "Move", "Event", "Block", "Take", "Done"}]
    BY <1>9 DEF Wait, Returns, Blocks
  <2>3. (\E p \in {"Move", "Idle"} : pc' = [pc EXCEPT ![t] = p]) \/ pc' = pc
    BY <1>9 DEF Wait, Returns
  <2>4. /\ pc' \in [Context -> {"Idle", "Poll", "Move", "Set", "Wake", "Moved", "Wait", "Take", "Arm",
                                "Event", "Block", "Napped", "Parked"}]
        /\ pc'[isr] = pc[isr]
    BY <2>3
  <2>5. UNCHANGED <<program, event, waking, woken, nap, limit>>
    BY <1>9 DEF Wait
  <2> QED BY <2>1, <2>2, <2>4, <2>5
<1>10. ASSUME NEW t \in Task, Poll(t)
       PROVE  StreamTypes'
  BY <1>10 DEF Poll, Returns, Pends, Placed
<1>11. ASSUME NEW t \in Task, Take(t)
       PROVE  StreamTypes'
  BY <1>11 DEF Take, Takes
<1>12. ASSUME NEW t \in Task, Arm(t)
       PROVE  StreamTypes'
  BY <1>12 DEF Arm, TailEnds, Returns, Pends
<1>13. ASSUME NEW t \in Task, Event(t)
       PROVE  StreamTypes'
  BY <1>13, TypesKept DEF Event
<1>14. ASSUME NEW t \in Task, NapsInPoll(t)
       PROVE  StreamTypes'
  BY <1>14 DEF NapsInPoll, Blocks
<1>15. ASSUME NEW t \in Task, Napped(t)
       PROVE  StreamTypes'
  BY <1>15, TypesKept DEF Napped
<1>16. ASSUME NEW t \in Task, Parked(t)
       PROVE  StreamTypes'
  BY <1>16 DEF Parked, Blocks
<1>17. CASE push_from_isr
  BY <1>17 DEF push_from_isr
<1>18. CASE push_sets
  BY <1>18 DEF push_sets, set
<1>19. CASE fire
  BY <1>19 DEF fire
<1> QED BY <1>1, <1>2, <1>3, <1>4, <1>5, <1>6, <1>7, <1>8, <1>9, <1>10, <1>11, <1>12, <1>13, <1>14, <1>15,
           <1>16, <1>17, <1>18, <1>19 DEF Next, Steps

-----------------------------------------------------------------------------
(* Where the contexts stand *)

LEMMA PlacedInit == Init => Placed
BY Names DEF Init, Placed, Context

LEMMA PlacedNext ==
  ASSUME StreamTypes, Placed, [Next]_vars
  PROVE  Placed'
<1> USE Names, ProgramFacts DEF StreamTypes, Placed, Context, signal, tcb, future, Goes, At
<1>1. CASE UNCHANGED vars
  BY <1>1 DEF vars
<1>2. CASE Tick
  BY <1>2 DEF Tick
<1>3. ASSUME NEW t \in Task, Blocking(t)
      PROVE  Placed'
  BY <1>3 DEF Blocking, Starts
<1>4. ASSUME NEW t \in Task, Async(t)
      PROVE  Placed'
  BY <1>4 DEF Async, Starts
<1>5. ASSUME NEW t \in Task, Move(t)
      PROVE  Placed'
  BY <1>5 DEF Move
<1>6. ASSUME NEW t \in Task, Sets(t)
      PROVE  Placed'
  BY <1>6 DEF Sets, set
<1>7. ASSUME NEW t \in Context, Wakes(t)
      PROVE  Placed'
  BY <1>7 DEF Wakes, wake_task
<1>8. ASSUME NEW t \in Task, Moved(t)
      PROVE  Placed'
  BY <1>8 DEF Moved, Returns, TailEnds, Pends
<1>9. ASSUME NEW t \in Task, Wait(t)
      PROVE  Placed'
  BY <1>9 DEF Wait, Takes, Registers, Returns, Blocks
<1>10. ASSUME NEW t \in Task, Poll(t)
       PROVE  Placed'
  BY <1>10 DEF Poll, Returns, Pends
<1>11. ASSUME NEW t \in Task, Take(t)
       PROVE  Placed'
  BY <1>11 DEF Take, Takes
<1>12. ASSUME NEW t \in Task, Arm(t)
       PROVE  Placed'
  BY <1>12 DEF Arm, TailEnds, Returns, Pends
<1>13. ASSUME NEW t \in Task, Event(t)
       PROVE  Placed'
  BY <1>13 DEF Event, TailEnds, Returns, Pends
<1>14. ASSUME NEW t \in Task, NapsInPoll(t)
       PROVE  Placed'
  BY <1>14 DEF NapsInPoll, Blocks
<1>15. ASSUME NEW t \in Task, Napped(t)
       PROVE  Placed'
  BY <1>15 DEF Napped, TailEnds, Returns, Pends
<1>16. ASSUME NEW t \in Task, Parked(t)
       PROVE  Placed'
  BY <1>16 DEF Parked, Blocks
<1>17. CASE push_from_isr
  BY <1>17 DEF push_from_isr
<1>18. CASE push_sets
  BY <1>18 DEF push_sets, set
<1>19. CASE fire
  BY <1>19 DEF fire
<1> QED BY <1>1, <1>2, <1>3, <1>4, <1>5, <1>6, <1>7, <1>8, <1>9, <1>10, <1>11, <1>12, <1>13, <1>14, <1>15,
           <1>16, <1>17, <1>18, <1>19 DEF Next, Steps

-----------------------------------------------------------------------------
(* No task sleeps through its transfer *)

LEMMA RoomSame ==
  ASSUME UNCHANGED <<head, tail>>
  PROVE  Used' = Used /\ Room' = Room
BY DEF Used, Room

\* A transfer goes as far as it can, and a push only into room.
LEMMA TransferRoom ==
  ASSUME RingInv
  PROVE  /\ \A t \in Task : Transfers(t) =>
              IF t = reader THEN left' = left ELSE left' # <<>> => Room' = 0
         /\ push_from_isr => left' = left /\ (Room' # 0 => Room # 0)
<1>1. Used \in 0 .. Capacity /\ Capacity \in Nat /\ left \in Seq(Byte)
  BY HeadAhead, PipeAssumption DEF RingInv
<1>2. ASSUME NEW t \in Task, Transfers(t), t = reader
      PROVE  left' = left
  BY <1>2 DEF Transfers, Get
<1>3. ASSUME NEW t \in Task, Transfers(t), t # reader, left' # <<>>
      PROVE  Room' = 0
  <2> DEFINE n == Min({Room, Len(left)})
             s == SubSeq(left, 1, n)
  <2>1. n > 0 /\ Put(s) /\ left' = SubSeq(left, n + 1, Len(left))
    BY <1>3 DEF Transfers, Moves
  <2>2. Room \in Int /\ Len(left) \in Nat /\ Room = Capacity - Used
    BY <1>1 DEF Room
  <2>3. n \in 1 .. Len(left) /\ n <= Room /\ (n = Room \/ n = Len(left))
    BY <2>1, <2>2, MinTwo
  <2> HIDE DEF n
  <2>4. s \in Seq(Byte) /\ Len(s) = n /\ left' \in Seq(Byte)
    BY <1>1, <2>1, <2>3
  <2>5. Used' = Used + n
    BY <2>1, <2>3, <2>4, PutAppends
  <2>6. n = Len(left) => left' = <<>>
    BY <1>1, <2>1, <2>2
  <2> QED BY <1>1, <1>3, <2>2, <2>3, <2>5, <2>6 DEF Room
<1>4. push_from_isr => left' = left /\ (Room' # 0 => Room # 0)
  <2>1. push_from_isr => Room > 0 /\ left' = left
    BY DEF push_from_isr
  <2> QED BY <1>1, <2>1 DEF Room
<1> QED BY <1>2, <1>3, <1>4

LEMMA StuckIs ==
  ASSUME RingInv, NEW t \in Task
  PROVE  Moves(t) \in Nat /\ (Moves(t) = 0 <=> Stuck(t))
<1>1. /\ Used \in 0 .. Capacity /\ Capacity \in Nat /\ left \in Seq(Byte) /\ want \in Nat
      /\ Room \in Nat
  BY HeadAhead, PipeAssumption DEF RingInv, Room
<1>2. CASE t = reader
  BY <1>1, <1>2, MinTwo DEF Moves, Stuck
<1>3. CASE t # reader
  <2>1. Len(left) \in Nat /\ (Len(left) = 0 <=> left = <<>>)
    BY <1>1
  <2> QED BY <1>1, <1>3, <2>1, MinTwo DEF Moves, Stuck
<1> QED BY <1>2, <1>3

LEMMA SignalledInit == Init => Signalled
BY Names DEF Init, Signalled, Context

LEMMA SignalledNext ==
  ASSUME RingInv, StreamTypes, Placed, Signalled, [Next]_vars
  PROVE  Signalled'
<1> USE Names, ProgramFacts DEF StreamTypes, Signalled, SignalComes, Setters, Stuck, Context, Sides, ring, signal, tcb, future, Goes, At
<1>1. CASE UNCHANGED vars
  BY <1>1, RoomSame DEF vars
<1>2. CASE Tick
  BY <1>2, RoomSame DEF Tick
<1>3. ASSUME NEW t \in Task, Blocking(t)
      PROVE  Signalled'
  BY <1>3, RoomSame DEF Blocking, Starts
<1>4. ASSUME NEW t \in Task, Async(t)
      PROVE  Signalled'
  BY <1>4, RoomSame DEF Async, Starts
<1>5. ASSUME NEW t \in Task, Move(t)
      PROVE  Signalled'
  <2>1. CASE Transfers(t)
    <3>1. /\ pc' = [pc EXCEPT ![t] = "Set"] /\ UNCHANGED flag
          /\ IF t = reader THEN left' = left ELSE left' # <<>> => Room' = 0
      <4>1. Move(t) => \/ Goes(t, "Set") /\ UNCHANGED flag
                       \/ Stuck(t)
        BY StuckIs DEF Move
      <4>2. ~Stuck(t)
        BY <2>1, StuckIs DEF Transfers
      <4> QED BY <1>5, <2>1, <4>1, <4>2, TransferRoom
    <3>2. CASE t = reader
      BY <3>1, <3>2
    <3>3. CASE t # reader
      BY <3>1, <3>3
    <3> QED BY <3>2, <3>3
  <2>2. CASE Stuck(t) /\ UNCHANGED ring
    BY <1>5, <2>2, RoomSame DEF Move
  <2> QED BY <1>5, <2>1, <2>2, StuckIs DEF Move
<1>6. ASSUME NEW t \in Task, Sets(t)
      PROVE  Signalled'
  BY <1>6, RoomSame DEF Sets, set
<1>7. ASSUME NEW t \in Context, Wakes(t)
      PROVE  Signalled'
  BY <1>7, RoomSame DEF Wakes, wake_task
<1>8. ASSUME NEW t \in Task, Moved(t)
      PROVE  Signalled'
  BY <1>8, RoomSame DEF Moved, Returns, TailEnds, Pends
<1>9. ASSUME NEW t \in Task, Wait(t)
      PROVE  Signalled'
  BY <1>9, RoomSame DEF Wait, Takes, Registers, Returns, Blocks
<1>10. ASSUME NEW t \in Task, Poll(t)
       PROVE  Signalled'
  BY <1>10, RoomSame DEF Poll, Returns, Pends
<1>11. ASSUME NEW t \in Task, Take(t)
       PROVE  Signalled'
  BY <1>11, RoomSame DEF Take, Takes
<1>12. ASSUME NEW t \in Task, Arm(t)
       PROVE  Signalled'
  BY <1>12, RoomSame DEF Arm, TailEnds, Returns, Pends
<1>13. ASSUME NEW t \in Task, Event(t)
       PROVE  Signalled'
  BY <1>13, RoomSame DEF Event, TailEnds, Returns, Pends
<1>14. ASSUME NEW t \in Task, NapsInPoll(t)
       PROVE  Signalled'
  BY <1>14, RoomSame DEF NapsInPoll, Blocks
<1>15. ASSUME NEW t \in Task, Napped(t)
       PROVE  Signalled'
  BY <1>15, RoomSame DEF Napped, TailEnds, Returns, Pends
<1>16. ASSUME NEW t \in Task, Parked(t)
       PROVE  Signalled'
  BY <1>16, RoomSame DEF Parked, Blocks
<1>17. CASE push_from_isr
  BY <1>17, TransferRoom DEF push_from_isr, Put
<1>18. CASE push_sets
  BY <1>18, RoomSame DEF push_sets, set
<1>19. CASE fire
  BY <1>19, RoomSame DEF fire
<1> QED BY <1>1, <1>2, <1>3, <1>4, <1>5, <1>6, <1>7, <1>8, <1>9, <1>10, <1>11, <1>12, <1>13, <1>14, <1>15,
           <1>16, <1>17, <1>18, <1>19 DEF Next, Steps

LEMMA RegisteredInit == Init => Registered
BY Names DEF Init, Registered, Context

LEMMA RegisteredNext ==
  ASSUME StreamTypes, Placed, Registered, [Next]_vars
  PROVE  Registered'
<1> USE Names, ProgramFacts DEF StreamTypes, Placed, Registered, Context, Sides, ring, signal, tcb, future, Goes, At
<1>1. CASE UNCHANGED vars
  BY <1>1 DEF vars
<1>2. CASE Tick
  BY <1>2 DEF Tick
<1>3. ASSUME NEW t \in Task, Blocking(t)
      PROVE  Registered'
  BY <1>3 DEF Blocking, Starts
<1>4. ASSUME NEW t \in Task, Async(t)
      PROVE  Registered'
  BY <1>4 DEF Async, Starts
<1>5. ASSUME NEW t \in Task, Move(t)
      PROVE  Registered'
  BY <1>5 DEF Move
<1>6. ASSUME NEW t \in Task, Sets(t)
      PROVE  Registered'
  BY <1>6 DEF Sets, set
<1>7. ASSUME NEW t \in Context, Wakes(t)
      PROVE  Registered'
  BY <1>7 DEF Wakes, wake_task
<1>8. ASSUME NEW t \in Task, Moved(t)
      PROVE  Registered'
  BY <1>8 DEF Moved, Returns, TailEnds, Pends
<1>9. ASSUME NEW t \in Task, Wait(t)
      PROVE  Registered'
  BY <1>9 DEF Wait, Takes, Registers, Returns, Blocks
<1>10. ASSUME NEW t \in Task, Poll(t)
       PROVE  Registered'
  BY <1>10 DEF Poll, Returns, Pends
<1>11. ASSUME NEW t \in Task, Take(t)
       PROVE  Registered'
  BY <1>11 DEF Take, Takes
<1>12. ASSUME NEW t \in Task, Arm(t)
       PROVE  Registered'
  BY <1>12 DEF Arm, TailEnds, Returns, Pends
<1>13. ASSUME NEW t \in Task, Event(t)
       PROVE  Registered'
  BY <1>13 DEF Event, TailEnds, Returns, Pends
<1>14. ASSUME NEW t \in Task, NapsInPoll(t)
       PROVE  Registered'
  BY <1>14 DEF NapsInPoll, Blocks
<1>15. ASSUME NEW t \in Task, Napped(t)
       PROVE  Registered'
  BY <1>15 DEF Napped, TailEnds, Returns, Pends
<1>16. ASSUME NEW t \in Task, Parked(t)
       PROVE  Registered'
  BY <1>16 DEF Parked, Blocks
<1>17. CASE push_from_isr
  BY <1>17 DEF push_from_isr
<1>18. CASE push_sets
  BY <1>18 DEF push_sets, set
<1>19. CASE fire
  BY <1>19 DEF fire
<1> QED BY <1>1, <1>2, <1>3, <1>4, <1>5, <1>6, <1>7, <1>8, <1>9, <1>10, <1>11, <1>12, <1>13, <1>14, <1>15,
           <1>16, <1>17, <1>18, <1>19 DEF Next, Steps

LEMMA StrandedNowhere ==
  ASSUME RingInv, StreamTypes, Signalled, Registered
  PROVE  NoneStranded
BY Names, StuckIs DEF StreamTypes, Signalled, SignalComes, Setters, Registered, NoneStranded, Context

-----------------------------------------------------------------------------
(* No task sleeps through its wake *)

LEMMA WakeKeptInit == Init => WakeKept
BY Names DEF Init, WakeKept, Context

LEMMA WakeKeptNext ==
  ASSUME StreamTypes, Placed, WakeKept, [Next]_vars
  PROVE  WakeKept'
<1> USE Names, ProgramFacts DEF StreamTypes, Placed, WakeKept, Context, Sides, ring, signal, tcb, future, Goes, At
<1>1. CASE UNCHANGED vars
  BY <1>1 DEF vars
<1>2. CASE Tick
  BY <1>2 DEF Tick
<1>3. ASSUME NEW t \in Task, Blocking(t)
      PROVE  WakeKept'
  BY <1>3 DEF Blocking, Starts
<1>4. ASSUME NEW t \in Task, Async(t)
      PROVE  WakeKept'
  BY <1>4 DEF Async, Starts
<1>5. ASSUME NEW t \in Task, Move(t)
      PROVE  WakeKept'
  BY <1>5 DEF Move
<1>6. ASSUME NEW t \in Task, Sets(t)
      PROVE  WakeKept'
  BY <1>6 DEF Sets, set
<1>7. ASSUME NEW t \in Context, Wakes(t)
      PROVE  WakeKept'
  BY <1>7 DEF Wakes, wake_task
<1>8. ASSUME NEW t \in Task, Moved(t)
      PROVE  WakeKept'
  BY <1>8 DEF Moved, Returns, TailEnds, Pends
<1>9. ASSUME NEW t \in Task, Wait(t)
      PROVE  WakeKept'
  BY <1>9 DEF Wait, Takes, Registers, Returns, Blocks
<1>10. ASSUME NEW t \in Task, Poll(t)
       PROVE  WakeKept'
  BY <1>10 DEF Poll, Returns, Pends
<1>11. ASSUME NEW t \in Task, Take(t)
       PROVE  WakeKept'
  BY <1>11 DEF Take, Takes
<1>12. ASSUME NEW t \in Task, Arm(t)
       PROVE  WakeKept'
  BY <1>12 DEF Arm, TailEnds, Returns, Pends
<1>13. ASSUME NEW t \in Task, Event(t)
       PROVE  WakeKept'
  BY <1>13 DEF Event, TailEnds, Returns, Pends
<1>14. ASSUME NEW t \in Task, NapsInPoll(t)
       PROVE  WakeKept'
  BY <1>14 DEF NapsInPoll, Blocks
<1>15. ASSUME NEW t \in Task, Napped(t)
       PROVE  WakeKept'
  BY <1>15 DEF Napped, TailEnds, Returns, Pends
<1>16. ASSUME NEW t \in Task, Parked(t)
       PROVE  WakeKept'
  BY <1>16 DEF Parked, Blocks
<1>17. CASE push_from_isr
  BY <1>17 DEF push_from_isr
<1>18. CASE push_sets
  BY <1>18 DEF push_sets, set
<1>19. CASE fire
  BY <1>19 DEF fire
<1> QED BY <1>1, <1>2, <1>3, <1>4, <1>5, <1>6, <1>7, <1>8, <1>9, <1>10, <1>11, <1>12, <1>13, <1>14, <1>15,
           <1>16, <1>17, <1>18, <1>19 DEF Next, Steps

LEMMA SleptNowhere ==
  ASSUME StreamTypes, WakeKept
  PROVE  NoWakeSlept
BY Names DEF StreamTypes, WakeKept, NoWakeSlept

-----------------------------------------------------------------------------

LEMMA StreamInit == Init => StreamInv
BY RingInit, TypesInit, PlacedInit, SignalledInit, RegisteredInit, WakeKeptInit DEF StreamInv

LEMMA StreamNext == StreamInv /\ [Next]_vars => StreamInv'
<1> SUFFICES ASSUME StreamInv, [Next]_vars
             PROVE  StreamInv'
  OBVIOUS
<1>1. program \in Programs
  BY DEF StreamInv, StreamTypes
<1>2. RingInv'
  BY <1>1, RingNext DEF StreamInv
<1> QED BY <1>2, TypesNext, PlacedNext, SignalledNext, RegisteredNext, WakeKeptNext DEF StreamInv

\* The pipe, the signals, the flags and the contexts stay as StreamInv relates
\* them, through every section of every transfer and poll.
THEOREM StreamInvariant == Spec => []StreamInv
BY StreamInit, StreamNext, PTL DEF Spec

\* A reader of a buffer with room never stays blocked with bytes in the pipe,
\* nor a writer with bytes left and room in it, unless a set or a wake for it is under way: the flag of Signal::set
\* and the registration of Signal::wait leave no gap between them, whatever
\* deadlines, wraps and interrupts come between.
THEOREM TransfersWake == Spec => []NoneStranded
<1>1. StreamInv => NoneStranded
  BY StrandedNowhere DEF StreamInv
<1> QED BY <1>1, StreamInvariant, PTL

\* park sleeps through no wake: the wake flag that block_on clears before the
\* poll is checked in the section that blocks.
THEOREM ParkSeesWakes == Spec => []NoWakeSlept
<1>1. StreamInv => NoWakeSlept
  BY SleptNowhere DEF StreamInv
<1> QED BY <1>1, StreamInvariant, PTL

-----------------------------------------------------------------------------
(* One timer serves a future *)

LEMMA EarliestIs ==
  ASSUME NEW a \in Deadlines, NEW b \in Deadlines
  PROVE  /\ Earliest(a, b) = IF a = Never THEN b ELSE IF a <= b THEN a ELSE b
         /\ Earliest(a, b) \in Deadlines
BY MinTwo, DeadlineFacts DEF Earliest

LEMMA WantIs ==
  ASSUME StreamTypes, NEW t \in Task
  PROVE  Want(t) = IF Needs(t) = {} THEN Never ELSE Min(Needs(t))
<1> DEFINE n == nap[t]
           l == IF limit[t] = Never THEN 1 ELSE limit[t]
<1>1. n \in Deadlines /\ l \in Deadlines /\ l # Never /\ n \in Int /\ l \in Int
  BY DeadlineFacts DEF StreamTypes, Never
<1>2. Want(t) = IF rest[t] = "Take" THEN IF n = Never THEN l ELSE Min({n, l}) ELSE n
  BY DEF Want, NeedOf, Earliest
<1>3. Needs(t) = {d \in {n} : d # Never} \cup {l : x \in {rest[t]} \cap {"Take"}}
  BY DEF Needs
<1> HIDE DEF n, l
<1>4. Min({n}) = n /\ Min({l}) = l
  <2>1. Min({n, n}) = n /\ Min({l, l}) = l
    BY <1>1, MinTwo
  <2>2. {n, n} = {n} /\ {l, l} = {l}
    OBVIOUS
  <2> QED BY <2>1, <2>2
<1>5. CASE rest[t] = "Take" /\ n = Never
  <2>1. Needs(t) = {l}
    BY <1>3, <1>5
  <2> QED BY <1>2, <1>4, <1>5, <2>1
<1>6. CASE rest[t] = "Take" /\ n # Never
  <2>1. Needs(t) = {n, l}
    BY <1>3, <1>6
  <2> QED BY <1>2, <1>6, <2>1
<1>7. CASE rest[t] # "Take" /\ n = Never
  <2>1. Needs(t) = {}
    BY <1>3, <1>7
  <2> QED BY <1>2, <1>7, <2>1
<1>8. CASE rest[t] # "Take" /\ n # Never
  <2>1. Needs(t) = {n}
    BY <1>3, <1>8
  <2> QED BY <1>2, <1>4, <1>8, <2>1
<1> QED BY <1>5, <1>6, <1>7, <1>8

\* A tick takes one off the earliest deadline when it takes one off each.
Down(d) == IF d > 0 THEN d - 1 ELSE d

LEMMA NeedOfDown ==
  ASSUME NEW n \in Deadlines, NEW l \in Deadlines, NEW r, NEW d \in Deadlines,
         d = NeedOf(n, r, l), Down(d) # 0
  PROVE  Down(d) = NeedOf(Down(n), r, Down(l))
<1>1. CASE r = "Take"
  <2> DEFINE k == IF l = Never THEN 1 ELSE l
             m == IF Down(l) = Never THEN 1 ELSE Down(l)
  <2>1. k \in Deadlines /\ m \in Deadlines /\ Down(n) \in Deadlines
    BY DEF Down, Deadlines, Never
  <2>2. d = IF n = Never THEN k ELSE IF n <= k THEN n ELSE k
    BY <1>1, <2>1, EarliestIs DEF NeedOf
  <2>3. NeedOf(Down(n), r, Down(l))
          = IF Down(n) = Never THEN m ELSE IF Down(n) <= m THEN Down(n) ELSE m
    BY <1>1, <2>1, EarliestIs DEF NeedOf
  <2> QED BY <2>2, <2>3 DEF Down, Deadlines, Never
<1>2. CASE r # "Take"
  BY <1>2 DEF NeedOf
<1> QED BY <1>1, <1>2

LEMMA TimedInit == Init => Timed
BY Names DEF Init, Timed, Context

LEMMA TimedNext ==
  ASSUME PollsNeverBlock, StreamTypes, Placed, Timed, [Next]_vars
  PROVE  Timed'
<1> USE Names, ProgramFacts, DeadlineFacts DEF PollsNeverBlock, StreamTypes, Placed, Timed, Want, NeedOf, Context, Sides, ring, signal, tcb, future, Goes, At
<1>1. CASE UNCHANGED vars
  BY <1>1 DEF vars
<1>2. CASE Tick
  <2> SUFFICES ASSUME NEW u \in Task
               PROVE  /\ rest[u] = "Block" => nap'[u] = Never
                      /\ pc[u] \in {"Move", "Set", "Wake", "Moved", "Take", "Arm", "Event"} /\ rest[u] # "None" =>
                           timer'[u] = nap'[u]
                      /\ pc[u] = "Parked" /\ due'[u] # 0 => due'[u] = Want(u)'
                      /\ pc[u] = "Parked" /\ state'[u] = "Blocked" => timer'[u] = due'[u] /\ due'[u] # 0
    BY <1>2 DEF Tick
  <2>1. /\ due'[u] = Down(due[u]) /\ nap'[u] = Down(nap[u]) /\ limit'[u] = Down(limit[u])
        /\ timer'[u] = IF u \in Expired THEN Never ELSE Down(timer[u])
        /\ state'[u] = IF u \in Expired THEN "Ready" ELSE state[u]
        /\ UNCHANGED rest
    BY <1>2 DEF Tick, Countdown, Down
  <2>2. rest[u] = "Block" => nap'[u] = Never
    BY <2>1 DEF Down, Never
  <2>3. pc[u] \in {"Move", "Set", "Wake", "Moved", "Take", "Arm", "Event"} /\ rest[u] # "None" =>
          timer'[u] = nap'[u]
    BY <2>1 DEF Expired
  <2>4. pc[u] = "Parked" /\ due'[u] # 0 => due[u] # 0
    BY <2>1 DEF Down
  <2>5. pc[u] = "Parked" /\ due'[u] # 0 => due'[u] = Want(u)'
    <3>1. /\ nap[u] \in Deadlines /\ limit[u] \in Deadlines /\ due[u] \in Deadlines
      OBVIOUS
    <3>2. Want(u)' = NeedOf(Down(nap[u]), rest[u], Down(limit[u]))
      BY <2>1 DEF Want
    <3>3. pc[u] = "Parked" /\ due[u] # 0 => due[u] = NeedOf(nap[u], rest[u], limit[u])
      OBVIOUS
    <3> HIDE DEF NeedOf, Want
    <3> QED BY <2>1, <2>4, <3>1, <3>2, <3>3, NeedOfDown
  <2>6. pc[u] = "Parked" /\ state'[u] = "Blocked" => timer'[u] = due'[u] /\ due'[u] # 0
    <3>1. timer[u] \in Deadlines
      OBVIOUS
    <3> QED BY <2>1, <3>1 DEF Expired, Down, Deadlines, Never
  <2> QED BY <2>2, <2>3, <2>5, <2>6
<1>3. ASSUME NEW t \in Task, Blocking(t)
      PROVE  Timed'
  BY <1>3 DEF Blocking, Starts
<1>4. ASSUME NEW t \in Task, Async(t)
      PROVE  Timed'
  BY <1>4 DEF Async, Starts
<1>5. ASSUME NEW t \in Task, Move(t)
      PROVE  Timed'
  BY <1>5 DEF Move
<1>6. ASSUME NEW t \in Task, Sets(t)
      PROVE  Timed'
  BY <1>6 DEF Sets, set
<1>7. ASSUME NEW t \in Context, Wakes(t)
      PROVE  Timed'
  BY <1>7 DEF Wakes, wake_task
<1>8. ASSUME NEW t \in Task, Moved(t)
      PROVE  Timed'
  <2>1. rest[t] # "None" => TailEnds(t)
    BY <1>8 DEF Moved
  <2>2. rest[t] = "None" => Returns(t) \/ (Goes(t, "Wait") /\ UNCHANGED <<rest, due>>)
    BY <1>8 DEF Moved
  <2>3. UNCHANGED <<waking, tcb, nap, limit>> /\ pc[t] = "Moved"
    BY <1>8 DEF Moved
  <2>4. CASE rest[t] # "None"
    BY <2>1, <2>3, <2>4 DEF TailEnds, Pends, Returns
  <2>5. CASE rest[t] = "None"
    BY <2>2, <2>3, <2>5 DEF Returns
  <2> QED BY <2>4, <2>5
<1>9. ASSUME NEW t \in Task, Wait(t)
      PROVE  Timed'
  BY <1>9 DEF Wait, Takes, Registers, Returns, Blocks
<1>10. ASSUME NEW t \in Task, Poll(t)
       PROVE  Timed'
  BY <1>10 DEF Poll, Returns, Pends
<1>11. ASSUME NEW t \in Task, Take(t)
       PROVE  Timed'
  BY <1>11 DEF Take, Takes
<1>12. ASSUME NEW t \in Task, Arm(t)
       PROVE  Timed'
  BY <1>12 DEF Arm, TailEnds, Returns, Pends
<1>13. ASSUME NEW t \in Task, Event(t)
       PROVE  Timed'
  BY <1>13 DEF Event, TailEnds, Returns, Pends
<1>14. ASSUME NEW t \in Task, NapsInPoll(t)
       PROVE  Timed'
  BY <1>14 DEF NapsInPoll, Blocks
<1>15. ASSUME NEW t \in Task, Napped(t)
       PROVE  Timed'
  BY <1>15 DEF Napped, TailEnds, Returns, Pends
<1>16. ASSUME NEW t \in Task, Parked(t)
       PROVE  Timed'
  BY <1>16 DEF Parked, Blocks
<1>17. CASE push_from_isr
  BY <1>17 DEF push_from_isr
<1>18. CASE push_sets
  BY <1>18 DEF push_sets, set
<1>19. CASE fire
  BY <1>19 DEF fire
<1> QED BY <1>1, <1>2, <1>3, <1>4, <1>5, <1>6, <1>7, <1>8, <1>9, <1>10, <1>11, <1>12, <1>13, <1>14, <1>15,
           <1>16, <1>17, <1>18, <1>19 DEF Next, Steps

\* The one block_deadline of a task is the earliest moment that the Sleep and the
\* SignalWait of the future it has parked with asked for (a SignalWait with a
\* deadline asks for that deadline, not for the next tick), as long as no poll makes a blocking call.
THEOREM TimerServes ==
  ASSUME PollsNeverBlock
  PROVE  Spec => []TimerServesAll
<1>1. Init => StreamInv /\ Timed
  BY StreamInit, TimedInit
<1>2. StreamInv /\ Timed /\ [Next]_vars => (StreamInv /\ Timed)'
  BY StreamNext, TimedNext DEF StreamInv
<1>3. StreamInv /\ Timed => TimerServesAll
  BY WantIs DEF StreamInv, Timed, TimerServesAll
<1> QED BY <1>1, <1>2, <1>3, PTL DEF Spec
=============================================================================
