------------------------------- MODULE Memory -------------------------------
(***************************************************************************)
(* What the kernel does with its arena: the TCB, closure block and stack   *)
(* of every task, allocated together by spawn_internal, given back on the  *)
(* failure of a later step or by reclaim_finished_tasks (scheduler.rs, the *)
(* ports' create_task).                                                    *)
(***************************************************************************)
EXTENDS Arena

CONSTANTS
  Leaves,     \* the tasks that may be spawned
  Groups,     \* the groups that may be spawned
  TcbSize,    \* size_of::<TaskControlBlock>() on each port, in its words
  TcbAlign,   \* its align_of on each port, 2 words where u64 takes two
  Closures,   \* the task bodies: records of size_of and align_of
  Stack,      \* the stack size asked for
  Builds,     \* the ports, "Win32" the one whose tasks are threads
  Floor,      \* the least stack of each other port
  Align,      \* the alignment of a stack there, which is its padding too
  Frame       \* the size of the first frame there

Arenas == {"CortexM", "RiscV", "Arm", "Xtensa", "Posix"}

\* Rust's alignments are powers of two: of any two the greater is a multiple.
Alignments ==
  {Align[b] : b \in Arenas} \cup {TcbAlign[b] : b \in Arenas \cup {"Win32"}}
    \cup {f.align : f \in Closures}

ASSUME MemoryAssumption ==
  /\ TcbSize \in [Arenas \cup {"Win32"} -> Nat \ {0}] /\ Stack \in Nat
  /\ Closures \subseteq [size : Nat, align : Nat \ {0}]
  /\ TcbAlign \in [Arenas \cup {"Win32"} -> Nat \ {0}]
  /\ \A v, w \in Alignments : v <= w => w % v = 0
  /\ Builds \subseteq Arenas \cup {"Win32"}
  /\ Align \in [Arenas -> Nat \ {0}]
  /\ Floor \in [Arenas -> Nat] /\ Frame \in [Arenas -> Nat]
  /\ \A b \in Arenas : Frame[b] <= Floor[b]
  /\ Floor["Posix"] >= align_up(Frame["Posix"], Align["Posix"])
  /\ Leaves \cap Groups = {} /\ {"root", "main"} \cap (Leaves \cup Groups) = {}

VARIABLES
  arch,       \* the port
  mem,        \* the arena
  own,        \* per node: closure_block, stack_base, sp and the TCB itself
  stage,      \* "None", "Alive" or "Dead"
  pending,    \* the deferred-free list
  most        \* the most allocations that were ever live at once

memory_vars == <<arch, mem, own, stage, pending, most>>

Nodes == Leaves \cup Groups \cup {"root", "main"}
Nothing == [blob |-> NoPtr, stack |-> NoPtr, sp |-> NoPtr, tcb |-> NoPtr]

\* The live allocations.
Held(o) == (UNION {{o[n].blob, o[n].stack, o[n].tcb} : n \in Nodes}) \ {NoPtr}

Larger(a, b) == IF a >= b THEN a ELSE b

-----------------------------------------------------------------------------
\* init_with: two TCBs, for the root and for the adopted task 0.
MemoryInit ==
  LET root == alloc(Fresh, TcbSize[arch], TcbAlign[arch])
      main == alloc(root.mem, TcbSize[arch], TcbAlign[arch])
  IN  /\ arch \in Builds
      /\ mem = main.mem
      /\ own = [n \in Nodes |-> CASE n = "root" -> [Nothing EXCEPT !.tcb = root.ptr]
                                  [] n = "main" -> [Nothing EXCEPT !.tcb = main.ptr]
                                  [] OTHER -> Nothing]
      /\ stage = [n \in Nodes |-> IF n \in {"root", "main"} THEN "Alive" ELSE "None"]
      /\ pending = <<>> /\ most = 2

\* create_task of the ports with stacks in the arena: how much each asks for,
\* and where the first frame goes, below the aligned top of the block.
cortex_m_stack == Larger(Stack, Floor["CortexM"]) + Align["CortexM"]
riscv_stack == Larger(Stack, Floor["RiscV"]) + Align["RiscV"]
arm_stack == Larger(Stack, Floor["Arm"]) + Align["Arm"]
xtensa_stack == Larger(Stack, Floor["Xtensa"]) + Frame["Xtensa"] + Align["Xtensa"]
posix_stack == Larger(Stack, Floor["Posix"]) + Align["Posix"]

StackSize ==
  CASE arch = "CortexM" -> cortex_m_stack
    [] arch = "RiscV" -> riscv_stack
    [] arch = "Arm" -> arm_stack
    [] arch = "Xtensa" -> xtensa_stack
    [] arch = "Posix" -> posix_stack

align_down(v, align) == (v \div align) * align

FirstFrame(block) ==
  LET top == align_down(block + StackSize, Align[arch])
  IN  align_down(top - Frame[arch], IF arch = "Posix" THEN Align[arch] ELSE 1)

\* On Win32 a thread, which the system may refuse.
win32_create_task(m, refused) == [ok |-> ~refused, ptr |-> NoPtr, sp |-> NoPtr, mem |-> m]

create_task(m, refused) ==
  IF arch = "Win32" THEN win32_create_task(m, refused)
  ELSE LET new == alloc(m, StackSize, Align[arch])
       IN  [ok |-> new.ptr # NoPtr, ptr |-> new.ptr, mem |-> new.mem,
            sp |-> IF new.ptr = NoPtr THEN NoPtr ELSE FirstFrame(new.ptr)]

\* The failure paths of spawn_internal: each gives back what the steps before
\* it have taken.
GiveBack_blob(m, blob, tcb) == free(m, blob)
GiveBack(m, blob, tcb) == free(free(m, blob), tcb)

\* The block of a closure f: its header of two words, and f behind it.
HEADER_SIZE == 2 * Slot
block_align_for(f) == f.align
block_size_for(f) == align_up(HEADER_SIZE + f.align, block_align_for(f)) + f.size

\* The three allocations of a spawn, as far as they get.
Attempt(f, refused) ==
  LET tcb   == alloc(mem, TcbSize[arch], TcbAlign[arch])
      blob  == IF tcb.ptr = NoPtr THEN tcb
               ELSE alloc(tcb.mem, block_size_for(f), block_align_for(f))
      stack == IF blob.ptr = NoPtr THEN [ok |-> FALSE, ptr |-> NoPtr, sp |-> NoPtr, mem |-> blob.mem]
               ELSE create_task(blob.mem, refused)
  IN  [ok |-> stack.ok, mem |-> stack.mem,
       got |-> [tcb |-> tcb.ptr, blob |-> blob.ptr, stack |-> stack.ptr, sp |-> stack.sp]]

spawn_internal(n, f, refused) ==
  LET try   == Attempt(f, refused)
      taken == Cardinality({try.got.tcb, try.got.blob, try.got.stack} \ {NoPtr})
  IN  /\ stage[n] = "None" /\ (refused => arch = "Win32")
      /\ most' = Larger(most, Cardinality(Held(own)) + taken)
      /\ \/ /\ ~try.ok
            /\ mem' = GiveBack(try.mem, try.got.blob, try.got.tcb)
            /\ UNCHANGED <<own, stage>>
         \/ /\ try.ok
            /\ mem' = try.mem
            /\ own' = [own EXCEPT ![n] = try.got]
            /\ stage' = [stage EXCEPT ![n] = "Alive"]
      /\ UNCHANGED <<arch, pending>>

spawn_group_node(n) ==
  LET tcb == alloc(mem, TcbSize[arch], TcbAlign[arch])
  IN  /\ stage[n] = "None" /\ tcb.ptr # NoPtr
      /\ mem' = tcb.mem
      /\ own' = [own EXCEPT ![n].tcb = tcb.ptr]
      /\ stage' = [stage EXCEPT ![n] = "Alive"]
      /\ most' = Larger(most, Cardinality(Held(own')))
      /\ UNCHANGED <<arch, pending>>

\* push_pending_free, from exit_task.
push_pending_free(n) ==
  /\ stage[n] = "Alive"
  /\ stage' = [stage EXCEPT ![n] = "Dead"]
  /\ pending' = <<n>> \o pending
  /\ UNCHANGED <<arch, mem, own, most>>

\* One node of the list: closure_block, stack_base (both null for task 0),
\* and the TCB last.
FreeTask(m, n) == free(free(free(m, own[n].blob), own[n].stack), own[n].tcb)

\* The walk along the list, node by node: what it has freed, and the pinned
\* nodes it has put back.
Drained(pinned) ==
  LET after[k \in 0..Len(pending)] ==
        IF k = 0 THEN [mem |-> mem, kept |-> <<>>]
        ELSE IF pending[k] \in pinned
        THEN [mem |-> after[k - 1].mem, kept |-> <<pending[k]>> \o after[k - 1].kept]
        ELSE [mem |-> FreeTask(after[k - 1].mem, pending[k]), kept |-> after[k - 1].kept]
  IN  after[Len(pending)]

\* The whole list, in one section; Win32 pins one node at most.
reclaim_finished_tasks(pinned) ==
  LET freed == ToSet(pending) \ pinned
  IN  /\ freed # {}
      /\ pinned = {} \/ (arch = "Win32" /\ Cardinality(pinned) = 1 /\ pinned \subseteq ToSet(pending))
      /\ mem' = Drained(pinned).mem
      /\ own' = [n \in Nodes |-> IF n \in freed THEN Nothing ELSE own[n]]
      /\ stage' = [n \in Nodes |-> IF n \in freed THEN "None" ELSE stage[n]]
      /\ pending' = Drained(pinned).kept
      /\ UNCHANGED <<arch, most>>

MemoryNext ==
  \/ \E n \in Leaves, f \in Closures, refused \in BOOLEAN : spawn_internal(n, f, refused)
  \/ \E n \in Groups : spawn_group_node(n)
  \/ \E n \in Leaves \cup {"main"} : push_pending_free(n)
  \/ \E pinned \in SUBSET Leaves : reclaim_finished_tasks(pinned)

MemorySpec == MemoryInit /\ [][MemoryNext]_memory_vars

-----------------------------------------------------------------------------
Headers == DOMAIN mem.total
HeaderOf(p) == mem.slot[p - Slot]
Extent(h) == h..h + mem.total[h] - 1

\* Every variable keeps its type.
MemoryTypeOK ==
  /\ arch \in Builds
  /\ mem.bump \in 0..Region /\ mem.live \in Nat /\ mem.free \in Seq(Headers)
  /\ DOMAIN mem.size = Headers /\ Headers \subseteq Base..Base + Region - 1
  /\ own \in [Nodes -> [blob : Nat, stack : Nat, sp : Nat, tcb : Nat]]
  /\ stage \in [Nodes -> {"None", "Alive", "Dead"}]
  /\ pending \in Seq(Nodes) /\ most \in Nat

\* Whatever was allocated, freed and reused in whatever order, every TCB, blob
\* and stack lies inside a block of its own, clear of that block's header and
\* of every other block; stacks are aligned, and a first frame lies in its stack.
HoldsApart ==
  /\ MemoryTypeOK
  /\ \A h \in Headers : Extent(h) \subseteq Base..Base + mem.bump - 1
  /\ \A h, g \in Headers : h # g => Extent(h) \cap Extent(g) = {}
  /\ \A p \in Held(own) :
       LET h == HeaderOf(p)
       IN  h \in Headers /\ h + Hdr <= p - Slot /\ p..p + mem.size[h] - 1 \subseteq Extent(h)
  /\ \A p, q \in Held(own) : HeaderOf(p) = HeaderOf(q) => p = q
  /\ \A n \in Nodes :
       own[n].stack # NoPtr =>
         /\ own[n].stack % Align[arch] = 0
         /\ own[n].stack <= own[n].sp
         /\ own[n].sp + Frame[arch] <= own[n].stack + StackSize

\* Every block carved is held by one node or on the free list once: also when
\* a spawn failed half-way, and when reclamation left a pinned task for later.
NothingLeaked ==
  /\ \A i, j \in DOMAIN mem.free : mem.free[i] = mem.free[j] => i = j
  /\ ToSet(mem.free) \cap {HeaderOf(p) : p \in Held(own)} = {}
  /\ Headers = ToSet(mem.free) \cup {HeaderOf(p) : p \in Held(own)}

\* What stats reports: live_bytes is what the live tasks asked for, and
\* free_blocks what is carved and not held.
StatsExact ==
  /\ stats(mem).live_bytes = MapThenSumSet(LAMBDA p : mem.size[HeaderOf(p)], Held(own))
  /\ stats(mem).free_blocks = Cardinality(Headers) - Cardinality(Held(own))
  /\ stats(mem).bytes_bump <= Region

\* The arena's account of its memory is exact.
MemoryAccounted == NothingLeaked /\ StatsExact

\* What the kernel asks the arena for.
Requests ==
  {[size |-> TcbSize[arch], align |-> TcbAlign[arch]]}
    \cup {[size |-> block_size_for(f), align |-> block_align_for(f)] : f \in Closures}
    \cup (IF arch = "Win32" THEN {} ELSE {[size |-> StackSize, align |-> Align[arch]]})

\* Whether the payload of a block may lie right behind its pointer slot.
Serves(h, align) == payload_of(h, align) = h + Hdr + Slot

\* The blocks as large as r asks for that serve r's alignment, and none that
\* is stronger and asked for with the same size.
BlocksFor(m, r) ==
  {h \in DOMAIN m.total :
     /\ m.total[h] = Hdr + Slot + r.size
     /\ Serves(h, r.align)
     /\ \A q \in Requests : q.size = r.size /\ q.align > r.align => ~Serves(h, q.align)}

\* Spawning and exiting for ever stops carving: for each size and alignment
\* asked for, no more blocks are carved than allocations were ever live at
\* once, though a TCB, a closure and a stack of one size may find free blocks
\* of that size that do not suit their alignment.  It is a bound per size.  A
\* small request may take a large block whole, so that a region which held
\* some tasks once need not hold them again, whatever arena.rs:36-39 says.
CarvingEnds == \A r \in Requests : Cardinality(BlocksFor(mem, r)) <= most
=============================================================================
