------------------------------- MODULE Arena -------------------------------
(***************************************************************************)
(* The kernel's allocator (arena.rs): memory is carved low to high, freed  *)
(* blocks go on a LIFO list and are reused first-fit, whole.  Addresses    *)
(* and sizes are counted in words.  Every operator is the body of one      *)
(* method, called with the critical section held.                          *)
(***************************************************************************)
EXTENDS Integers, Sequences, FiniteSets, SequencesExt, FiniteSetsExt

CONSTANTS
  Base,   \* the address of the region, at least 1: 0 is the null pointer
  Region, \* its length
  Hdr,    \* HDR_SIZE
  Slot    \* PTR_SLOT, the word below the payload that points to the header

ASSUME ArenaAssumption == Base \in Nat \ {0} /\ Region \in Nat /\ Hdr \in Nat /\ Slot \in Nat \ {0}

NoPtr == 0

align_up(v, align) == ((v + align - 1) \div align) * align

\* Where a block's payload would land.
payload_of(hdr, align) == align_up(hdr + Hdr + Slot, align)

\* bump; for each header total and payload_size; the word below each payload;
\* the free list, its head first; live.
Fresh == [bump |-> 0, total |-> <<>>, size |-> <<>>, slot |-> <<>>, free |-> <<>>, live |-> 0]

With(f, x, y) == [z \in DOMAIN f \cup {x} |-> IF z = x THEN y ELSE f[z]]

Fits_less(m, hdr, size, align) == payload_of(hdr, align) + size < hdr + m.total[hdr]
Fits(m, hdr, size, align) == payload_of(hdr, align) + size <= hdr + m.total[hdr]

Recycled(m, i, size, align) ==
  LET hdr == m.free[i]
      p   == payload_of(hdr, align)
  IN  [ptr |-> p,
       mem |-> [m EXCEPT !.free = RemoveAt(@, i), !.slot = With(@, p - Slot, hdr),
                         !.size = With(@, hdr, size), !.live = @ + size]]

Carved_over(m, size, align) ==
  LET p    == align_up(Base + m.bump + Slot, align)
      hdr  == Base + m.bump
      used == p + size - Base
  IN  IF used > Region THEN [ptr |-> NoPtr, mem |-> m]
      ELSE [ptr |-> p,
            mem |-> [m EXCEPT !.bump = used, !.total = With(@, hdr, p + size - hdr),
                              !.size = With(@, hdr, size), !.slot = With(@, p - Slot, hdr),
                              !.live = @ + size]]
Carved(m, size, align) ==
  LET p    == align_up(Base + m.bump + Hdr + Slot, align)
      hdr  == p - Slot - Hdr
      used == p + size - Base
  IN  IF used > Region THEN [ptr |-> NoPtr, mem |-> m]
      ELSE [ptr |-> p,
            mem |-> [m EXCEPT !.bump = used, !.total = With(@, hdr, p + size - hdr),
                              !.size = With(@, hdr, size), !.slot = With(@, p - Slot, hdr),
                              !.live = @ + size]]

\* stats: the figures kept here; the walk of the free list gives its length.
stats(m) == [bytes_bump |-> m.bump, live_bytes |-> m.live, free_blocks |-> Len(m.free)]

\* alloc: the payload, or NoPtr, and the arena after it.
alloc(m, size, align) ==
  LET fit == {i \in DOMAIN m.free : Fits(m, m.free[i], size, align)}
  IN  IF fit # {} THEN Recycled(m, Min(fit), size, align) ELSE Carved(m, size, align)

\* free: the null pointer and a payload freed already are ignored.
free(m, p) ==
  LET hdr == m.slot[p - Slot]
  IN  IF p = NoPtr \/ hdr = NoPtr THEN m
      ELSE [m EXCEPT !.free = <<hdr>> \o @, !.slot = With(@, p - Slot, NoPtr),
                     !.live = IF @ >= m.size[hdr] THEN @ - m.size[hdr] ELSE 0]
=============================================================================
