------------------------------ MODULE UserHeap ------------------------------
(***************************************************************************)
(* malloc and free of user programs: user/umalloc.c.                       *)
(*                                                                         *)
(* An address counts in units of a Header.  heap holds the headers as they *)
(* lie in memory and freep.  base, the empty block that is always on the   *)
(* ring, is a variable of the program and lies below everything sbrk       *)
(* returns.  The program may move the break itself between the calls.      *)
(***************************************************************************)
EXTENDS Integers, FiniteSets

CONSTANTS
  HEADER,       \* sizeof(Header)
  MinUnits,     \* the least morecore asks of sbrk (4096)
  Requests,     \* arguments of malloc, in bytes, small enough for the int of sbrk
  MaxBrk,       \* bound: the break
  MaxHeapCalls  \* bound: calls made

ASSUME HeapAssumption ==
  /\ {HEADER, MinUnits} \subseteq Nat \ {0} /\ {MaxBrk, MaxHeapCalls} \subseteq Nat
  /\ Requests \subseteq Nat

NULL == 0
base == 1
HeapStart == 3
Addrs == 0 .. MaxBrk

VARIABLES
  heap,      \* ptr and size of the header at each address; freep
  brk,       \* where sbrk continues
  core,      \* units obtained from sbrk
  held,      \* blocks the program holds: address of the header, bytes asked for
  hcalls

heapVars == <<heap, brk, core, held, hcalls>>

(* The place in the ring where free inserts bp, searched from freep.       *)
RECURSIVE Place(_, _, _)
Place(h, p, bp) ==
  LET n == h.ptr[p] IN
  IF (bp > p /\ bp < n) \/ (p >= n /\ (bp > p \/ bp < n)) THEN p ELSE Place(h, n, bp)

(* Mutant of free: a block is not joined to the one below it.              *)
NoMergeDown(h, bp) ==
  LET p == Place(h, h.freep, bp)
      n == h.ptr[p]
      up == bp + h.size[bp] = n
  IN [h EXCEPT !.size[bp] = IF up THEN @ + h.size[n] ELSE @,
               !.ptr = [@ EXCEPT ![bp] = IF up THEN h.ptr[n] ELSE n, ![p] = bp],
               !.freep = p]

free(h, bp) ==
  LET p == Place(h, h.freep, bp)
      n == h.ptr[p]
      up == bp + h.size[bp] = n
      size == IF up THEN h.size[bp] + h.size[n] ELSE h.size[bp]
      next == IF up THEN h.ptr[n] ELSE n
      h1 == [h EXCEPT !.size[bp] = size, !.ptr[bp] = next, !.freep = p]
  IN IF p + h.size[p] = bp THEN [h1 EXCEPT !.size[p] = @ + size, !.ptr[p] = next]
     ELSE [h1 EXCEPT !.ptr[p] = bp]

morecore(h, nu, at) == free([h EXCEPT !.size[at] = nu], at)

(* The search of malloc from prevp on, at most once around the ring, and   *)
(* what it does to the block it finds.                                     *)
RECURSIVE Search(_, _, _)
Search(h, prevp, nunits) ==
  LET p == h.ptr[prevp] IN
  IF h.size[p] >= nunits THEN [prevp |-> prevp, p |-> p]
  ELSE IF p = h.freep THEN [prevp |-> NULL, p |-> NULL]
  ELSE Search(h, p, nunits)

Take(h, found, nunits) ==
  LET p == found.p
      rest == h.size[p] - nunits
      at == p + rest
  IN [at |-> at,
      heap |-> [h EXCEPT !.freep = found.prevp,
                         !.ptr = IF rest = 0 THEN [@ EXCEPT ![found.prevp] = h.ptr[p]] ELSE @,
                         !.size = IF rest = 0 THEN @ ELSE [@ EXCEPT ![p] = rest, ![at] = nunits]]]

Started(h) == IF h.freep # NULL THEN h
              ELSE [h EXCEPT !.ptr[base] = base, !.size[base] = 0, !.freep = base]

Units(nbytes) == (nbytes + HEADER - 1) \div HEADER + 1

(* sbrk may fail.  With its memory in the ring the search finds a block.   *)
malloc(nbytes) ==
  LET n == Units(nbytes)
      h == Started(heap)
      found == Search(h, h.freep, n)
      nu == IF n < MinUnits THEN MinUnits ELSE n
      h2 == morecore(h, nu, brk)
      Give(t) == heap' = t.heap /\ held' = held \cup {[at |-> t.at, bytes |-> nbytes]}
  IN
  /\ hcalls < MaxHeapCalls /\ hcalls' = hcalls + 1
  /\ IF found.p # NULL
       THEN Give(Take(h, found, n)) /\ UNCHANGED <<brk, core>>
       ELSE \/ heap' = h /\ UNCHANGED <<brk, core, held>>
            \/ /\ brk + nu <= MaxBrk /\ brk' = brk + nu /\ core' = core \cup (brk .. brk + nu - 1)
               /\ Give(Take(h2, Search(h2, h2.freep, n), n))

FreeBlock(b) ==
  /\ hcalls < MaxHeapCalls /\ hcalls' = hcalls + 1
  /\ heap' = free(heap, b.at) /\ held' = held \ {b} /\ UNCHANGED <<brk, core>>

(* The program extends its memory by itself.                               *)
OwnSbrk == brk < MaxBrk /\ brk' = brk + 1 /\ hcalls < MaxHeapCalls /\ hcalls' = hcalls + 1
           /\ UNCHANGED <<heap, core, held>>

HeapInit ==
  /\ heap = [ptr |-> [a \in Addrs |-> NULL], size |-> [a \in Addrs |-> 0], freep |-> NULL]
  /\ brk = HeapStart /\ core = {} /\ held = {} /\ hcalls = 0

HeapNext == (\E n \in Requests : malloc(n)) \/ (\E b \in held : FreeBlock(b)) \/ OwnSbrk

HeapSpec == HeapInit /\ [][HeapNext]_heapVars

----------------------------------------------------------------------------
(* The blocks on the ring, from freep around.                              *)
RECURSIVE Ring(_, _)
Ring(p, seen) == IF p \in seen THEN seen ELSE Ring(heap.ptr[p], seen \cup {p})
FreeBlocks == IF heap.freep = NULL THEN {} ELSE Ring(heap.freep, {}) \ {base}
Body(a) == a .. a + heap.size[a] - 1

(* Every unit obtained from sbrk lies in exactly one block, free or held,  *)
(* after any calls in any order; so no two blocks overlap and none is      *)
(* lost.  A held block has room for its header and the bytes asked for.    *)
(* The ring goes up through the addresses and turns back once, at base,    *)
(* and two free blocks that touch are one block: without that the search   *)
(* of free would not end, and memory once cut up could not be used again.  *)
HeapSound ==
  LET blocks == FreeBlocks \cup {b.at : b \in held} IN
  /\ UNION {Body(a) : a \in blocks} = core
  /\ \A a, b \in blocks : a # b => Body(a) \cap Body(b) = {}
  /\ Cardinality({b.at : b \in held}) = Cardinality(held)
  /\ FreeBlocks \cap {b.at : b \in held} = {}
  /\ \A b \in held : (heap.size[b.at] - 1) * HEADER >= b.bytes
  /\ heap.freep # NULL =>
       /\ \A p \in FreeBlocks \cup {base} : heap.ptr[p] = base \/ heap.ptr[p] > p
       /\ \A p, q \in FreeBlocks : p + heap.size[p] # q
=============================================================================
