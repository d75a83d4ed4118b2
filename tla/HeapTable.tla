----------------------------- MODULE HeapTable ------------------------------
(***************************************************************************)
(* What kernel/memory.c keeps of the heap, a bitmap of used pages and a    *)
(* table of the blocks that are out, and the searches that kmalloc and     *)
(* kfree make in them.  Heap takes a call as one step, HeapRace one store  *)
(* to shared memory.                                                       *)
(***************************************************************************)
EXTENDS Integers

CONSTANTS
  TOTAL_PAGES,      \* pages of heap[] (1024 in the code)
  MAX_ALLOCATIONS,  \* entries of allocations[] (128)
  WORD              \* uint32_t counts modulo this (2^32)

ASSUME HeapTableAssumption ==
  /\ TOTAL_PAGES \in Nat \ {0} /\ MAX_ALLOCATIONS \in Nat \ {0}
  /\ WORD \in Nat /\ WORD > TOTAL_PAGES

VARIABLES page_bitmap,      \* the pages whose bit is set
          allocations, allocated_pages

heap == <<page_bitmap, allocations, allocated_pages>>

Pages == 0..(TOTAL_PAGES - 1)
Slots == 0..(MAX_ALLOCATIONS - 1)

Free == [start_page |-> 0, page_count |-> 0, used |-> FALSE]

(* The heap at boot: variables without an initial value are zero.          *)
HeapClean == /\ page_bitmap = {} /\ allocated_pages = 0
             /\ allocations = [i \in Slots |-> Free]

Run(start, n) == start..(start + n - 1)

IsFirst(i, S) == i \in S /\ \A j \in S : i <= j

(* The places where n free pages fit.                                      *)
Fits(n) == {start \in Pages : /\ n > 0
                              /\ start + n <= TOTAL_PAGES
                              /\ Run(start, n) \cap page_bitmap = {}}

(* Mutant: the table entry is taken without looking at used.               *)
FreeSlots_Any == Slots

FreeSlots == {i \in Slots : ~allocations[i].used}

Holders(page) == {i \in Slots : allocations[i].used /\ allocations[i].start_page = page}
=============================================================================
