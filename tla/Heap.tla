-------------------------------- MODULE Heap --------------------------------
(***************************************************************************)
(* The kernel heap (kernel/memory.c): whole pages handed out first fit,    *)
(* a bitmap of used pages and a table of the blocks that are out.  Each    *)
(* call is one step: a user who waits for the prompt has one command, and  *)
(* so one call, under way at a time.                                       *)
(***************************************************************************)
EXTENDS HeapTable, FiniteSets

CONSTANTS
  PAGE_SIZE,        \* bytes (4096)
  Sizes,            \* sizes asked of kmalloc
  Offsets           \* addresses given to kfree, relative to heap[]

ASSUME HeapAssumption ==
  /\ PAGE_SIZE \in Nat \ {0}
  /\ TOTAL_PAGES * PAGE_SIZE < WORD
  /\ Sizes \subseteq 0..(WORD - 1)
  /\ Offsets \subseteq Int

vars == heap

Init == HeapClean

-----------------------------------------------------------------------------
(* The search of find_free_pages.                                          *)

(* Mutant: the count is not reset at a used page.                          *)
FreeRun_NoReset ==
  LET run[i \in 0..TOTAL_PAGES] ==
        IF i = 0 THEN 0
        ELSE IF i - 1 \in page_bitmap THEN run[i - 1]
        ELSE run[i - 1] + 1
  IN run

(* FreeRun[i]: the loop's count after looking at page i - 1.               *)
FreeRun ==
  LET run[i \in 0..TOTAL_PAGES] ==
        IF i = 0 \/ i - 1 \in page_bitmap THEN 0 ELSE run[i - 1] + 1
  IN run

(* The pages at which the loop would return for a request of n pages, and  *)
(* the one it does return; count is compared after it was incremented, so  *)
(* a request of 0 pages never matches.                                     *)
Hits(n) == {i - n : i \in {k \in 1..TOTAL_PAGES : n > 0 /\ FreeRun[k] = n}}

find_free_pages(n) == IF Hits(n) = {} THEN -1
                      ELSE CHOOSE start \in Hits(n) : IsFirst(start, Hits(n))

-----------------------------------------------------------------------------
(* The size rounded up to pages; uint32_t arithmetic wraps.                *)
PagesFor(size) == ((size + PAGE_SIZE - 1) % WORD) \div PAGE_SIZE

(* kmalloc takes the first place that fits and the first free table entry, *)
(* and changes nothing when there is none.                                 *)
kmalloc(size) ==
  LET pages == PagesFor(size)
  IN \/ /\ size = 0 \/ Fits(pages) = {} \/ FreeSlots = {}
        /\ UNCHANGED vars
     \/ /\ size # 0
        /\ \E start \in Fits(pages), slot \in FreeSlots :
             /\ IsFirst(start, Fits(pages))
             /\ IsFirst(slot, FreeSlots)
             /\ page_bitmap' = page_bitmap \cup Run(start, pages)
             /\ allocations' = [allocations EXCEPT ![slot] =
                                  [start_page |-> start, page_count |-> pages, used |-> TRUE]]
             /\ allocated_pages' = allocated_pages + pages

(* Mutant: the entry is not cleared.                                       *)
kfree_KeepsEntry(offset) ==
  LET page == offset \div PAGE_SIZE
  IN /\ offset \in 0..(TOTAL_PAGES * PAGE_SIZE - 1)
     /\ offset % PAGE_SIZE = 0
     /\ \E slot \in Holders(page) :
          /\ IsFirst(slot, Holders(page))
          /\ page_bitmap' = page_bitmap \ Run(page, allocations[slot].page_count)
          /\ allocated_pages' = allocated_pages - allocations[slot].page_count
          /\ UNCHANGED allocations

(* kfree ignores every address that is not the first byte of a block that  *)
(* is out: NULL and addresses outside the heap, inside a page, inside a    *)
(* block, already freed.                                                   *)
kfree(offset) ==
  LET page == offset \div PAGE_SIZE
  IN \/ /\ \/ offset < 0
           \/ offset >= TOTAL_PAGES * PAGE_SIZE
           \/ offset % PAGE_SIZE # 0
           \/ Holders(page) = {}
        /\ UNCHANGED vars
     \/ /\ offset \in 0..(TOTAL_PAGES * PAGE_SIZE - 1)
        /\ offset % PAGE_SIZE = 0
        /\ \E slot \in Holders(page) :
             /\ IsFirst(slot, Holders(page))
             /\ page_bitmap' = page_bitmap \ Run(page, allocations[slot].page_count)
             /\ allocated_pages' = allocated_pages - allocations[slot].page_count
             /\ allocations' = [allocations EXCEPT ![slot] = Free]

Next == \/ \E size \in Sizes : kmalloc(size)
        \/ \E offset \in Offsets : kfree(offset)

Spec == Init /\ [][Next]_vars

-----------------------------------------------------------------------------
(* Properties.                                                             *)

Entry == [start_page : Nat, page_count : Nat, used : BOOLEAN]

(* Every variable has its type.                                            *)
TypeOK == /\ page_bitmap \subseteq Pages
          /\ allocations \in [Slots -> Entry]
          /\ allocated_pages \in Nat

Used == {i \in Slots : allocations[i].used}

BlockOf(i) == Run(allocations[i].start_page, allocations[i].page_count)

(* Blocks that are out lie inside the heap and never share a page.         *)
BlocksDisjoint ==
  /\ \A i \in Used : /\ allocations[i].page_count > 0
                     /\ allocations[i].start_page + allocations[i].page_count <= TOTAL_PAGES
  /\ \A i, j \in Used : i # j => BlockOf(i) \cap BlockOf(j) = {}

(* The bitmap marks exactly the pages of the blocks that are out: no page  *)
(* leaks and none is handed out twice.                                     *)
BitmapExact == \A p \in Pages : p \in page_bitmap <=> \E i \in Used : p \in BlockOf(i)

(* meminfo's count is the number of marked pages.                          *)
Accounting == allocated_pages = Cardinality(page_bitmap)

(* What every call finds and leaves: blocks that are out never overlap,    *)
(* the bitmap and the count say exactly which pages they take, and no page *)
(* leaks, so that a later kmalloc can trust the bitmap alone.              *)
HeapInv == TypeOK /\ BlocksDisjoint /\ BitmapExact /\ Accounting

(* The loop of find_free_pages returns the first place that fits.          *)
LoopFindsFirstFit ==
  \A n \in 0..(TOTAL_PAGES + 1) :
    IF Fits(n) = {} THEN find_free_pages(n) = -1
                    ELSE IsFirst(find_free_pages(n), Fits(n))

(* A block that is out is neither moved nor resized by any later call.     *)
BlocksStable ==
  [][\A i \in Used : allocations'[i] \in {allocations[i], Free}]_vars

(* A block handed out has room for the size asked for, for every size a    *)
(* uint32_t can hold.                                                      *)
SizeServed ==
  [][\A size \in Sizes : kmalloc(size) =>
       \A i \in FreeSlots : allocations'[i].used =>
         allocations'[i].page_count * PAGE_SIZE >= size]_vars

(* The table implements the pool of disjoint blocks.                       *)
AsBlock(i) == [start |-> allocations[i].start_page, count |-> allocations[i].page_count]

Pool == INSTANCE BlockPool
          WITH PoolPages <- TOTAL_PAGES, blocks <- {AsBlock(i) : i \in Used}

PoolSpec == Pool!Spec
=============================================================================
