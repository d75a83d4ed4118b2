----------------------------- MODULE HeapProofs -----------------------------
(***************************************************************************)
(* Theorems about Heap, for every heap size, table size, page size and     *)
(* word size, and every sequence of calls; and about HeapRace, for every   *)
(* order of the stores of the calls that its commands make.                *)
(***************************************************************************)
EXTENDS Heap, HeapRace, FiniteSetTheorems, WellFoundedInduction, TLAPS

LEMMA RunSize ==
  ASSUME NEW a \in Nat, NEW n \in Nat
  PROVE  IsFiniteSet(Run(a, n)) /\ Cardinality(Run(a, n)) = n
<1>1. a + n - 1 \in Int /\ a \in Int
  OBVIOUS
<1>2. IsFiniteSet(Run(a, n))
  BY <1>1, FS_Interval DEF Run
<1>3. Cardinality(Run(a, n)) = IF a > a + n - 1 THEN 0 ELSE (a + n - 1) - a + 1
  BY <1>1, FS_Interval DEF Run
<1> QED BY <1>2, <1>3

LEMMA BitmapFinite == ASSUME TypeOK PROVE IsFiniteSet(page_bitmap)
<1>1. IsFiniteSet(Pages)
  BY HeapTableAssumption, FS_Interval DEF Pages
<1> QED BY <1>1, FS_Subset DEF TypeOK

LEMMA HeapInit == Init => HeapInv
<1> SUFFICES ASSUME Init PROVE HeapInv
  OBVIOUS
<1>1. Used = {}
  BY DEF Init, HeapClean, Used, Free, Slots
<1>2. TypeOK
  BY DEF Init, HeapClean, TypeOK, Entry, Free, Slots
<1>3. Accounting
  BY FS_EmptySet DEF Init, HeapClean, Accounting
<1> QED BY <1>1, <1>2, <1>3 DEF HeapInv, BlocksDisjoint, BitmapExact, Init, HeapClean

(* A call that hands out n pages at a place where they fit.                *)
LEMMA HeapAlloc ==
  ASSUME HeapInv, NEW n \in Nat, NEW start \in Fits(n), NEW slot \in FreeSlots,
         page_bitmap' = page_bitmap \cup Run(start, n),
         allocations' = [allocations EXCEPT ![slot] =
                           [start_page |-> start, page_count |-> n, used |-> TRUE]],
         allocated_pages' = allocated_pages + n
  PROVE  HeapInv'
<1>1. /\ start \in Nat /\ n > 0 /\ start + n <= TOTAL_PAGES
      /\ Run(start, n) \cap page_bitmap = {}
      /\ Run(start, n) \subseteq Pages
  BY HeapTableAssumption DEF Fits, Pages, Run
<1>2. slot \in Slots /\ slot \notin Used
  BY DEF FreeSlots, Used
<1>3. TypeOK'
  BY <1>1, <1>2 DEF HeapInv, TypeOK, Entry
<1>4. Used' = Used \cup {slot}
  BY <1>2 DEF Used, HeapInv, TypeOK
<1>5. BlockOf(slot)' = Run(start, n) /\ \A i \in Used : BlockOf(i)' = BlockOf(i)
  BY <1>2 DEF BlockOf, Used, HeapInv, TypeOK
<1>6. \A i \in Used : BlockOf(i) \subseteq page_bitmap
  <2> SUFFICES ASSUME NEW i \in Used, NEW p \in BlockOf(i) PROVE p \in page_bitmap
    OBVIOUS
  <2>1. p \in Pages
    BY HeapTableAssumption DEF HeapInv, BlocksDisjoint, BlockOf, Run, Pages, Used, TypeOK, Entry
  <2> QED BY <2>1 DEF HeapInv, BitmapExact
<1>7. BlocksDisjoint'
  <2>1. \A i \in Used' : /\ allocations'[i].page_count > 0
                         /\ allocations'[i].start_page + allocations'[i].page_count
                              <= TOTAL_PAGES
    <3> SUFFICES ASSUME NEW i \in Used'
                 PROVE  /\ allocations'[i].page_count > 0
                        /\ allocations'[i].start_page + allocations'[i].page_count
                             <= TOTAL_PAGES
      OBVIOUS
    <3>1. CASE i = slot
      BY <3>1, <1>1, <1>2 DEF HeapInv, TypeOK
    <3>2. CASE i \in Used
      BY <3>2, <1>2 DEF HeapInv, TypeOK, BlocksDisjoint, Used
    <3> QED BY <1>4, <3>1, <3>2
  <2>2. \A i, j \in Used' : i # j => BlockOf(i)' \cap BlockOf(j)' = {}
    <3> SUFFICES ASSUME NEW i \in Used', NEW j \in Used', i # j
                 PROVE  BlockOf(i)' \cap BlockOf(j)' = {}
      OBVIOUS
    <3>1. CASE i \in Used /\ j \in Used
      BY <3>1, <1>5 DEF HeapInv, BlocksDisjoint
    <3>2. CASE i = slot /\ j \in Used
      BY <3>2, <1>1, <1>5, <1>6
    <3>3. CASE i \in Used /\ j = slot
      BY <3>3, <1>1, <1>5, <1>6
    <3> QED BY <1>4, <3>1, <3>2, <3>3
  <2> QED BY <2>1, <2>2 DEF BlocksDisjoint
<1>8. BitmapExact'
  BY <1>1, <1>2, <1>4, <1>5 DEF HeapInv, BitmapExact
<1>9. Accounting'
  <2>1. IsFiniteSet(Run(start, n)) /\ Cardinality(Run(start, n)) = n
    BY <1>1, RunSize
  <2>2. IsFiniteSet(page_bitmap)
    BY BitmapFinite DEF HeapInv
  <2>3. Cardinality(page_bitmap \cap Run(start, n)) = 0
    BY <1>1, FS_EmptySet
  <2>4. Cardinality(page_bitmap \cup Run(start, n))
          = Cardinality(page_bitmap) + Cardinality(Run(start, n))
              - Cardinality(page_bitmap \cap Run(start, n))
    BY <2>1, <2>2, FS_Union
  <2>5. Cardinality(page_bitmap) \in Nat
    BY <2>2, FS_CardinalityType
  <2> QED BY <2>1, <2>3, <2>4, <2>5 DEF HeapInv, Accounting
<1> QED BY <1>3, <1>7, <1>8, <1>9 DEF HeapInv

(* A call that takes back the block of a used entry.                       *)
LEMMA HeapFree ==
  ASSUME HeapInv, NEW slot \in Used,
         page_bitmap' = page_bitmap \ BlockOf(slot),
         allocated_pages' = allocated_pages - allocations[slot].page_count,
         allocations' = [allocations EXCEPT ![slot] = Free]
  PROVE  HeapInv'
<1>1. slot \in Slots /\ allocations[slot].used /\ allocations[slot] \in Entry
  BY DEF Used, HeapInv, TypeOK
<1>2. Used' = Used \ {slot}
  BY <1>1 DEF Used, HeapInv, TypeOK, Free
<1>3. \A i \in Used \ {slot} : allocations'[i] = allocations[i] /\ BlockOf(i)' = BlockOf(i)
  BY <1>1 DEF BlockOf, Used, HeapInv, TypeOK
<1>4. BlockOf(slot) \subseteq page_bitmap
  <2> SUFFICES ASSUME NEW p \in BlockOf(slot) PROVE p \in page_bitmap
    OBVIOUS
  <2>1. p \in Pages
    BY HeapTableAssumption, <1>1 DEF HeapInv, BlocksDisjoint, BlockOf, Run, Pages, Entry
  <2> QED BY <2>1 DEF HeapInv, BitmapExact
<1>5. Accounting' /\ allocated_pages' \in Nat
  <2>1. IsFiniteSet(BlockOf(slot)) /\ Cardinality(BlockOf(slot)) = allocations[slot].page_count
    BY <1>1, RunSize DEF BlockOf, Entry
  <2>2. IsFiniteSet(page_bitmap)
    BY BitmapFinite DEF HeapInv
  <2>3. Cardinality(page_bitmap \ BlockOf(slot))
          = Cardinality(page_bitmap) - Cardinality(page_bitmap \cap BlockOf(slot))
    BY <2>2, FS_Difference
  <2>4. page_bitmap \cap BlockOf(slot) = BlockOf(slot)
    BY <1>4
  <2>5. IsFiniteSet(page_bitmap') /\ Cardinality(page_bitmap') \in Nat
    BY <2>2, FS_Difference, FS_CardinalityType
  <2> QED BY <2>1, <2>3, <2>4, <2>5 DEF HeapInv, Accounting
<1>6. TypeOK'
  BY <1>1, <1>5 DEF HeapInv, TypeOK, Entry, Free
<1>7. BlocksDisjoint'
  BY <1>2, <1>3 DEF HeapInv, BlocksDisjoint
<1>8. BitmapExact'
  <2> SUFFICES ASSUME NEW p \in Pages
               PROVE  p \in page_bitmap' <=> \E i \in Used' : p \in BlockOf(i)'
    BY DEF BitmapExact
  <2>1. p \in page_bitmap <=> \E i \in Used : p \in BlockOf(i)
    BY DEF HeapInv, BitmapExact
  <2>2. \A i \in Used \ {slot} : BlockOf(i) \cap BlockOf(slot) = {}
    BY DEF HeapInv, BlocksDisjoint
  <2> QED BY <1>2, <1>3, <2>1, <2>2
<1> QED BY <1>5, <1>6, <1>7, <1>8 DEF HeapInv

LEMMA PagesForType == \A size \in Sizes : PagesFor(size) \in Nat
<1> SUFFICES ASSUME NEW size \in Sizes PROVE PagesFor(size) \in Nat
  OBVIOUS
<1>1. size \in Nat /\ (size + PAGE_SIZE - 1) % WORD \in Nat
  BY HeapAssumption, HeapTableAssumption
<1> QED BY <1>1, HeapAssumption, HeapTableAssumption DEF PagesFor

LEMMA HeapStep == HeapInv /\ [Next]_vars => HeapInv'
<1> SUFFICES ASSUME HeapInv, [Next]_vars PROVE HeapInv'
  OBVIOUS
<1>1. CASE UNCHANGED vars
  BY <1>1 DEF vars, heap, HeapInv, TypeOK, BlocksDisjoint, BitmapExact, Accounting, Used, BlockOf
<1>2. ASSUME NEW size \in Sizes, kmalloc(size) PROVE HeapInv'
  <2>1. CASE UNCHANGED vars
    BY <2>1, <1>1
  <2>2. CASE \E start \in Fits(PagesFor(size)), slot \in FreeSlots :
               /\ page_bitmap' = page_bitmap \cup Run(start, PagesFor(size))
               /\ allocations' = [allocations EXCEPT ![slot] =
                                    [start_page |-> start, page_count |-> PagesFor(size),
                                     used |-> TRUE]]
               /\ allocated_pages' = allocated_pages + PagesFor(size)
    BY <2>2, PagesForType, HeapAlloc
  <2> QED BY <1>2, <2>1, <2>2 DEF kmalloc
<1>3. ASSUME NEW offset \in Offsets, kfree(offset) PROVE HeapInv'
  <2> DEFINE page == offset \div PAGE_SIZE
  <2>1. CASE UNCHANGED vars
    BY <2>1, <1>1
  <2>2. CASE \E slot \in Holders(page) :
               /\ page_bitmap' = page_bitmap \ Run(page, allocations[slot].page_count)
               /\ allocated_pages' = allocated_pages - allocations[slot].page_count
               /\ allocations' = [allocations EXCEPT ![slot] = Free]
    BY <2>2, HeapFree DEF Holders, Used, BlockOf
  <2> QED BY <1>3, <2>1, <2>2 DEF kfree
<1> QED BY <1>1, <1>2, <1>3 DEF Next

(* Whatever the sizes, the addresses and the order of the calls, blocks    *)
(* are disjoint, the bitmap marks exactly their pages and the count is the *)
(* number of marked pages.                                                 *)
THEOREM HeapInvariant == Spec => []HeapInv
BY HeapInit, HeapStep, PTL DEF Spec

(* The bitmap stays inside the heap, and the table and the count have      *)
(* their types.                                                            *)
THEOREM HeapTypeCorrect == Spec => []TypeOK
BY HeapInvariant, PTL DEF HeapInv

(* No two blocks that are out share a page, and none leaves the heap.      *)
THEOREM HeapBlocksDisjoint == Spec => []BlocksDisjoint
BY HeapInvariant, PTL DEF HeapInv

(* The bitmap is exactly the union of the blocks that are out.             *)
THEOREM HeapBitmapExact == Spec => []BitmapExact
BY HeapInvariant, PTL DEF HeapInv

(* The page count that meminfo shows is the number of pages in use.        *)
THEOREM HeapAccounting == Spec => []Accounting
BY HeapInvariant, PTL DEF HeapInv

-----------------------------------------------------------------------------
(* What one step does to the table.                                        *)
LEMMA TableStep ==
  ASSUME HeapInv, [Next]_vars
  PROVE  \/ UNCHANGED vars
         \/ \E n \in Nat : \E start \in Fits(n), slot \in FreeSlots :
              allocations' = [allocations EXCEPT ![slot] =
                                [start_page |-> start, page_count |-> n, used |-> TRUE]]
         \/ \E slot \in Used : allocations' = [allocations EXCEPT ![slot] = Free]
<1>1. ASSUME NEW size \in Sizes, kmalloc(size), ~ UNCHANGED vars
      PROVE  \E n \in Nat : \E start \in Fits(n), slot \in FreeSlots :
              allocations' = [allocations EXCEPT ![slot] =
                                [start_page |-> start, page_count |-> n, used |-> TRUE]]
  BY <1>1, PagesForType DEF kmalloc
<1>2. ASSUME NEW offset \in Offsets, kfree(offset), ~ UNCHANGED vars
      PROVE  \E slot \in Used : allocations' = [allocations EXCEPT ![slot] = Free]
  BY <1>2 DEF kfree, Holders, Used
<1> QED BY <1>1, <1>2 DEF Next

(* A block that is out is neither moved nor resized by any later call.     *)
THEOREM HeapBlocksStable == Spec => BlocksStable
<1>1. HeapInv /\ [Next]_vars => [\A i \in Used : allocations'[i] \in {allocations[i], Free}]_vars
  <2> SUFFICES ASSUME HeapInv, [Next]_vars, NEW i \in Used
               PROVE  UNCHANGED vars \/ allocations'[i] \in {allocations[i], Free}
    OBVIOUS
  <2>1. i \in Slots /\ allocations \in [Slots -> Entry] /\ i \notin FreeSlots
    BY DEF Used, FreeSlots, HeapInv, TypeOK
  <2> QED BY <2>1, TableStep
<1> QED BY <1>1, HeapInvariant, PTL DEF Spec, BlocksStable

(* The table of blocks implements the pool: whatever the sizes and the     *)
(* addresses, a call hands out a block disjoint from all others, takes one *)
(* back, or does nothing.                                                  *)
THEOREM HeapImplementsPool == Spec => PoolSpec
<1>1. Init => Pool!Init
  BY DEF Init, HeapClean, Pool!Init, Used, Free, Slots
<1>2. HeapInv /\ HeapInv' /\ [Next]_vars => [Pool!Next]_{AsBlock(i) : i \in Used}
  <2> SUFFICES ASSUME HeapInv, HeapInv', [Next]_vars
               PROVE  Pool!Next \/ UNCHANGED {AsBlock(i) : i \in Used}
    OBVIOUS
  <2>1. CASE UNCHANGED vars
    BY <2>1 DEF vars, heap, Used, AsBlock
  <2>2. ASSUME NEW n \in Nat, NEW start \in Fits(n), NEW slot \in FreeSlots,
               allocations' = [allocations EXCEPT ![slot] =
                                 [start_page |-> start, page_count |-> n, used |-> TRUE]]
        PROVE  Pool!Next
    <3> DEFINE b == [start |-> start, count |-> n]
    <3>1. slot \in Slots /\ slot \notin Used /\ Used' = Used \cup {slot}
      BY <2>2 DEF FreeSlots, Used, HeapInv, TypeOK
    <3>2. AsBlock(slot)' = b /\ \A i \in Used : AsBlock(i)' = AsBlock(i)
      BY <2>2, <3>1 DEF AsBlock, Used, HeapInv, TypeOK
    <3>3. {AsBlock(i) : i \in Used}' = {AsBlock(i) : i \in Used} \cup {b}
      BY <3>1, <3>2
    <3>4. /\ b \in [start : 0..TOTAL_PAGES, count : 1..TOTAL_PAGES]
          /\ b.count > 0 /\ b.start + b.count <= TOTAL_PAGES
      BY HeapTableAssumption DEF Fits, Pages
    <3>5. \A i \in Used : Pool!PagesOf(b) \cap Pool!PagesOf(AsBlock(i)) = {}
      <4> SUFFICES ASSUME NEW i \in Used
                   PROVE  Pool!PagesOf(b) \cap Pool!PagesOf(AsBlock(i)) = {}
        OBVIOUS
      <4>1. BlockOf(slot)' \cap BlockOf(i)' = {}
        BY <3>1 DEF HeapInv, BlocksDisjoint
      <4>2. BlockOf(slot)' = Pool!PagesOf(b)
        BY <2>2, <3>1 DEF BlockOf, Run, Pool!PagesOf, HeapInv, TypeOK
      <4>3. BlockOf(i)' = Pool!PagesOf(AsBlock(i))
        BY <2>2, <3>1 DEF BlockOf, Run, AsBlock, Pool!PagesOf, Used, HeapInv, TypeOK
      <4> QED BY <4>1, <4>2, <4>3
    <3>6. Pool!Alloc(b)
      BY <3>3, <3>4, <3>5 DEF Pool!Alloc
    <3> QED BY <3>4, <3>6 DEF Pool!Next
  <2>3. ASSUME NEW slot \in Used, allocations' = [allocations EXCEPT ![slot] = Free]
        PROVE  Pool!Next
    <3>1. slot \in Slots /\ Used' = Used \ {slot}
      BY <2>3 DEF Used, HeapInv, TypeOK, Free
    <3>2. \A i \in Used \ {slot} : AsBlock(i)' = AsBlock(i)
      BY <2>3, <3>1 DEF AsBlock, Used, HeapInv, TypeOK
    <3>3. \A i \in Used \ {slot} : AsBlock(i) # AsBlock(slot)
      <4> SUFFICES ASSUME NEW i \in Used \ {slot}, AsBlock(i) = AsBlock(slot) PROVE FALSE
        OBVIOUS
      <4>1. allocations[i].start_page \in BlockOf(i)
        BY DEF HeapInv, TypeOK, Entry, BlocksDisjoint, BlockOf, Run, Used
      <4>2. BlockOf(i) = BlockOf(slot)
        BY DEF AsBlock, BlockOf
      <4> QED BY <4>1, <4>2 DEF HeapInv, BlocksDisjoint
    <3>4. {AsBlock(i) : i \in Used}' = {AsBlock(i) : i \in Used} \ {AsBlock(slot)}
      BY <3>1, <3>2, <3>3
    <3> QED BY <3>4 DEF Pool!Next, Pool!Free
  <2> QED BY <2>1, <2>2, <2>3, TableStep
<1> QED BY <1>1, <1>2, HeapInvariant, PTL DEF Spec, PoolSpec, Pool!Spec

-----------------------------------------------------------------------------
(* The rounding of kmalloc, including where it wraps around the word.      *)

LEMMA DivBound ==
  ASSUME NEW x \in Nat, NEW p \in Nat \ {0}
  PROVE  (x \div p) * p > x - p /\ x \div p \in Nat
<1>1. x = p * (x \div p) + (x % p) /\ x % p \in 0..(p - 1) /\ x \div p \in Nat
  OBVIOUS
<1> QED BY <1>1

LEMMA DivSmall ==
  ASSUME NEW x \in Nat, NEW p \in Nat \ {0}, x < p
  PROVE  x \div p = 0
OBVIOUS

LEMMA ModOnce ==
  ASSUME NEW x \in Nat, NEW w \in Nat \ {0}, x < 2 * w
  PROVE  x % w = IF x < w THEN x ELSE x - w
<1>1. CASE x < w
  BY <1>1
<1>2. CASE x >= w
  BY <1>2
<1> QED BY <1>1, <1>2

LEMMA PageBelowWord == PAGE_SIZE < WORD
<1>1. PAGE_SIZE <= TOTAL_PAGES * PAGE_SIZE
  BY HeapAssumption, HeapTableAssumption
<1> QED BY <1>1, HeapAssumption, HeapTableAssumption

(* Either the rounding wrapped and asks for no page at all, which kmalloc  *)
(* refuses, or the pages hold the size.                                    *)
LEMMA RoundUp ==
  ASSUME NEW size \in Sizes
  PROVE  PagesFor(size) = 0 \/ PagesFor(size) * PAGE_SIZE >= size
<1> DEFINE x == size + PAGE_SIZE - 1
<1>1. /\ size \in Nat /\ size < WORD /\ x \in Nat /\ x < 2 * WORD
      /\ PAGE_SIZE \in Nat \ {0} /\ WORD \in Nat \ {0}
  BY HeapAssumption, HeapTableAssumption, PageBelowWord
<1>2. x % WORD = IF x < WORD THEN x ELSE x - WORD
  BY <1>1, ModOnce
<1>3. CASE x < WORD
  <2>1. PagesFor(size) = x \div PAGE_SIZE
    BY <1>2, <1>3 DEF PagesFor
  <2>2. (x \div PAGE_SIZE) * PAGE_SIZE > x - PAGE_SIZE /\ x \div PAGE_SIZE \in Nat
    BY <1>1, DivBound
  <2> QED BY <1>1, <2>1, <2>2
<1>4. CASE x >= WORD
  <2>1. x - WORD \in Nat /\ x - WORD < PAGE_SIZE
    BY <1>1, <1>4
  <2>2. (x - WORD) \div PAGE_SIZE = 0
    BY <1>1, <2>1, DivSmall
  <2> QED BY <1>1, <1>2, <1>4, <2>2 DEF PagesFor
<1> QED BY <1>1, <1>3, <1>4

(* Every block kmalloc hands out has room for the size it was asked for.   *)
THEOREM HeapSizeServed == Spec => SizeServed
<1>1. HeapInv /\ [Next]_vars =>
        [\A size \in Sizes : kmalloc(size) =>
           \A i \in FreeSlots : allocations'[i].used =>
             allocations'[i].page_count * PAGE_SIZE >= size]_vars
  <2> SUFFICES ASSUME HeapInv, NEW size \in Sizes, kmalloc(size), ~ UNCHANGED vars,
                      NEW i \in FreeSlots, allocations'[i].used
               PROVE  allocations'[i].page_count * PAGE_SIZE >= size
    OBVIOUS
  <2>1. PICK start \in Fits(PagesFor(size)), slot \in FreeSlots :
          allocations' = [allocations EXCEPT ![slot] =
                            [start_page |-> start, page_count |-> PagesFor(size),
                             used |-> TRUE]]
    BY DEF kmalloc
  <2>2. PagesFor(size) # 0
    BY DEF Fits
  <2>3. i = slot
    BY <2>1 DEF FreeSlots, HeapInv, TypeOK
  <2>4. allocations'[i].page_count = PagesFor(size)
    BY <2>1, <2>3 DEF FreeSlots, HeapInv, TypeOK
  <2> QED BY <2>2, <2>4, RoundUp
<1> QED BY <1>1, HeapInvariant, PTL DEF Spec, SizeServed

-----------------------------------------------------------------------------
(* Every nonempty set of natural numbers has a least element: induction,   *)
(* for what the loop of find_free_pages computes.                          *)
LEMMA LeastNumber ==
  ASSUME NEW T, T \subseteq Nat, T # {}
  PROVE  \E x \in T : \A y \in T : x <= y
<1> DEFINE R == OpToRel(<, Nat)
<1>1. IsWellFoundedOn(R, Nat)
  BY NatLessThanWellFounded
<1>2. \A x, y \in Nat : x < y => <<x, y>> \in R
  BY DEF OpToRel
<1> HIDE DEF R
<1>3. PICK x \in T : \A y \in T : ~(<<y, x>> \in R)
  BY <1>1, WFMin
<1>4. \A y \in T : ~(y < x)
  BY <1>2, <1>3
<1>5. x \in Nat /\ \A y \in T : y \in Nat
  BY <1>3
<1>6. \A y \in T : x <= y
  BY <1>4, <1>5
<1> QED BY <1>3, <1>6

(* The count after page i - 1: none at a used page, one more at a free one.*)
Counts(run, n) ==
  \A i \in 0..n : run[i] = IF i = 0 \/ i - 1 \in page_bitmap THEN 0 ELSE run[i - 1] + 1

LEMMA CountsUpTo ==
  ASSUME NEW n \in Nat
  PROVE  \E run \in [0..n -> Nat] : Counts(run, n)
<1> DEFINE P(k) == \E run \in [0..k -> Nat] : Counts(run, k)
           T == {k \in Nat : ~P(k)}
<1>1. P(0)
  <2> DEFINE run == [i \in 0..0 |-> 0]
  <2>1. run \in [0..0 -> Nat] /\ Counts(run, 0)
    BY DEF Counts
  <2> QED BY <2>1
<1>2. ASSUME NEW k \in Nat, P(k) PROVE P(k + 1)
  <2>1. PICK g \in [0..k -> Nat] : Counts(g, k)
    BY <1>2
  <2> DEFINE run == [i \in 0..(k + 1) |->
                      IF i <= k THEN g[i] ELSE IF k \in page_bitmap THEN 0 ELSE g[k] + 1]
  <2>2. run \in [0..(k + 1) -> Nat]
    OBVIOUS
  <2>3. \A i \in 0..k : run[i] = g[i]
    OBVIOUS
  <2>4. run[k + 1] = IF k \in page_bitmap THEN 0 ELSE g[k] + 1
    OBVIOUS
  <2> HIDE DEF run
  <2>5. ASSUME NEW i \in 0..(k + 1)
        PROVE  run[i] = IF i = 0 \/ i - 1 \in page_bitmap THEN 0 ELSE run[i - 1] + 1
    <3>1. CASE i \in 0..k
      <4>1. g[i] = IF i = 0 \/ i - 1 \in page_bitmap THEN 0 ELSE g[i - 1] + 1
        BY <2>1, <3>1 DEF Counts
      <4>2. i = 0 \/ i - 1 \in 0..k
        BY <3>1
      <4> QED BY <2>3, <3>1, <4>1, <4>2
    <3>2. CASE i = k + 1
      <4>1. i # 0 /\ i - 1 = k /\ k \in 0..k
        BY <3>2
      <4> QED BY <2>3, <2>4, <3>2, <4>1
    <3> QED BY <3>1, <3>2
  <2>6. Counts(run, k + 1)
    BY <2>5 DEF Counts
  <2> QED BY <2>2, <2>6
<1> HIDE DEF P
<1>3. T = {}
  <2> SUFFICES ASSUME T # {} PROVE FALSE
    OBVIOUS
  <2>1. PICK k \in T : \A j \in T : k <= j
    BY LeastNumber
  <2>2. k # 0
    BY <1>1, <2>1
  <2>3. k - 1 \in Nat /\ k - 1 \notin T
    BY <2>1, <2>2
  <2>4. P(k - 1) => P(k - 1 + 1)
    BY <1>2, <2>3
  <2>5. k - 1 + 1 = k
    BY <2>1
  <2> QED BY <2>1, <2>3, <2>4, <2>5
<1>4. P(n)
  BY <1>3
<1> QED BY <1>4 DEF P

LEMMA FreeRunCounts == FreeRun \in [0..TOTAL_PAGES -> Nat] /\ Counts(FreeRun, TOTAL_PAGES)
<1> DEFINE body(f) == [i \in 0..TOTAL_PAGES |->
                         IF i = 0 \/ i - 1 \in page_bitmap THEN 0 ELSE f[i - 1] + 1]
<1>1. PICK run \in [0..TOTAL_PAGES -> Nat] : Counts(run, TOTAL_PAGES)
  BY CountsUpTo, HeapTableAssumption
<1>2. run = body(run)
  BY <1>1 DEF Counts
<1>3. FreeRun = CHOOSE f : f = body(f)
  BY DEF FreeRun
<1> HIDE DEF body
<1>4. FreeRun = body(FreeRun)
  BY <1>2, <1>3
<1>5. Counts(FreeRun, TOTAL_PAGES)
  BY <1>4 DEF body, Counts
<1>6. ASSUME NEW i \in 0..TOTAL_PAGES PROVE FreeRun[i] \in Nat
  <2> DEFINE T == {j \in 0..TOTAL_PAGES : FreeRun[j] \notin Nat}
  <2> SUFFICES ASSUME T # {} PROVE FALSE
    OBVIOUS
  <2>0. T \subseteq Nat
    BY HeapTableAssumption
  <2>1. PICK k \in T : \A j \in T : k <= j
    <3> HIDE DEF T
    <3> QED BY <2>0, LeastNumber
  <2>2. k # 0 /\ k - 1 \notin page_bitmap /\ FreeRun[k] = FreeRun[k - 1] + 1
    BY <1>5, <2>1 DEF Counts
  <2>3. k - 1 \in 0..TOTAL_PAGES /\ k - 1 \notin T
    BY <2>1, <2>2, HeapTableAssumption
  <2> QED BY <2>1, <2>2, <2>3
<1>7. FreeRun = [i \in 0..TOTAL_PAGES |-> FreeRun[i]]
  BY <1>4 DEF body
<1> QED BY <1>5, <1>6, <1>7

(* The count is that of the free pages just before, all of them.           *)
LEMMA CountsFreePages ==
  ASSUME NEW i \in 0..TOTAL_PAGES
  PROVE  /\ FreeRun[i] \in 0..i
         /\ \A p \in (i - FreeRun[i])..(i - 1) : p \notin page_bitmap
         /\ FreeRun[i] = i \/ i - FreeRun[i] - 1 \in page_bitmap
<1> DEFINE P(k) == /\ FreeRun[k] \in 0..k
                   /\ \A p \in (k - FreeRun[k])..(k - 1) : p \notin page_bitmap
                   /\ FreeRun[k] = k \/ k - FreeRun[k] - 1 \in page_bitmap
           T == {k \in 0..TOTAL_PAGES : ~P(k)}
<1>1. P(0)
  BY FreeRunCounts, HeapTableAssumption DEF Counts
<1>2. ASSUME NEW k \in 1..TOTAL_PAGES, P(k - 1) PROVE P(k)
  <2>1. k \in 0..TOTAL_PAGES /\ k - 1 \in 0..TOTAL_PAGES
    BY HeapTableAssumption
  <2>2. FreeRun[k] = IF k - 1 \in page_bitmap THEN 0 ELSE FreeRun[k - 1] + 1
    BY <2>1, FreeRunCounts DEF Counts
  <2>3. CASE k - 1 \in page_bitmap
    BY <2>2, <2>3
  <2>4. CASE k - 1 \notin page_bitmap
    <3>1. FreeRun[k] = FreeRun[k - 1] + 1
      BY <2>2, <2>4
    <3> QED BY <1>2, <2>4, <3>1
  <2> QED BY <2>3, <2>4
<1> HIDE DEF P
<1>3. T = {}
  <2> SUFFICES ASSUME T # {} PROVE FALSE
    OBVIOUS
  <2>0. T \subseteq Nat
    BY HeapTableAssumption
  <2>1. PICK k \in T : \A j \in T : k <= j
    <3> HIDE DEF T
    <3> QED BY <2>0, LeastNumber
  <2>2. k \in 1..TOTAL_PAGES
    BY <1>1, <2>1
  <2>3. k - 1 \in 0..TOTAL_PAGES /\ k - 1 \notin T
    BY <2>1, <2>2, HeapTableAssumption
  <2> QED BY <1>2, <2>1, <2>2, <2>3
<1>4. P(i)
  BY <1>3
<1> QED BY <1>4 DEF P

(* A hit of the loop is a place that fits, and the first of those is one.  *)
LEMMA HitsFit ==
  ASSUME NEW n \in Nat
  PROVE  /\ Hits(n) \subseteq Fits(n)
         /\ \A start \in Fits(n) : IsFirst(start, Fits(n)) => start \in Hits(n)
<1>1. ASSUME NEW start \in Hits(n) PROVE start \in Fits(n)
  <2>1. PICK k \in 1..TOTAL_PAGES : n > 0 /\ FreeRun[k] = n /\ start = k - n
    BY DEF Hits
  <2>2. n \in 0..k /\ \A p \in (k - n)..(k - 1) : p \notin page_bitmap
    BY <2>1, CountsFreePages
  <2>3. start \in Pages /\ start + n <= TOTAL_PAGES
    BY <2>1, <2>2, HeapTableAssumption DEF Pages
  <2>4. Run(start, n) = (k - n)..(k - 1)
    BY <2>1, <2>2 DEF Run
  <2> QED BY <2>1, <2>2, <2>3, <2>4 DEF Fits
<1>2. ASSUME NEW start \in Fits(n), IsFirst(start, Fits(n)) PROVE start \in Hits(n)
  <2>1. /\ start \in Nat /\ n > 0 /\ start + n <= TOTAL_PAGES
        /\ \A p \in start..(start + n - 1) : p \notin page_bitmap
    BY HeapTableAssumption DEF Fits, Run, Pages
  <2> DEFINE k == start + n
  <2>2. k \in 1..TOTAL_PAGES
    BY <2>1, HeapTableAssumption
  <2>3. /\ FreeRun[k] \in 0..k /\ \A p \in (k - FreeRun[k])..(k - 1) : p \notin page_bitmap
        /\ FreeRun[k] = k \/ k - FreeRun[k] - 1 \in page_bitmap
    BY <2>2, CountsFreePages
  <2>4. FreeRun[k] >= n
    <3> SUFFICES ASSUME FreeRun[k] < n PROVE FALSE
      BY <2>3
    <3>1. k - FreeRun[k] - 1 \in start..(start + n - 1)
      BY <2>1, <2>3
    <3>2. FreeRun[k] # k
      BY <2>1
    <3> QED BY <2>1, <2>3, <3>1, <3>2
  <2>5. FreeRun[k] <= n
    <3> SUFFICES ASSUME FreeRun[k] > n PROVE FALSE
      BY <2>3
    <3>1. start - 1 \in Pages /\ start - 1 + n <= TOTAL_PAGES
      BY <2>1, <2>3, HeapTableAssumption DEF Pages
    <3>2. \A p \in (start - 1)..(start - 1 + n - 1) : p \notin page_bitmap
      <4>1. ASSUME NEW p \in (start - 1)..(start - 1 + n - 1)
            PROVE  p \in (k - FreeRun[k])..(k - 1)
        BY <2>1, <2>3
      <4> QED BY <2>3, <4>1
    <3>3. start - 1 \in Fits(n)
      BY <2>1, <3>1, <3>2 DEF Fits, Run
    <3> QED BY <1>2, <2>1, <3>3 DEF IsFirst
  <2>6. FreeRun[k] = n /\ start = k - n
    BY <2>1, <2>3, <2>4, <2>5
  <2> QED BY <2>1, <2>2, <2>6 DEF Hits
<1> QED BY <1>1, <1>2

(* The loop of find_free_pages returns the first place where the pages fit *)
(* and fails only when there is none, whatever pages are marked: for every *)
(* heap and every request.                                                 *)
THEOREM HeapLoopFindsFirstFit == Spec => []LoopFindsFirstFit
<1>1. ASSUME NEW n \in Nat
      PROVE  IF Fits(n) = {} THEN find_free_pages(n) = -1
                             ELSE IsFirst(find_free_pages(n), Fits(n))
  <2>1. CASE Fits(n) = {}
    BY <2>1, HitsFit DEF find_free_pages
  <2>2. CASE Fits(n) # {}
    <3>1. Fits(n) \subseteq Nat
      BY HeapTableAssumption DEF Fits, Pages
    <3>2. PICK start \in Fits(n) : \A s \in Fits(n) : start <= s
      BY <2>2, <3>1, LeastNumber
    <3>3. IsFirst(start, Fits(n)) /\ start \in Hits(n)
      BY <3>2, HitsFit DEF IsFirst
    <3>4. IsFirst(start, Hits(n))
      BY <3>3, HitsFit DEF IsFirst
    <3>5. IsFirst(find_free_pages(n), Hits(n))
      BY <3>3, <3>4 DEF find_free_pages
    <3>6. find_free_pages(n) = start
      BY <3>1, <3>3, <3>4, <3>5, HitsFit DEF IsFirst
    <3> QED BY <2>2, <3>3, <3>6
  <2> QED BY <2>1, <2>2
<1>2. LoopFindsFirstFit
  BY <1>1, HeapTableAssumption DEF LoopFindsFirstFit
<1> QED BY <1>2, PTL

-----------------------------------------------------------------------------
(* HeapRace: kmalloc and kfree a store at a time, under memtest and        *)
(* memstress in two contexts.  What its proofs use of the constants: no    *)
(* size is zero, the count of pages fits its word, and memtest is the only *)
(* command that may overlap.                                               *)
RaceConstants ==
  /\ TOTAL_PAGES \in Nat \ {0} /\ MAX_ALLOCATIONS \in Nat \ {0}
  /\ WORD \in Nat /\ WORD > TOTAL_PAGES
  /\ PAGES_A \in Nat \ {0} /\ PAGES_B \in Nat \ {0} /\ PAGES_C \in Nat \ {0}
  /\ Overlapping \subseteq {"memtest"}

Requests == [op : {"kmalloc", "kfree"}, pointer : Pointers, pages : Nat]

Claiming    == {"mark", "set", "start_page", "page_count", "used", "count", "counted"}
AllocLabels == {"find", "slot"} \cup Claiming
Giving      == {"unmark", "clear", "uncount", "uncounted", "no_start", "no_count", "unused",
                "return"}
FreeLabels  == {"search"} \cup Giving
Labels      == {"idle", "call"} \cup AllocLabels \cup FreeLabels

Commands == {"none", "memtest", "memstress"}
Lists    == Seq(Requests)
Holdings == [Pointers -> Pages \cup {None}]

PageSets == SUBSET Pages

(* A context: its command and the locals of the call under way.            *)
Frames == [pc : Labels, command : Commands, calls : Lists, at : Holdings,
           start : Pages \cup {None}, slot : Slots \cup {None}, i : Nat,
           byte : PageSets, total : Int]

Tables == [Slots -> [start_page : Pages, page_count : Nat, used : BOOLEAN]]

(* What remains of a command releases what it allocates, each pointer once.*)
Balanced(calls) ==
  \A k \in 1..Len(calls) : calls[k].op = "kmalloc" =>
    /\ calls[k].pages > 0
    /\ \E n \in (k + 1)..Len(calls) : calls[n] = Release(calls[k].pointer)
    /\ \A n \in 1..Len(calls) :
         n # k /\ calls[n].op = "kmalloc" => calls[n].pointer # calls[k].pointer

(* A pointer that is not NULL will be released, and is not overwritten.    *)
Owed(calls, at) ==
  \A p \in Pointers : at[p] # None =>
    /\ \E n \in 1..Len(calls) : calls[n] = Release(p)
    /\ \A n \in 1..Len(calls) : calls[n].op = "kmalloc" => calls[n].pointer # p

SmallCalls(calls) == \A k \in 1..Len(calls) : calls[k].pages <= 1

(* Where a context is, and what its locals are there.                      *)
Placed(f) ==
  /\ f.pc = "idle" => f.calls = <<>> /\ f.command = "none"
  /\ f.pc \notin {"idle", "call"} => f.calls # <<>>
  /\ f.pc \in AllocLabels => Head(f.calls).op = "kmalloc" /\ f.i <= Head(f.calls).pages
  /\ f.pc \in FreeLabels => Head(f.calls).op = "kfree"
  /\ f.pc \in AllocLabels \ {"find"} =>
       f.start \in Pages /\ f.start + Head(f.calls).pages <= TOTAL_PAGES
  /\ f.pc \in Giving => f.start \in Pages
  /\ f.pc \in Claiming \cup Giving => f.slot \in Slots
  /\ f.pc \in {"idle", "call", "find", "slot", "search"} => f.i = 0
  /\ f.pc = "set" => f.i < Head(f.calls).pages
  /\ f.pc = "search" => f.at[Head(f.calls).pointer] \in Pages
  /\ f.pc = "clear" => f.start + f.i \in Pages
  /\ f.pc = "uncounted" => f.total \in 0..(WORD - 1)

FrameOK(f) ==
  /\ f \in Frames /\ Placed(f) /\ Balanced(f.calls) /\ Owed(f.calls, f.at)
  /\ f.command # "memstress" => SmallCalls(f.calls)

(* The variables of the heap are in their ranges.                          *)
HeapTypes == /\ page_bitmap \subseteq Pages /\ allocated_pages \in 0..(WORD - 1)
             /\ allocations \in Tables

(* No context runs memstress, as is so whenever two commands overlap.      *)
Overlapped == \A s \in Contexts : frame[s].command # "memstress"

(* The half of the invariant that holds even while commands overlap. The   *)
(* blocks of memtest are of one page, so that a mixed-up entry still names *)
(* pages of the heap.                                                      *)
RaceTypes ==
  /\ HeapTypes /\ overlaps \in Nat /\ frame \in [Contexts -> Frames]
  /\ \A s \in Contexts : FrameOK(frame[s])
  /\ overlaps > 0 => Overlapped
  /\ Overlapped => \A i \in Slots : allocations[i].page_count <= 1

(* A step of context s; the other's frame stays.                           *)
Moves(s) == /\ frame' \in [Contexts -> Frames]
            /\ \A t \in Contexts : t # s => frame'[t] = frame[t]

SameCall(f, g)  == g.command = f.command /\ g.calls = f.calls /\ g.at = f.at
SamePlace(f, g) == g.start = f.start /\ g.slot = f.slot /\ g.i = f.i

(* How the frame of context s changes.                                     *)
SetsStart(s, l, p) == frame' = [frame EXCEPT ![s].pc = l, ![s].start = p]
SetsSlot(s, l, k) == frame' = [frame EXCEPT ![s].pc = l, ![s].slot = k]
SetsBoth(s, l, p, k) == frame' = [frame EXCEPT ![s].pc = l, ![s].start = p, ![s].slot = k]
SetsByte(s, l, b) == frame' = [frame EXCEPT ![s].pc = l, ![s].byte = b]
SetsIndex(s, l, n) == frame' = [frame EXCEPT ![s].pc = l, ![s].i = n]
SetsTotal(s, l, n) == frame' = [frame EXCEPT ![s].pc = l, ![s].total = n]

(* What each way of changing a frame leaves alone.                         *)
LEMMA Went ==
  ASSUME frame \in [Contexts -> Frames], NEW s \in Contexts, NEW l \in Labels,
         Goto(s, l)
  PROVE  /\ Moves(s) /\ SameCall(frame[s], frame'[s]) /\ SamePlace(frame[s], frame'[s])
         /\ frame'[s].pc = l /\ frame'[s].byte = frame[s].byte
         /\ frame'[s].total = frame[s].total
<1>1. frame[s] \in Frames /\ frame' = [frame EXCEPT ![s] = [frame[s] EXCEPT !.pc = l]]
  BY DEF Goto
<1> DEFINE g == [frame[s] EXCEPT !.pc = l]
<1>2. /\ g \in Frames /\ g.pc = l /\ g.byte = frame[s].byte /\ g.total = frame[s].total
      /\ SameCall(frame[s], g) /\ SamePlace(frame[s], g)
  BY <1>1 DEF Frames, SameCall, SamePlace
<1>3. frame' = [frame EXCEPT ![s] = g]
  BY <1>1
<1> HIDE DEF g
<1>4. Moves(s) /\ frame'[s] = g
  BY <1>2, <1>3 DEF Moves
<1> QED BY <1>2, <1>4

LEMMA ReleaseIs == \A p \in Pointers : Release(p) \in Requests /\ Release(p).pointer = p
                                       /\ Release(p).op = "kfree"
BY DEF Release, Requests

LEMMA Tails ==
  ASSUME NEW S, NEW c \in Seq(S), c # <<>>
  PROVE  /\ Tail(c) \in Seq(S) /\ Head(c) \in S /\ Head(c) = c[1]
         /\ Len(c) \in Nat /\ Len(c) > 0 /\ Len(Tail(c)) = Len(c) - 1
         /\ \A k \in 1..(Len(c) - 1) : Tail(c)[k] = c[k + 1]
OBVIOUS

LEMMA Returned ==
  ASSUME frame \in [Contexts -> Frames], NEW s \in Contexts, frame[s].calls # <<>>,
         NEW v \in Pages \cup {None}, CallReturns(s, v)
  PROVE  /\ Moves(s) /\ frame'[s].pc = "call" /\ frame'[s].command = frame[s].command
         /\ frame'[s].calls = Tail(frame[s].calls)
         /\ frame'[s].at = [frame[s].at EXCEPT ![Head(frame[s].calls).pointer] = v]
         /\ frame'[s].start = None /\ frame'[s].slot = None /\ frame'[s].i = 0
<1> PICK f, p : f = frame[s] /\ p = Head(f.calls).pointer
  OBVIOUS
<1>1. f \in Frames
  OBVIOUS
<1>2. f.calls \in Lists /\ f.calls # <<>> /\ f.at \in Holdings
  BY <1>1 DEF Frames
<1> DEFINE calls == Tail(f.calls)
           at == [f.at EXCEPT ![p] = v]
           g == [f EXCEPT !.pc = "call", !.calls = calls, !.at = at, !.start = None,
                          !.slot = None, !.i = 0, !.byte = {}, !.total = 0]
<1>3. calls \in Lists
  BY <1>2, Tails DEF Lists
<1>4. at \in Holdings
  BY <1>2 DEF Holdings
<1>5. frame' = [frame EXCEPT ![s] = g]
  BY DEF CallReturns, Call
<1> HIDE DEF calls, at
<1>6. "call" \in Labels /\ None \in Pages \cup {None} /\ None \in Slots \cup {None}
  BY DEF Labels
<1>7. /\ g.pc = "call" /\ g.command = f.command /\ g.calls = calls /\ g.at = at
      /\ g.start = None /\ g.slot = None /\ g.i = 0
  BY <1>1 DEF Frames
<1>8. g \in Frames
  <2> DEFINE x == [f EXCEPT !.pc = "call", !.calls = calls, !.at = at]
             y == [x EXCEPT !.start = None, !.slot = None, !.i = 0]
  <2>1. x \in Frames
    BY <1>1, <1>3, <1>4, <1>6 DEF Frames
  <2> HIDE DEF x
  <2>2. y \in Frames
    BY <1>6, <2>1 DEF Frames
  <2> HIDE DEF y
  <2>3. PICK e \in PageSets : e = {}
    BY DEF PageSets
  <2> DEFINE z == [y EXCEPT !.byte = e]
  <2>4. z \in Frames
    BY <2>2, <2>3 DEF Frames
  <2> HIDE DEF z
  <2>5. [z EXCEPT !.total = 0] \in Frames
    BY <2>4 DEF Frames
  <2> QED BY <2>3, <2>5 DEF x, y, z
<1> HIDE DEF g
<1>9. Moves(s) /\ frame'[s] = g
  BY <1>5, <1>8 DEF Moves
<1> QED BY <1>7, <1>9 DEF calls, at

LEMMA Started ==
  ASSUME frame \in [Contexts -> Frames], NEW s \in Contexts, NEW l \in Labels,
         NEW p \in Pages,
         SetsStart(s, l, p)
  PROVE  /\ Moves(s) /\ SameCall(frame[s], frame'[s])
         /\ frame'[s].pc = l /\ frame'[s].start = p
         /\ frame'[s].slot = frame[s].slot /\ frame'[s].i = frame[s].i
         /\ frame'[s].byte = frame[s].byte /\ frame'[s].total = frame[s].total
<1> DEFINE g == [frame[s] EXCEPT !.pc = l, !.start = p]
<1>1. frame[s] \in Frames /\ frame' = [frame EXCEPT ![s] = g]
  BY DEF SetsStart
<1>2. g \in Frames
  BY <1>1 DEF Frames
<1>3. /\ g.pc = l /\ g.start = p
      /\ g.slot = frame[s].slot /\ g.i = frame[s].i /\ g.byte = frame[s].byte
      /\ g.total = frame[s].total
      /\ SameCall(frame[s], g)
  BY <1>1 DEF Frames, SameCall
<1> HIDE DEF g
<1>4. Moves(s) /\ frame'[s] = g
  BY <1>1, <1>2 DEF Moves
<1> QED BY <1>3, <1>4

LEMMA Chose ==
  ASSUME frame \in [Contexts -> Frames], NEW s \in Contexts, NEW l \in Labels,
         NEW k \in Slots,
         SetsSlot(s, l, k)
  PROVE  /\ Moves(s) /\ SameCall(frame[s], frame'[s])
         /\ frame'[s].pc = l /\ frame'[s].slot = k
         /\ frame'[s].start = frame[s].start /\ frame'[s].i = frame[s].i
         /\ frame'[s].byte = frame[s].byte /\ frame'[s].total = frame[s].total
<1> DEFINE g == [frame[s] EXCEPT !.pc = l, !.slot = k]
<1>1. frame[s] \in Frames /\ frame' = [frame EXCEPT ![s] = g]
  BY DEF SetsSlot
<1>2. g \in Frames
  BY <1>1 DEF Frames
<1>3. /\ g.pc = l /\ g.slot = k
      /\ g.start = frame[s].start /\ g.i = frame[s].i /\ g.byte = frame[s].byte
      /\ g.total = frame[s].total
      /\ SameCall(frame[s], g)
  BY <1>1 DEF Frames, SameCall
<1> HIDE DEF g
<1>4. Moves(s) /\ frame'[s] = g
  BY <1>1, <1>2 DEF Moves
<1> QED BY <1>3, <1>4

LEMMA Searched ==
  ASSUME frame \in [Contexts -> Frames], NEW s \in Contexts, NEW l \in Labels,
         NEW p \in Pages, NEW k \in Slots,
         SetsBoth(s, l, p, k)
  PROVE  /\ Moves(s) /\ SameCall(frame[s], frame'[s])
         /\ frame'[s].pc = l /\ frame'[s].start = p /\ frame'[s].slot = k
         /\ frame'[s].i = frame[s].i /\ frame'[s].byte = frame[s].byte
         /\ frame'[s].total = frame[s].total
<1> DEFINE g == [frame[s] EXCEPT !.pc = l, !.start = p, !.slot = k]
<1>1. frame[s] \in Frames /\ frame' = [frame EXCEPT ![s] = g]
  BY DEF SetsBoth
<1>2. g \in Frames
  BY <1>1 DEF Frames
<1>3. /\ g.pc = l /\ g.start = p /\ g.slot = k
      /\ g.i = frame[s].i /\ g.byte = frame[s].byte /\ g.total = frame[s].total
      /\ SameCall(frame[s], g)
  BY <1>1 DEF Frames, SameCall
<1> HIDE DEF g
<1>4. Moves(s) /\ frame'[s] = g
  BY <1>1, <1>2 DEF Moves
<1> QED BY <1>3, <1>4

LEMMA Loaded ==
  ASSUME frame \in [Contexts -> Frames], NEW s \in Contexts, NEW l \in Labels,
         NEW b \in PageSets,
         SetsByte(s, l, b)
  PROVE  /\ Moves(s) /\ SameCall(frame[s], frame'[s])
         /\ frame'[s].pc = l /\ frame'[s].byte = b
         /\ frame'[s].start = frame[s].start /\ frame'[s].slot = frame[s].slot
         /\ frame'[s].i = frame[s].i /\ frame'[s].total = frame[s].total
<1> DEFINE g == [frame[s] EXCEPT !.pc = l, !.byte = b]
<1>1. frame[s] \in Frames /\ frame' = [frame EXCEPT ![s] = g]
  BY DEF SetsByte
<1>2. g \in Frames
  BY <1>1 DEF Frames
<1>3. /\ g.pc = l /\ g.byte = b
      /\ g.start = frame[s].start /\ g.slot = frame[s].slot /\ g.i = frame[s].i
      /\ g.total = frame[s].total
      /\ SameCall(frame[s], g)
  BY <1>1 DEF Frames, SameCall
<1> HIDE DEF g
<1>4. Moves(s) /\ frame'[s] = g
  BY <1>1, <1>2 DEF Moves
<1> QED BY <1>3, <1>4

LEMMA Advanced ==
  ASSUME frame \in [Contexts -> Frames], NEW s \in Contexts, NEW l \in Labels,
         NEW n \in Nat,
         SetsIndex(s, l, n)
  PROVE  /\ Moves(s) /\ SameCall(frame[s], frame'[s])
         /\ frame'[s].pc = l /\ frame'[s].i = n
         /\ frame'[s].start = frame[s].start /\ frame'[s].slot = frame[s].slot
         /\ frame'[s].byte = frame[s].byte /\ frame'[s].total = frame[s].total
<1> DEFINE g == [frame[s] EXCEPT !.pc = l, !.i = n]
<1>1. frame[s] \in Frames /\ frame' = [frame EXCEPT ![s] = g]
  BY DEF SetsIndex
<1>2. g \in Frames
  BY <1>1 DEF Frames
<1>3. /\ g.pc = l /\ g.i = n
      /\ g.start = frame[s].start /\ g.slot = frame[s].slot /\ g.byte = frame[s].byte
      /\ g.total = frame[s].total
      /\ SameCall(frame[s], g)
  BY <1>1 DEF Frames, SameCall
<1> HIDE DEF g
<1>4. Moves(s) /\ frame'[s] = g
  BY <1>1, <1>2 DEF Moves
<1> QED BY <1>3, <1>4

LEMMA Totalled ==
  ASSUME frame \in [Contexts -> Frames], NEW s \in Contexts, NEW l \in Labels,
         NEW n \in Int,
         SetsTotal(s, l, n)
  PROVE  /\ Moves(s) /\ SameCall(frame[s], frame'[s])
         /\ frame'[s].pc = l /\ frame'[s].total = n
         /\ frame'[s].start = frame[s].start /\ frame'[s].slot = frame[s].slot
         /\ frame'[s].i = frame[s].i /\ frame'[s].byte = frame[s].byte
<1> DEFINE g == [frame[s] EXCEPT !.pc = l, !.total = n]
<1>1. frame[s] \in Frames /\ frame' = [frame EXCEPT ![s] = g]
  BY DEF SetsTotal
<1>2. g \in Frames
  BY <1>1 DEF Frames
<1>3. /\ g.pc = l /\ g.total = n
      /\ g.start = frame[s].start /\ g.slot = frame[s].slot /\ g.i = frame[s].i
      /\ g.byte = frame[s].byte
      /\ SameCall(frame[s], g)
  BY <1>1 DEF Frames, SameCall
<1> HIDE DEF g
<1>4. Moves(s) /\ frame'[s] = g
  BY <1>1, <1>2 DEF Moves
<1> QED BY <1>3, <1>4

(* A call that returns leaves a command that is still in balance.          *)
LEMMA BalancedTail ==
  ASSUME NEW c \in Lists, c # <<>>, Balanced(c)
  PROVE  /\ Tail(c) \in Lists /\ Balanced(Tail(c))
         /\ SmallCalls(c) => SmallCalls(Tail(c))
<1> PICK d : d = Tail(c)
  OBVIOUS
<1>1. /\ d \in Lists /\ Len(c) \in Nat /\ Len(c) > 0 /\ Len(d) = Len(c) - 1
      /\ \A k \in 1..(Len(c) - 1) : d[k] = c[k + 1]
  BY Tails DEF Lists
<1>2. \A k \in 1..Len(d) : k + 1 \in 1..Len(c) /\ d[k] = c[k + 1]
  BY <1>1
<1>3. ASSUME NEW k \in 1..Len(d), d[k].op = "kmalloc"
      PROVE  /\ d[k].pages > 0
             /\ \E n \in (k + 1)..Len(d) : d[n] = Release(d[k].pointer)
             /\ \A n \in 1..Len(d) :
                  n # k /\ d[n].op = "kmalloc" => d[n].pointer # d[k].pointer
  <2>1. k + 1 \in 1..Len(c) /\ d[k] = c[k + 1]
    BY <1>2
  <2>2. PICK n \in ((k + 1) + 1)..Len(c) : c[n] = Release(c[k + 1].pointer)
    BY <1>3, <2>1 DEF Balanced
  <2>3. n - 1 \in (k + 1)..Len(d) /\ n - 1 \in 1..Len(d) /\ (n - 1) + 1 = n
    BY <1>1, <2>1
  <2>4. d[n - 1] = Release(d[k].pointer)
    BY <1>2, <2>1, <2>2, <2>3
  <2>5. \A j \in 1..Len(d) : j + 1 \in 1..Len(c) /\ (j # k => j + 1 # k + 1) /\ d[j] = c[j + 1]
    BY <1>1, <1>2
  <2>6. \A j \in 1..Len(d) : j # k /\ d[j].op = "kmalloc" => d[j].pointer # d[k].pointer
    BY <1>3, <2>1, <2>5 DEF Balanced
  <2>7. d[k].pages > 0
    BY <1>3, <2>1 DEF Balanced
  <2> QED BY <2>3, <2>4, <2>6, <2>7
<1> QED BY <1>1, <1>2, <1>3 DEF Balanced, SmallCalls

(* A pointer that a call has filled or forgotten is owed a kfree, or none. *)
LEMMA OwedReturn ==
  ASSUME NEW c \in Lists, c # <<>>, Balanced(c), NEW at \in Holdings, Owed(c, at),
         NEW v \in Pages \cup {None}, c[1].op = "kfree" => v = None
  PROVE  Owed(Tail(c), [at EXCEPT ![Head(c).pointer] = v])
<1> PICK d, q : d = Tail(c) /\ q = Head(c).pointer
  OBVIOUS
<1>1. /\ Len(c) \in Nat /\ Len(c) > 0 /\ Len(d) = Len(c) - 1 /\ q = c[1].pointer
      /\ \A k \in 1..(Len(c) - 1) : d[k] = c[k + 1]
      /\ 1 \in 1..Len(c) /\ c[1] \in Requests
  BY Tails DEF Lists
<1>2. \A k \in 1..Len(d) : k + 1 \in 1..Len(c) /\ d[k] = c[k + 1] /\ k + 1 # 1
  BY <1>1
<1>3. q \in Pointers /\ c[1].op \in {"kmalloc", "kfree"}
  BY <1>1 DEF Requests
<1> DEFINE b == [at EXCEPT ![q] = v]
<1>4. \A p \in Pointers : b[p] = IF p = q THEN v ELSE at[p]
  BY <1>3 DEF Holdings
<1> HIDE DEF b
<1>5. ASSUME NEW p \in Pointers, NEW n \in 2..Len(c), c[n] = Release(p)
      PROVE  \E k \in 1..Len(d) : d[k] = Release(p)
  <2>1. n - 1 \in 1..Len(d) /\ (n - 1) + 1 = n
    BY <1>1
  <2> QED BY <1>2, <1>5, <2>1
<1>6. ASSUME NEW p \in Pointers, b[p] # None
      PROVE  /\ \E n \in 1..Len(d) : d[n] = Release(p)
             /\ \A n \in 1..Len(d) : d[n].op = "kmalloc" => d[n].pointer # p
  <2>1. CASE p = q
    <3>1. c[1].op = "kmalloc"
      BY <1>3, <1>4, <1>6, <2>1
    <3>2. PICK n \in (1 + 1)..Len(c) : c[n] = Release(p)
      BY <1>1, <2>1, <3>1 DEF Balanced
    <3>3. \A k \in 1..Len(d) : d[k].op = "kmalloc" => d[k].pointer # p
      BY <1>1, <1>2, <2>1, <3>1 DEF Balanced
    <3> QED BY <1>5, <3>2, <3>3
  <2>2. CASE p # q
    <3>1. at[p] # None
      BY <1>4, <1>6, <2>2
    <3>2. PICK n \in 1..Len(c) : c[n] = Release(p)
      BY <3>1 DEF Owed
    <3>3. n # 1
      BY <1>1, <2>2, <3>2, ReleaseIs
    <3>4. n \in 2..Len(c)
      BY <3>3
    <3>5. \A k \in 1..Len(d) : d[k].op = "kmalloc" => d[k].pointer # p
      BY <1>2, <3>1 DEF Owed
    <3> QED BY <1>5, <3>2, <3>4, <3>5
  <2> QED BY <2>1, <2>2
<1> QED BY <1>6 DEF Owed, b

LEMMA ModRange ==
  ASSUME NEW x \in Int, NEW w \in Nat \ {0}
  PROVE  x % w \in 0..(w - 1)
OBVIOUS

LEMMA ByteFacts ==
  /\ \A p : ByteOf(p) \in PageSets
  /\ \A p \in Pages : p \in ByteOf(p)
BY DEF ByteOf, PageSets

LEMMA StoredPages ==
  ASSUME page_bitmap \subseteq Pages, NEW p, NEW b \in PageSets
  PROVE  Stored(p, b) \subseteq Pages
BY DEF Stored, PageSets

LEMMA SameCallOK ==
  ASSUME NEW f, NEW g \in Frames, FrameOK(f), SameCall(f, g), Placed(g)
  PROVE  FrameOK(g)
BY DEF FrameOK, SameCall

(* A step is in its types when the frame it leaves and the heap are.       *)
LEMMA TypesMove ==
  ASSUME RaceTypes, NEW s \in Contexts, Moves(s), frame'[s].command = frame[s].command,
         FrameOK(frame'[s]), HeapTypes', UNCHANGED overlaps,
         Overlapped => \A i \in Slots : allocations'[i].page_count <= 1
  PROVE  RaceTypes'
<1>1. \A t \in Contexts : frame'[t].command = frame[t].command
  BY DEF Moves
<1>2. Overlapped' <=> Overlapped
  BY <1>1 DEF Overlapped
<1>3. \A t \in Contexts : FrameOK(frame'[t])
  BY DEF Moves, RaceTypes
<1>4. frame' \in [Contexts -> Frames]
  BY DEF Moves
<1> QED BY <1>2, <1>3, <1>4 DEF RaceTypes

(* A step that leaves the heap and the calls alone.                        *)
LEMMA TypesQuiet ==
  ASSUME RaceTypes, NEW s \in Contexts, Moves(s), SameCall(frame[s], frame'[s]),
         Placed(frame'[s]), UNCHANGED heap, UNCHANGED overlaps
  PROVE  RaceTypes'
<1>1. UNCHANGED <<page_bitmap, allocations, allocated_pages>>
  BY DEF heap
<1>2. HeapTypes'
  BY <1>1 DEF RaceTypes, HeapTypes
<1>3. FrameOK(frame'[s])
  <2>1. frame'[s] \in Frames /\ FrameOK(frame[s])
    BY DEF Moves, RaceTypes
  <2> QED BY <2>1, SameCallOK
<1>4. Overlapped => \A i \in Slots : allocations'[i].page_count <= 1
  BY <1>1 DEF RaceTypes
<1>5. frame'[s].command = frame[s].command
  BY DEF SameCall
<1> QED BY <1>2, <1>3, <1>4, <1>5, TypesMove

(* What a call leaves when it returns.                                     *)
LEMMA ReturnOK ==
  ASSUME RaceTypes, NEW s \in Contexts, frame[s].calls # <<>>,
         NEW v \in Pages \cup {None},
         frame[s].pc \in FreeLabels \/ Head(frame[s].calls).op = "kfree" => v = None,
         CallReturns(s, v)
  PROVE  Moves(s) /\ FrameOK(frame'[s]) /\ frame'[s].command = frame[s].command
<1> PICK f, g : f = frame[s] /\ g = frame'[s]
  OBVIOUS
<1>1. FrameOK(f) /\ f \in Frames
  BY DEF RaceTypes, FrameOK
<1>2. /\ Moves(s) /\ g.pc = "call" /\ g.command = f.command /\ g.calls = Tail(f.calls)
      /\ g.at = [f.at EXCEPT ![Head(f.calls).pointer] = v] /\ g.i = 0
  BY Returned DEF RaceTypes
<1>3. g \in Frames
  BY <1>2 DEF Moves
<1>4. f.calls \in Lists /\ f.calls # <<>> /\ f.at \in Holdings
  BY <1>1 DEF Frames
<1>5. Head(f.calls) = f.calls[1]
  BY <1>4, Tails DEF Lists
<1>6. Owed(g.calls, g.at)
  <2>1. Balanced(f.calls) /\ Owed(f.calls, f.at)
    BY <1>1 DEF FrameOK
  <2>2. f.calls[1].op = "kfree" => v = None
    BY <1>5
  <2>3. Owed(Tail(f.calls), [f.at EXCEPT ![Head(f.calls).pointer] = v])
    BY <1>4, <2>1, <2>2, OwedReturn
  <2> QED BY <1>2, <2>3
<1>7. Balanced(g.calls) /\ (g.command # "memstress" => SmallCalls(g.calls))
  BY <1>1, <1>2, <1>4, BalancedTail DEF FrameOK
<1>8. Placed(g)
  BY <1>2 DEF Placed, AllocLabels, FreeLabels, Claiming, Giving
<1> QED BY <1>2, <1>3, <1>6, <1>7, <1>8 DEF FrameOK

(* The types of the frame of a context, and of the call it is in.          *)
LEMMA FrameIs ==
  ASSUME RaceTypes, NEW s \in Contexts
  PROVE  /\ frame \in [Contexts -> Frames] /\ frame[s] \in Frames /\ FrameOK(frame[s])
         /\ Placed(frame[s]) /\ frame[s].calls \in Lists /\ frame[s].i \in Nat
         /\ frame[s].start \in Pages \cup {None}
         /\ frame[s].slot \in Slots \cup {None}
         /\ frame[s].byte \in PageSets /\ frame[s].total \in Int
         /\ frame[s].at \in Holdings /\ frame[s].pc \in Labels
         /\ page_bitmap \subseteq Pages /\ allocations \in Tables
         /\ allocated_pages \in 0..(WORD - 1)
BY DEF RaceTypes, HeapTypes, FrameOK, Frames

LEMMA LabelFacts ==
  /\ AllocLabels \subseteq Labels /\ FreeLabels \subseteq Labels
  /\ "idle" \in Labels /\ "call" \in Labels
BY DEF Labels

LEMMA CallIs ==
  ASSUME RaceTypes, NEW s \in Contexts, frame[s].calls # <<>>
  PROVE  /\ Call(s) = Head(frame[s].calls) /\ Call(s) \in Requests /\ Call(s).pages \in Nat
         /\ Call(s).pointer \in Pointers /\ Call(s).op \in {"kmalloc", "kfree"}
         /\ Call(s) = frame[s].calls[1] /\ 1 \in 1..Len(frame[s].calls)
<1>1. frame[s].calls \in Lists
  BY FrameIs
<1>2. Head(frame[s].calls) \in Requests /\ Head(frame[s].calls) = frame[s].calls[1]
  BY <1>1, Tails DEF Lists
<1>3. 1 \in 1..Len(frame[s].calls)
  BY <1>1, Tails DEF Lists
<1> QED BY <1>2, <1>3 DEF Call, Requests

LEMMA TypesReturn ==
  ASSUME RaceTypes, NEW s \in Contexts, frame[s].calls # <<>>,
         NEW v \in Pages \cup {None},
         frame[s].pc \in FreeLabels \/ Head(frame[s].calls).op = "kfree" => v = None,
         CallReturns(s, v), HeapTypes', UNCHANGED allocations, UNCHANGED overlaps
  PROVE  RaceTypes'
<1>1. Moves(s) /\ FrameOK(frame'[s]) /\ frame'[s].command = frame[s].command
  BY ReturnOK
<1>2. Overlapped => \A i \in Slots : allocations'[i].page_count <= 1
  BY DEF RaceTypes
<1> QED BY <1>1, <1>2, TypesMove

LEMMA TypesSameHeap == ASSUME RaceTypes, UNCHANGED heap PROVE HeapTypes'
BY DEF RaceTypes, HeapTypes, heap

(* RaceTypes is kept by every step, one lemma each.                        *)
LEMMA TypesNextCall ==
  ASSUME RaceTypes, NEW s \in Contexts, NextCall(s), UNCHANGED overlaps,
         frame[s].calls # <<>>
  PROVE  RaceTypes'
<1>1. /\ frame[s].pc = "call" /\ UNCHANGED heap
      /\ \/ Call(s).op = "kmalloc" /\ Goto(s, "find")
         \/ /\ Call(s).op # "kmalloc" /\ frame[s].at[Call(s).pointer] = None
            /\ CallReturns(s, None)
         \/ /\ Call(s).op # "kmalloc" /\ frame[s].at[Call(s).pointer] # None
            /\ Goto(s, "search")
  BY DEF NextCall, At
<1>2. CASE Call(s).op = "kmalloc" /\ Goto(s, "find")
  <2>1. Moves(s) /\ SameCall(frame[s], frame'[s]) /\ SamePlace(frame[s], frame'[s])
        /\ frame'[s].pc = "find"
    BY <1>2, Went, FrameIs DEF Labels, AllocLabels
  <2>2. Placed(frame'[s])
    <3>1. Placed(frame[s]) /\ Call(s).pages \in Nat /\ Call(s) = Head(frame[s].calls)
      BY FrameIs, CallIs
    <3> QED BY <1>1, <1>2, <2>1, <3>1 DEF Placed, SameCall, SamePlace, AllocLabels, FreeLabels,
               Claiming, Giving
  <2> QED BY <1>1, <2>1, <2>2, TypesQuiet
<1>3. CASE Call(s).op # "kmalloc" /\ CallReturns(s, None)
  <2>1. HeapTypes' /\ UNCHANGED allocations
    BY <1>1, TypesSameHeap DEF heap
  <2> QED BY <1>3, <2>1, TypesReturn
<1>4. CASE Call(s).op # "kmalloc" /\ frame[s].at[Call(s).pointer] # None /\ Goto(s, "search")
  <2>1. Moves(s) /\ SameCall(frame[s], frame'[s]) /\ SamePlace(frame[s], frame'[s])
        /\ frame'[s].pc = "search"
    BY <1>4, Went, FrameIs DEF Labels, FreeLabels
  <2>2. Placed(frame'[s])
    <3>1. /\ Placed(frame[s]) /\ Call(s) = Head(frame[s].calls)
          /\ Call(s).op = "kfree" /\ frame[s].at[Call(s).pointer] \in Pages
      BY <1>4, FrameIs, CallIs DEF Holdings
    <3> QED BY <1>1, <2>1, <3>1 DEF Placed, SameCall, SamePlace, AllocLabels, FreeLabels,
               Claiming, Giving
  <2> QED BY <1>1, <2>1, <2>2, TypesQuiet
<1> QED BY <1>1, <1>2, <1>3, <1>4

LEMMA TypesFindPages ==
  ASSUME RaceTypes, NEW s \in Contexts, FindPages(s), UNCHANGED overlaps
  PROVE  RaceTypes'
<1>1. frame[s].pc = "find" /\ UNCHANGED heap
  BY DEF FindPages, At
<1>2. frame[s].calls # <<>> /\ Placed(frame[s]) /\ Head(frame[s].calls).op = "kmalloc"
  BY <1>1, FrameIs DEF Placed, AllocLabels
<1>3. CASE CallReturns(s, None)
  <2>1. HeapTypes' /\ UNCHANGED allocations
    BY <1>1, TypesSameHeap DEF heap
  <2> QED BY <1>1, <1>2, <1>3, <2>1, TypesReturn
<1>4. ASSUME NEW p \in Fits(Call(s).pages),
             frame' = [frame EXCEPT ![s].pc = "slot", ![s].start = p]
      PROVE  RaceTypes'
  <2>1. p \in Pages /\ p + Head(frame[s].calls).pages <= TOTAL_PAGES
    BY DEF Fits, Run, Call
  <2>2. /\ Moves(s) /\ SameCall(frame[s], frame'[s]) /\ frame'[s].pc = "slot"
        /\ frame'[s].start = p /\ frame'[s].i = frame[s].i
    <3>1. SetsStart(s, "slot", p) /\ "slot" \in Labels
      BY <1>4 DEF SetsStart, Labels, AllocLabels
    <3> QED BY <2>1, <3>1, Started, FrameIs
  <2>3. Placed(frame'[s])
    BY <1>1, <1>2, <2>1, <2>2 DEF Placed, SameCall, AllocLabels, FreeLabels, Claiming, Giving
  <2> QED BY <1>1, <2>2, <2>3, TypesQuiet
<1> QED BY <1>3, <1>4 DEF FindPages

LEMMA TypesFindSlot ==
  ASSUME RaceTypes, NEW s \in Contexts, FindSlot(s), UNCHANGED overlaps
  PROVE  RaceTypes'
<1>1. frame[s].pc = "slot" /\ UNCHANGED heap
  BY DEF FindSlot, At
<1>2. frame[s].calls # <<>> /\ Placed(frame[s]) /\ Head(frame[s].calls).op = "kmalloc"
  BY <1>1, FrameIs DEF Placed, AllocLabels
<1>3. CASE CallReturns(s, None)
  <2>1. HeapTypes' /\ UNCHANGED allocations
    BY <1>1, TypesSameHeap DEF heap
  <2> QED BY <1>1, <1>2, <1>3, <2>1, TypesReturn
<1>4. ASSUME NEW k \in FreeSlots,
             frame' = [frame EXCEPT ![s].pc = "mark", ![s].slot = k]
      PROVE  RaceTypes'
  <2>1. k \in Slots
    BY DEF FreeSlots
  <2>2. /\ Moves(s) /\ SameCall(frame[s], frame'[s]) /\ frame'[s].pc = "mark"
        /\ frame'[s].start = frame[s].start /\ frame'[s].i = frame[s].i
        /\ frame'[s].slot = k
    <3>1. SetsSlot(s, "mark", k) /\ "mark" \in Labels
      BY <1>4 DEF SetsSlot, Labels, AllocLabels, Claiming
    <3> QED BY <2>1, <3>1, Chose, FrameIs
  <2>3. Placed(frame'[s])
    BY <1>1, <1>2, <2>1, <2>2 DEF Placed, SameCall, AllocLabels, FreeLabels, Claiming, Giving
  <2> QED BY <1>1, <2>2, <2>3, TypesQuiet
<1> QED BY <1>3, <1>4 DEF FindSlot

LEMMA ByteLoaded ==
  ASSUME RaceTypes, NEW s \in Contexts, NEW l \in Labels, LoadByte(s, l)
  PROVE  /\ Moves(s) /\ SameCall(frame[s], frame'[s]) /\ SamePlace(frame[s], frame'[s])
         /\ frame'[s].pc = l
         /\ frame'[s].byte = page_bitmap \cap ByteOf(frame[s].start + frame[s].i)
<1>1. page_bitmap \cap ByteOf(frame[s].start + frame[s].i) \in PageSets
  BY FrameIs DEF PageSets
<1>2. SetsByte(s, l, page_bitmap \cap ByteOf(frame[s].start + frame[s].i))
  BY DEF LoadByte, Block, SetsByte
<1> QED BY <1>1, <1>2, Loaded, FrameIs DEF SamePlace

LEMMA TypesMark ==
  ASSUME RaceTypes, NEW s \in Contexts, Mark(s), UNCHANGED overlaps
  PROVE  RaceTypes'
<1>1. frame[s].pc = "mark" /\ UNCHANGED heap
  BY DEF Mark, At
<1>2. /\ frame[s].calls # <<>> /\ Placed(frame[s]) /\ Head(frame[s].calls).op = "kmalloc"
      /\ Call(s) = Head(frame[s].calls) /\ frame[s].i \in Nat /\ Call(s).pages \in Nat
  BY <1>1, FrameIs, CallIs DEF Placed, AllocLabels, Claiming
<1>3. CASE frame[s].i < Call(s).pages
  <2>1. LoadByte(s, "set")
    BY <1>3 DEF Mark
  <2>2. /\ Moves(s) /\ SameCall(frame[s], frame'[s]) /\ SamePlace(frame[s], frame'[s])
        /\ frame'[s].pc = "set"
    BY <2>1, ByteLoaded DEF Labels, AllocLabels, Claiming
  <2>3. Placed(frame'[s])
    BY <1>1, <1>2, <1>3, <2>2 DEF Placed, SameCall, SamePlace, AllocLabels, FreeLabels,
       Claiming, Giving
  <2> QED BY <1>1, <2>2, <2>3, TypesQuiet
<1>4. CASE ~(frame[s].i < Call(s).pages)
  <2>1. Goto(s, "start_page")
    BY <1>4 DEF Mark
  <2>2. /\ Moves(s) /\ SameCall(frame[s], frame'[s]) /\ SamePlace(frame[s], frame'[s])
        /\ frame'[s].pc = "start_page"
    BY <2>1, Went, FrameIs DEF Labels, AllocLabels, Claiming
  <2>3. Placed(frame'[s])
    BY <1>1, <1>2, <2>2 DEF Placed, SameCall, SamePlace, AllocLabels, FreeLabels,
       Claiming, Giving
  <2> QED BY <1>1, <2>2, <2>3, TypesQuiet
<1> QED BY <1>3, <1>4

Entries == [start_page : Pages, page_count : Nat, used : BOOLEAN]

Writes(k, field, v) == allocations' = [allocations EXCEPT ![k] = [@ EXCEPT ![field] = v]]

(* The other entries stay.                                                 *)
Touches(k) == allocations' \in Tables /\ \A n \in Slots : n # k => allocations'[n] = allocations[n]

(* A store to one field of an entry.                                       *)
LEMMA EntryWritten ==
  ASSUME allocations \in Tables, NEW k \in Slots, NEW e \in Entries,
         allocations' = [allocations EXCEPT ![k] = e]
  PROVE  Touches(k) /\ allocations'[k] = e
BY DEF Touches, Tables, Entries

LEMMA StartWritten ==
  ASSUME allocations \in Tables, NEW k \in Slots, NEW v \in Pages, Writes(k,
         "start_page", v)
  PROVE  /\ Touches(k) /\ allocations'[k].start_page = v
         /\ allocations'[k].page_count = allocations[k].page_count
         /\ allocations'[k].used <=> allocations[k].used
<1> PICK e, x : e = allocations[k] /\ x = [e EXCEPT !["start_page"] = v]
  OBVIOUS
<1>1. e \in Entries /\ allocations' = [allocations EXCEPT ![k] = x]
  BY DEF Writes, Tables, Entries
<1>2. /\ x \in Entries /\ x.start_page = v /\ x.page_count = e.page_count
      /\ x.used <=> e.used
  BY <1>1 DEF Entries
<1> QED BY <1>1, <1>2, EntryWritten

LEMMA CountWritten ==
  ASSUME allocations \in Tables, NEW k \in Slots, NEW v \in Nat, Writes(k, "page_count",
         v)
  PROVE  /\ Touches(k) /\ allocations'[k].page_count = v
         /\ allocations'[k].start_page = allocations[k].start_page
         /\ allocations'[k].used <=> allocations[k].used
<1> PICK e, x : e = allocations[k] /\ x = [e EXCEPT !["page_count"] = v]
  OBVIOUS
<1>1. e \in Entries /\ allocations' = [allocations EXCEPT ![k] = x]
  BY DEF Writes, Tables, Entries
<1>2. /\ x \in Entries /\ x.page_count = v /\ x.start_page = e.start_page
      /\ x.used <=> e.used
  BY <1>1 DEF Entries
<1> QED BY <1>1, <1>2, EntryWritten

LEMMA UsedWritten ==
  ASSUME allocations \in Tables, NEW k \in Slots, NEW v \in BOOLEAN, Writes(k, "used", v)
  PROVE  /\ Touches(k) /\ allocations'[k].page_count = allocations[k].page_count
         /\ allocations'[k].start_page = allocations[k].start_page
         /\ allocations'[k].used <=> v
<1> PICK e, x : e = allocations[k] /\ x = [e EXCEPT !["used"] = v]
  OBVIOUS
<1>1. e \in Entries /\ allocations' = [allocations EXCEPT ![k] = x]
  BY DEF Writes, Tables, Entries
<1>2. /\ x \in Entries /\ x.page_count = e.page_count /\ x.start_page = e.start_page
      /\ x.used <=> v
  BY <1>1 DEF Entries
<1> QED BY <1>1, <1>2, EntryWritten

(* A step of the call that leaves the list of calls and the frame's place. *)
LEMMA TypesInPlace ==
  ASSUME RaceTypes, NEW s \in Contexts, Moves(s), SameCall(frame[s], frame'[s]),
         Placed(frame'[s]), HeapTypes', UNCHANGED overlaps,
         Overlapped => \A i \in Slots : allocations'[i].page_count <= 1
  PROVE  RaceTypes'
<1>1. FrameOK(frame'[s])
  <2>1. frame'[s] \in Frames /\ FrameOK(frame[s])
    BY FrameIs DEF Moves
  <2> QED BY <2>1, SameCallOK
<1>2. frame'[s].command = frame[s].command
  BY DEF SameCall
<1> QED BY <1>1, <1>2, TypesMove

(* The label a step goes to asks nothing that the label it leaves did not. *)
Onward(f, l) ==
  \/ f.pc \in {"start_page", "page_count", "used", "count"}
       /\ l \in {"page_count", "used", "count", "counted"}
  \/ f.pc \in Giving /\ l \in Giving \ {"clear", "uncounted"}

LEMMA PlacedOn ==
  ASSUME NEW f \in Frames, NEW g \in Frames, Placed(f), SameCall(f, g), SamePlace(f, g),
         Onward(f, g.pc)
  PROVE  Placed(g)
BY DEF Placed, SameCall, SamePlace, Onward, AllocLabels, FreeLabels, Claiming, Giving

LEMMA FieldStep ==
  ASSUME RaceTypes, NEW s \in Contexts, NEW l \in Labels, NEW here, NEW field, NEW v,
         SetField(s, here, field, v, l), Onward(frame[s], l), UNCHANGED overlaps,
         Touches(frame[s].slot),
         Overlapped => allocations'[frame[s].slot].page_count <= 1
  PROVE  RaceTypes'
<1>1. Goto(s, l) /\ UNCHANGED <<page_bitmap, allocated_pages>>
  BY DEF SetField
<1>2. /\ Moves(s) /\ SameCall(frame[s], frame'[s]) /\ SamePlace(frame[s], frame'[s])
      /\ frame'[s].pc = l
  BY <1>1, Went, FrameIs
<1>3. Placed(frame'[s])
  <2>1. frame'[s] \in Frames /\ frame[s] \in Frames /\ Placed(frame[s])
    BY <1>2, FrameIs DEF Moves
  <2> QED BY <1>2, <2>1, PlacedOn
<1>4. HeapTypes'
  BY <1>1, FrameIs DEF HeapTypes, Touches
<1>5. Overlapped => \A i \in Slots : allocations'[i].page_count <= 1
  BY DEF RaceTypes, Touches
<1> QED BY <1>2, <1>3, <1>4, <1>5, TypesInPlace

LEMMA TypesClaim ==
  ASSUME RaceTypes, NEW s \in Contexts, Claim(s), UNCHANGED overlaps
  PROVE  RaceTypes'
<1> PICK k : k = frame[s].slot
  OBVIOUS
<1>0. frame[s].pc \in Claiming \ {"counted", "mark", "set"}
  BY DEF Claim, SetField, At, Claiming
<1>1. /\ k \in Slots /\ frame[s].start \in Pages /\ frame[s].calls # <<>>
      /\ allocations \in Tables
  BY <1>0, FrameIs DEF Placed, Claiming, AllocLabels
<1>2. Overlapped => allocations[k].page_count <= 1
  BY <1>1 DEF RaceTypes
<1>3. CASE SetField(s, "start_page", "start_page", Block(s), "page_count")
  <2>1. Writes(k, "start_page", frame[s].start) /\ frame[s].pc = "start_page"
    BY <1>3 DEF SetField, Writes, Block, At
  <2>2. Touches(k) /\ allocations'[k].page_count = allocations[k].page_count
    BY <1>1, <2>1, StartWritten
  <2>3. Onward(frame[s], "page_count") /\ "page_count" \in Labels
    BY <2>1 DEF Onward, Labels, AllocLabels, Claiming
  <2> QED BY <1>2, <1>3, <2>2, <2>3, FieldStep
<1>4. CASE SetField(s, "page_count", "page_count", Call(s).pages, "used")
  <2>1. Writes(k, "page_count", Call(s).pages) /\ frame[s].pc = "page_count"
    BY <1>4 DEF SetField, Writes, Block, At
  <2>2. Touches(k) /\ allocations'[k].page_count = Call(s).pages
    BY <1>1, <2>1, CountWritten, CallIs
  <2>3. Onward(frame[s], "used") /\ "used" \in Labels
    BY <2>1 DEF Onward, Labels, AllocLabels, Claiming
  <2>4. Overlapped => Call(s).pages <= 1
    BY <1>1, CallIs, FrameIs DEF FrameOK, Overlapped, SmallCalls
  <2> QED BY <1>4, <2>2, <2>3, <2>4, FieldStep
<1>5. CASE SetField(s, "used", "used", TRUE, "count")
  <2>1. Writes(k, "used", TRUE) /\ frame[s].pc = "used"
    BY <1>5 DEF SetField, Writes, Block, At
  <2>2. Touches(k) /\ allocations'[k].page_count = allocations[k].page_count
    BY <1>1, <2>1, UsedWritten
  <2>3. Onward(frame[s], "count") /\ "count" \in Labels
    BY <2>1 DEF Onward, Labels, AllocLabels, Claiming
  <2> QED BY <1>2, <1>5, <2>2, <2>3, FieldStep
<1> QED BY <1>3, <1>4, <1>5 DEF Claim

LEMMA ZeroIsPage == ASSUME RaceConstants PROVE 0 \in Pages
BY DEF RaceConstants, Pages

LEMMA TypesClear ==
  ASSUME RaceConstants, RaceTypes, NEW s \in Contexts, Clear(s), UNCHANGED overlaps
  PROVE  RaceTypes'
<1> PICK k : k = frame[s].slot
  OBVIOUS
<1>0. frame[s].pc \in {"no_start", "no_count", "unused"}
  BY DEF Clear, SetField, At
<1>1. k \in Slots /\ allocations \in Tables /\ 0 \in Pages
  BY <1>0, FrameIs, ZeroIsPage DEF Placed, Giving, FreeLabels
<1>2. Overlapped => allocations[k].page_count <= 1
  BY <1>1 DEF RaceTypes
<1>3. CASE SetField(s, "no_start", "start_page", 0, "no_count")
  <2>1. Writes(k, "start_page", 0) /\ frame[s].pc = "no_start"
    BY <1>3 DEF SetField, Writes, At
  <2>2. Touches(k) /\ allocations'[k].page_count = allocations[k].page_count
    BY <1>1, <2>1, StartWritten
  <2>3. Onward(frame[s], "no_count") /\ "no_count" \in Labels
    BY <2>1 DEF Onward, Labels, FreeLabels, Giving
  <2> QED BY <1>2, <1>3, <2>2, <2>3, FieldStep
<1>4. CASE SetField(s, "no_count", "page_count", 0, "unused")
  <2>1. Writes(k, "page_count", 0) /\ frame[s].pc = "no_count"
    BY <1>4 DEF SetField, Writes, At
  <2>2. Touches(k) /\ allocations'[k].page_count = 0
    BY <1>1, <2>1, CountWritten
  <2>3. Onward(frame[s], "unused") /\ "unused" \in Labels
    BY <2>1 DEF Onward, Labels, FreeLabels, Giving
  <2> QED BY <1>4, <2>2, <2>3, FieldStep
<1>5. CASE SetField(s, "unused", "used", FALSE, "return")
  <2>1. Writes(k, "used", FALSE) /\ frame[s].pc = "unused"
    BY <1>5 DEF SetField, Writes, At
  <2>2. Touches(k) /\ allocations'[k].page_count = allocations[k].page_count
    BY <1>1, <2>1, UsedWritten
  <2>3. Onward(frame[s], "return") /\ "return" \in Labels
    BY <2>1 DEF Onward, Labels, FreeLabels, Giving
  <2> QED BY <1>2, <1>5, <2>2, <2>3, FieldStep
<1> QED BY <1>3, <1>4, <1>5 DEF Clear

LEMMA InHeap ==
  ASSUME RaceConstants, NEW p \in Pages, NEW n \in Nat, NEW i \in Nat, i < n,
         p + n <= TOTAL_PAGES
  PROVE  p + i \in Pages /\ p \in Nat
BY DEF RaceConstants, Pages

LEMMA TypesSetBit ==
  ASSUME RaceConstants, RaceTypes, NEW s \in Contexts, SetBit(s), UNCHANGED overlaps
  PROVE  RaceTypes'
<1> PICK f : f = frame[s]
  OBVIOUS
<1>1. /\ f.pc = "set" /\ UNCHANGED <<allocations, allocated_pages>>
      /\ page_bitmap' = Stored(f.start + f.i, f.byte \cup {f.start + f.i})
      /\ frame' = [frame EXCEPT ![s].pc = "mark", ![s].i = f.i + 1]
  BY DEF SetBit, At, Block
<1>2. /\ Placed(f) /\ f.i \in Nat /\ f.calls # <<>> /\ Head(f.calls).pages \in Nat
      /\ f.i < Head(f.calls).pages /\ f.start \in Pages
      /\ f.start + Head(f.calls).pages <= TOTAL_PAGES /\ f.byte \in PageSets
  BY <1>1, FrameIs, CallIs DEF Placed, AllocLabels, Claiming
<1>3. f.start + f.i \in Pages
  BY <1>2, InHeap
<1>4. HeapTypes'
  <2>1. f.byte \cup {f.start + f.i} \in PageSets
    BY <1>2, <1>3 DEF PageSets
  <2>2. page_bitmap' \subseteq Pages
    BY <1>1, <2>1, StoredPages, FrameIs
  <2> QED BY <1>1, <2>2, FrameIs DEF HeapTypes
<1>5. /\ Moves(s) /\ SameCall(f, frame'[s]) /\ frame'[s].pc = "mark"
      /\ frame'[s].i = f.i + 1
      /\ frame'[s].start = f.start /\ frame'[s].slot = f.slot
  <2>1. SetsIndex(s, "mark", f.i + 1) /\ "mark" \in Labels /\ f.i + 1 \in Nat
    BY <1>1, <1>2 DEF SetsIndex, Labels, AllocLabels, Claiming
  <2> QED BY <2>1, Advanced, FrameIs
<1>6. Placed(frame'[s])
  BY <1>1, <1>2, <1>5 DEF Placed, SameCall, AllocLabels, FreeLabels, Claiming, Giving
<1>7. Overlapped => \A i \in Slots : allocations'[i].page_count <= 1
  BY <1>1 DEF RaceTypes
<1> QED BY <1>4, <1>5, <1>6, <1>7, TypesInPlace

LEMMA TypesLoadTotal ==
  ASSUME RaceTypes, NEW s \in Contexts, LoadTotal(s), UNCHANGED overlaps
  PROVE  RaceTypes'
<1>1. /\ frame[s].pc = "count" /\ UNCHANGED heap
      /\ SetsTotal(s, "counted", allocated_pages)
  BY DEF LoadTotal, At, SetsTotal
<1>2. allocated_pages \in Int /\ "counted" \in Labels
  BY FrameIs DEF Labels, AllocLabels, Claiming
<1>3. /\ Moves(s) /\ SameCall(frame[s], frame'[s]) /\ SamePlace(frame[s], frame'[s])
      /\ frame'[s].pc = "counted"
  BY <1>1, <1>2, Totalled, FrameIs DEF SamePlace
<1>4. Placed(frame'[s])
  <2>1. frame'[s] \in Frames /\ frame[s] \in Frames /\ Placed(frame[s])
    BY <1>3, FrameIs DEF Moves
  <2>2. Onward(frame[s], frame'[s].pc)
    BY <1>1, <1>3 DEF Onward
  <2> QED BY <1>3, <2>1, <2>2, PlacedOn
<1> QED BY <1>1, <1>3, <1>4, TypesQuiet

LEMMA TypesCount ==
  ASSUME RaceConstants, RaceTypes, NEW s \in Contexts, Count(s), UNCHANGED overlaps
  PROVE  RaceTypes'
<1>1. /\ frame[s].pc = "counted" /\ UNCHANGED <<page_bitmap, allocations>>
      /\ allocated_pages' = (frame[s].total + Call(s).pages) % WORD
      /\ CallReturns(s, frame[s].start)
  BY DEF Count, At, Block
<1>2. /\ frame[s].calls # <<>> /\ Head(frame[s].calls).op = "kmalloc"
      /\ frame[s].start \in Pages
  BY <1>1, FrameIs DEF Placed, AllocLabels, Claiming
<1>3. HeapTypes'
  <2>1. frame[s].total + Call(s).pages \in Int /\ WORD \in Nat \ {0}
    BY <1>2, FrameIs, CallIs DEF RaceConstants
  <2>2. allocated_pages' \in 0..(WORD - 1)
    BY <1>1, <2>1, ModRange
  <2> QED BY <1>1, <2>2, FrameIs DEF HeapTypes
<1> QED BY <1>1, <1>2, <1>3, TypesReturn DEF FreeLabels, Giving

LEMMA TypesSearch ==
  ASSUME RaceTypes, NEW s \in Contexts, Search(s), UNCHANGED overlaps
  PROVE  RaceTypes'
<1> PICK p : p = frame[s].at[Call(s).pointer]
  OBVIOUS
<1>1. frame[s].pc = "search" /\ UNCHANGED heap
  BY DEF Search, At
<1>2. frame[s].calls # <<>> /\ Placed(frame[s]) /\ Head(frame[s].calls).op = "kfree"
  BY <1>1, FrameIs DEF Placed, FreeLabels
<1>3. p \in Pages
  BY <1>1, <1>2, CallIs DEF Placed
<1>4. CASE CallReturns(s, None)
  <2>1. HeapTypes' /\ UNCHANGED allocations
    BY <1>1, TypesSameHeap DEF heap
  <2> QED BY <1>1, <1>2, <1>4, <2>1, TypesReturn
<1>5. ASSUME NEW k \in Holders(p), SetsBoth(s, "unmark", p, k)
      PROVE  RaceTypes'
  <2>1. k \in Slots /\ "unmark" \in Labels
    BY DEF Holders, Labels, FreeLabels, Giving
  <2>2. /\ Moves(s) /\ SameCall(frame[s], frame'[s]) /\ frame'[s].pc = "unmark"
        /\ frame'[s].start = p /\ frame'[s].slot = k /\ frame'[s].i = frame[s].i
    BY <1>3, <1>5, <2>1, Searched, FrameIs
  <2>3. Placed(frame'[s])
    BY <1>1, <1>2, <1>3, <2>1, <2>2 DEF Placed, SameCall, AllocLabels, FreeLabels, Claiming,
       Giving
  <2> QED BY <1>1, <2>2, <2>3, TypesQuiet
<1> QED BY <1>4, <1>5 DEF Search, SetsBoth

LEMMA TypesUnmark ==
  ASSUME RaceTypes, NEW s \in Contexts, Unmark(s), UNCHANGED overlaps,
         frame[s].i < Held(s) => frame[s].start + frame[s].i \in Pages
  PROVE  RaceTypes'
<1>1. frame[s].pc = "unmark" /\ UNCHANGED heap
  BY DEF Unmark, At
<1>2. frame[s] \in Frames /\ Placed(frame[s])
  BY FrameIs
<1>3. CASE frame[s].i < Held(s)
  <2>1. LoadByte(s, "clear") /\ "clear" \in Labels
    BY <1>3 DEF Unmark, Labels, FreeLabels, Giving
  <2>2. /\ Moves(s) /\ SameCall(frame[s], frame'[s]) /\ SamePlace(frame[s], frame'[s])
        /\ frame'[s].pc = "clear"
    BY <2>1, ByteLoaded
  <2>3. Placed(frame'[s])
    BY <1>1, <1>2, <1>3, <2>2 DEF Placed, SameCall, SamePlace, AllocLabels, FreeLabels,
       Claiming, Giving
  <2> QED BY <1>1, <2>2, <2>3, TypesQuiet
<1>4. CASE ~(frame[s].i < Held(s))
  <2>1. Goto(s, "uncount") /\ "uncount" \in Labels
    BY <1>4 DEF Unmark, Labels, FreeLabels, Giving
  <2>2. /\ Moves(s) /\ SameCall(frame[s], frame'[s]) /\ SamePlace(frame[s], frame'[s])
        /\ frame'[s].pc = "uncount"
    BY <2>1, Went, FrameIs
  <2>3. Onward(frame[s], frame'[s].pc) /\ frame'[s] \in Frames
    BY <1>1, <2>2 DEF Onward, Giving, Moves
  <2>4. Placed(frame'[s])
    BY <1>2, <2>2, <2>3, PlacedOn
  <2> QED BY <1>1, <2>2, <2>4, TypesQuiet
<1> QED BY <1>3, <1>4

LEMMA TypesClearBit ==
  ASSUME RaceTypes, NEW s \in Contexts, ClearBit(s), UNCHANGED overlaps
  PROVE  RaceTypes'
<1> PICK f : f = frame[s]
  OBVIOUS
<1>1. /\ f.pc = "clear" /\ UNCHANGED <<allocations, allocated_pages>>
      /\ page_bitmap' = Stored(f.start + f.i, f.byte \ {f.start + f.i})
      /\ frame' = [frame EXCEPT ![s].pc = "unmark", ![s].i = f.i + 1]
  BY DEF ClearBit, At, Block
<1>2. Placed(f) /\ f.i \in Nat /\ f.byte \in PageSets
  BY FrameIs
<1>3. HeapTypes'
  <2>1. f.byte \ {f.start + f.i} \in PageSets
    BY <1>2 DEF PageSets
  <2>2. page_bitmap' \subseteq Pages
    BY <1>1, <2>1, StoredPages, FrameIs
  <2> QED BY <1>1, <2>2, FrameIs DEF HeapTypes
<1>4. /\ Moves(s) /\ SameCall(f, frame'[s]) /\ frame'[s].pc = "unmark"
      /\ frame'[s].i = f.i + 1
      /\ frame'[s].start = f.start /\ frame'[s].slot = f.slot
  <2>1. SetsIndex(s, "unmark", f.i + 1) /\ "unmark" \in Labels /\ f.i + 1 \in Nat
    BY <1>1, <1>2 DEF SetsIndex, Labels, FreeLabels, Giving
  <2> QED BY <2>1, Advanced, FrameIs
<1>5. Placed(frame'[s])
  BY <1>1, <1>2, <1>4 DEF Placed, SameCall, AllocLabels, FreeLabels, Claiming, Giving
<1>6. Overlapped => \A i \in Slots : allocations'[i].page_count <= 1
  BY <1>1 DEF RaceTypes
<1> QED BY <1>3, <1>4, <1>5, <1>6, TypesInPlace

LEMMA TypesLoadRest ==
  ASSUME RaceConstants, RaceTypes, NEW s \in Contexts, LoadRest(s), UNCHANGED overlaps
  PROVE  RaceTypes'
<1>1. /\ frame[s].pc = "uncount" /\ UNCHANGED heap
      /\ SetsTotal(s, "uncounted", (allocated_pages - Held(s)) % WORD)
  BY DEF LoadRest, At, SetsTotal
<1>2. frame[s].slot \in Slots /\ Held(s) \in Nat
  BY <1>1, FrameIs DEF Placed, Giving, FreeLabels, Held, Tables
<1>3. (allocated_pages - Held(s)) % WORD \in 0..(WORD - 1) /\ "uncounted" \in Labels
  <2>1. allocated_pages - Held(s) \in Int /\ WORD \in Nat \ {0}
    BY <1>2, FrameIs DEF RaceConstants
  <2> QED BY <2>1, ModRange DEF Labels, FreeLabels, Giving
<1>4. (allocated_pages - Held(s)) % WORD \in Int
  BY <1>3 DEF RaceConstants
<1>5. /\ Moves(s) /\ SameCall(frame[s], frame'[s]) /\ SamePlace(frame[s], frame'[s])
      /\ frame'[s].pc = "uncounted"
      /\ frame'[s].total = (allocated_pages - Held(s)) % WORD
  BY <1>1, <1>3, <1>4, Totalled, FrameIs DEF SamePlace
<1>6. Placed(frame'[s])
  <2>1. Placed(frame[s])
    BY FrameIs
  <2> QED BY <1>1, <1>3, <1>5, <2>1 DEF Placed, SameCall, SamePlace, AllocLabels, FreeLabels,
             Claiming, Giving
<1> QED BY <1>1, <1>3, <1>5, <1>6, TypesQuiet

LEMMA TypesReturnStep ==
  ASSUME RaceTypes, NEW s \in Contexts, Return(s), UNCHANGED overlaps
  PROVE  RaceTypes'
<1>1. frame[s].pc = "return" /\ CallReturns(s, None) /\ UNCHANGED heap
  BY DEF Return, At
<1>2. frame[s].calls # <<>>
  BY <1>1, FrameIs DEF Placed, FreeLabels, Giving
<1>3. HeapTypes' /\ UNCHANGED allocations
  BY <1>1, TypesSameHeap DEF heap
<1> QED BY <1>1, <1>2, <1>3, TypesReturn

LEMMA TypesUncount ==
  ASSUME RaceTypes, NEW s \in Contexts, Uncount(s), UNCHANGED overlaps
  PROVE  RaceTypes'
<1>1. /\ frame[s].pc = "uncounted" /\ Goto(s, "no_start") /\ "no_start" \in Labels
      /\ allocated_pages' = frame[s].total /\ UNCHANGED <<page_bitmap, allocations>>
  BY DEF Uncount, At, Labels, FreeLabels, Giving
<1>2. /\ Moves(s) /\ SameCall(frame[s], frame'[s]) /\ SamePlace(frame[s], frame'[s])
      /\ frame'[s].pc = "no_start"
  BY <1>1, Went, FrameIs
<1>3. Placed(frame'[s])
  <2>1. frame'[s] \in Frames /\ frame[s] \in Frames /\ Placed(frame[s])
    BY <1>2, FrameIs DEF Moves
  <2>2. Onward(frame[s], frame'[s].pc)
    BY <1>1, <1>2 DEF Onward, Giving
  <2> QED BY <1>2, <2>1, <2>2, PlacedOn
<1>4. HeapTypes'
  <2>1. frame[s].total \in 0..(WORD - 1)
    BY <1>1, FrameIs DEF Placed
  <2> QED BY <1>1, <2>1, FrameIs DEF HeapTypes
<1>5. Overlapped => \A i \in Slots : allocations'[i].page_count <= 1
  BY <1>1 DEF RaceTypes
<1> QED BY <1>2, <1>3, <1>4, <1>5, TypesInPlace

(* The step of a call, but for the end of a command.  A page that is       *)
(* unmarked lies in the heap; that is no matter of types.                  *)
LEMMA TypesStep ==
  ASSUME RaceConstants, RaceTypes, NEW s \in Contexts, Step(s), UNCHANGED overlaps,
         At(s, "call") => frame[s].calls # <<>>,
         At(s, "unmark") /\ frame[s].i < Held(s) => frame[s].start + frame[s].i \in Pages
  PROVE  RaceTypes'
<1>1. CASE NextCall(s)
  <2>1. frame[s].calls # <<>>
    BY <1>1 DEF NextCall
  <2> QED BY <1>1, <2>1, TypesNextCall
<1>2. CASE FindPages(s) \/ FindSlot(s) \/ Mark(s)
  BY <1>2, TypesFindPages, TypesFindSlot, TypesMark
<1>3. CASE SetBit(s) \/ Claim(s) \/ LoadTotal(s) \/ Count(s)
  BY <1>3, TypesSetBit, TypesClaim, TypesLoadTotal, TypesCount
<1>4. CASE Unmark(s)
  <2>1. frame[s].i < Held(s) => frame[s].start + frame[s].i \in Pages
    BY <1>4 DEF Unmark
  <2> QED BY <1>4, <2>1, TypesUnmark
<1>5. CASE Search(s) \/ ClearBit(s) \/ LoadRest(s) \/ Uncount(s)
  BY <1>5, TypesSearch, TypesClearBit, TypesLoadRest, TypesUncount
<1>6. CASE Clear(s) \/ Return(s)
  BY <1>6, TypesClear, TypesReturnStep
<1> QED BY <1>1, <1>2, <1>3, <1>4, <1>5, <1>6 DEF Step

LEMMA AllocIs ==
  ASSUME NEW p \in Pointers, NEW n \in Nat
  PROVE  /\ Alloc(p, n) \in Requests /\ Alloc(p, n).op = "kmalloc" /\ Alloc(p, n).pages = n
         /\ Alloc(p, n).pointer = p
BY DEF Alloc, Requests

(* The commands release all that they allocate.                            *)
LEMMA MemtestIs ==
  memtest \in Lists /\ Balanced(memtest) /\ SmallCalls(memtest) /\ memtest # <<>>
<1>1. /\ Len(memtest) = 2 /\ memtest[1] = Alloc("a", 1)
      /\ memtest[2] = Release("a")
  BY DEF memtest
<1>2. "a" \in Pointers /\ Alloc("a", 1) \in Requests /\ Release("a") \in Requests
  BY AllocIs, ReleaseIs DEF Pointers
<1>3. memtest \in Lists
  BY <1>2 DEF memtest, Lists
<1>4. /\ memtest[1].op = "kmalloc" /\ memtest[1].pages = 1 /\ memtest[1].pointer = "a"
      /\ memtest[2].op = "kfree"
  BY <1>1, <1>2, AllocIs, ReleaseIs
<1>5. Balanced(memtest)
  <2>1. \A k \in 1..Len(memtest) : memtest[k].op = "kmalloc" => k = 1
    BY <1>1, <1>4
  <2>2. 2 \in (1 + 1)..Len(memtest)
    BY <1>1
  <2> QED BY <1>1, <1>4, <2>1, <2>2 DEF Balanced
<1>6. memtest[2].pages = 0
  BY <1>1 DEF Release
<1>7. SmallCalls(memtest)
  BY <1>1, <1>4, <1>6 DEF SmallCalls
<1> QED BY <1>1, <1>3, <1>5, <1>7

LEMMA MemstressIs ==
  ASSUME RaceConstants
  PROVE  memstress \in Lists /\ Balanced(memstress) /\ memstress # <<>>
<1> PICK m : m = memstress
  OBVIOUS
<1>1. /\ m = <<Alloc("a", PAGES_A), Alloc("b", PAGES_B), Alloc("c", PAGES_C), Release("b"),
               Alloc("d", PAGES_B), Release("a"), Release("c"), Release("d")>>
  BY DEF memstress
<1>2. /\ PAGES_A \in Nat \ {0} /\ PAGES_B \in Nat \ {0} /\ PAGES_C \in Nat \ {0}
      /\ {"a", "b", "c", "d"} = Pointers
  BY DEF RaceConstants, Pointers
<1>3. /\ Alloc("a", PAGES_A) \in Requests /\ Alloc("b", PAGES_B) \in Requests
      /\ Alloc("c", PAGES_C) \in Requests /\ Alloc("d", PAGES_B) \in Requests
      /\ \A p \in Pointers : Release(p) \in Requests
  BY <1>2, AllocIs, ReleaseIs
<1>4. /\ Len(m) = 8 /\ m[1] = Alloc("a", PAGES_A) /\ m[2] = Alloc("b", PAGES_B)
      /\ m[3] = Alloc("c", PAGES_C) /\ m[4] = Release("b")
      /\ m[5] = Alloc("d", PAGES_B)
      /\ m[6] = Release("a") /\ m[7] = Release("c") /\ m[8] = Release("d")
  BY <1>1
<1>5. m \in Lists
  BY <1>1, <1>2, <1>3 DEF Lists
<1>6. /\ \A k \in {1, 2, 3, 5} : m[k].op = "kmalloc" /\ m[k].pages > 0
      /\ m[1].pointer = "a" /\ m[2].pointer = "b" /\ m[3].pointer = "c"
      /\ m[5].pointer = "d"
      /\ \A k \in {4, 6, 7, 8} : m[k].op = "kfree"
  BY <1>2, <1>4, AllocIs, ReleaseIs
<1>7. \A k \in 1..Len(m) : k \in {1, 2, 3, 5} \/ k \in {4, 6, 7, 8}
  BY <1>4
<1>8. \A k \in 1..Len(m) : m[k].op = "kmalloc" => k \in {1, 2, 3, 5}
  BY <1>6, <1>7
<1>9. \A k, n \in {1, 2, 3, 5} : n # k => m[n].pointer # m[k].pointer
  BY <1>6
<1>10. \A k \in {1, 2, 3, 5} : \E n \in (k + 1)..Len(m) : m[n] = Release(m[k].pointer)
  <2>1. 6 \in (1 + 1)..Len(m) /\ 4 \in (2 + 1)..Len(m) /\ 7 \in (3 + 1)..Len(m)
        /\ 8 \in (5 + 1)..Len(m)
    BY <1>4
  <2> QED BY <1>4, <1>6, <2>1
<1>11. Balanced(m)
  <2> SUFFICES ASSUME NEW k \in 1..Len(m), m[k].op = "kmalloc"
               PROVE  /\ m[k].pages > 0
                      /\ \E n \in (k + 1)..Len(m) : m[n] = Release(m[k].pointer)
                      /\ \A n \in 1..Len(m) :
                           n # k /\ m[n].op = "kmalloc" => m[n].pointer # m[k].pointer
    BY DEF Balanced
  <2>1. k \in {1, 2, 3, 5}
    BY <1>8
  <2>2. m[k].pages > 0
    BY <1>6, <2>1
  <2>3. \E n \in (k + 1)..Len(m) : m[n] = Release(m[k].pointer)
    BY <1>10, <2>1
  <2>4. \A n \in 1..Len(m) : n # k /\ m[n].op = "kmalloc" => m[n].pointer # m[k].pointer
    BY ONLY <1>8, <1>9, <2>1
  <2> QED BY <2>2, <2>3, <2>4
<1> QED BY <1>4, <1>5, <1>11

(* A context that polls, the boot and the reboot.                          *)
LEMMA PollingFrame ==
  /\ Polling \in Frames /\ FrameOK(Polling) /\ Polling.pc = "idle"
  /\ Polling.command = "none" /\ \A p \in Pointers : Polling.at[p] = None
<1>1. /\ Polling.pc = "idle" /\ Polling.command = "none" /\ Polling.calls = <<>>
      /\ Polling.at = [p \in Pointers |-> None] /\ Polling.start = None
      /\ Polling.slot = None
      /\ Polling.i = 0 /\ Polling.byte = {} /\ Polling.total = 0
  BY DEF Polling
<1>2. /\ "idle" \in Labels /\ "none" \in Commands /\ <<>> \in Lists
      /\ [p \in Pointers |-> None] \in Holdings /\ {} \in PageSets
      /\ None \in Pages \cup {None} /\ None \in Slots \cup {None}
      /\ 0 \in Nat /\ 0 \in Int
  BY DEF Labels, Commands, Lists, Holdings, PageSets
<1>3. Polling \in Frames
  <2> PICK e, a, c : e = {} /\ a = [p \in Pointers |-> None] /\ c = <<>>
    OBVIOUS
  <2>1. Polling = [pc |-> "idle", command |-> "none", calls |-> c, at |-> a, start |-> None,
                   slot |-> None, i |-> 0, byte |-> e, total |-> 0]
    BY DEF Polling
  <2>2. a \in Holdings /\ c \in Lists /\ e \in PageSets
    BY <1>2
  <2> QED BY <1>2, <2>1, <2>2 DEF Frames
<1>4. Len(<<>>) = 0 /\ 1..0 = {}
  OBVIOUS
<1>5. Placed(Polling)
  BY <1>1 DEF Placed, AllocLabels, FreeLabels, Claiming, Giving
<1>6. \A p \in Pointers : Polling.at[p] = None
  BY <1>1
<1>7. Balanced(Polling.calls) /\ SmallCalls(Polling.calls)
  BY <1>1, <1>4 DEF Balanced, SmallCalls
<1>8. Owed(Polling.calls, Polling.at)
  BY <1>6 DEF Owed
<1> QED BY <1>1, <1>3, <1>5, <1>6, <1>7, <1>8 DEF FrameOK

LEMMA TypesInit ==
  ASSUME RaceConstants, RaceInit PROVE RaceTypes
<1>1. frame \in [Contexts -> Frames] /\ \A s \in Contexts : FrameOK(frame[s])
  BY PollingFrame DEF RaceInit, HeapClean
<1>2. Free \in [start_page : Pages, page_count : Nat, used : BOOLEAN]
      /\ Free.page_count = 0
  BY ZeroIsPage DEF Free
<1>3. allocations \in Tables /\ \A i \in Slots : allocations[i].page_count <= 1
  BY <1>2 DEF RaceInit, HeapClean, Tables
<1>4. HeapTypes
  BY <1>3 DEF RaceInit, HeapClean, HeapTypes, RaceConstants
<1>5. overlaps = 0
  BY DEF RaceInit, HeapClean
<1> QED BY <1>1, <1>3, <1>4, <1>5 DEF RaceTypes

LEMMA TypesReboot ==
  ASSUME RaceConstants, RaceTypes, Reboot PROVE RaceTypes'
<1>1. /\ page_bitmap' = {} /\ allocated_pages' = 0
      /\ allocations' = [i \in Slots |-> Free]
      /\ overlaps' = 0 /\ UNCHANGED frame
  BY DEF Reboot
<1>2. Free \in [start_page : Pages, page_count : Nat, used : BOOLEAN]
      /\ Free.page_count = 0
  BY ZeroIsPage DEF Free
<1>3. allocations' \in Tables /\ \A i \in Slots : allocations'[i].page_count <= 1
  BY <1>1, <1>2 DEF Tables
<1>4. HeapTypes'
  BY <1>1, <1>3 DEF HeapTypes, RaceConstants
<1> QED BY <1>1, <1>3, <1>4 DEF RaceTypes

Enters(s, c, l) == frame' = [frame EXCEPT ![s].pc = "call", ![s].command = c, ![s].calls = l]

LEMMA Entered ==
  ASSUME frame \in [Contexts -> Frames], NEW s \in Contexts, NEW c \in Commands,
         NEW l \in Lists,
         Enters(s, c, l)
  PROVE  /\ Moves(s) /\ SamePlace(frame[s], frame'[s])
         /\ frame'[s].pc = "call" /\ frame'[s].command = c /\ frame'[s].calls = l
         /\ frame'[s].at = frame[s].at /\ frame'[s].byte = frame[s].byte
         /\ frame'[s].total = frame[s].total
<1> DEFINE g == [frame[s] EXCEPT !.pc = "call", !.command = c, !.calls = l]
<1>1. frame[s] \in Frames /\ frame' = [frame EXCEPT ![s] = g]
  BY DEF Enters
<1>2. "call" \in Labels
  BY DEF Labels
<1>3. g \in Frames
  BY <1>1, <1>2 DEF Frames
<1>4. /\ g.pc = "call" /\ g.command = c /\ g.calls = l /\ g.at = frame[s].at
      /\ g.byte = frame[s].byte /\ g.total = frame[s].total
      /\ SamePlace(frame[s], g)
  BY <1>1 DEF Frames, SamePlace
<1> HIDE DEF g
<1>5. Moves(s) /\ frame'[s] = g
  BY <1>1, <1>3 DEF Moves
<1> QED BY <1>4, <1>5

LEMMA IdleHoldsNothing ==
  ASSUME NEW f, FrameOK(f), f.calls = <<>>
  PROVE  \A p \in Pointers : f.at[p] = None
<1>1. Len(<<>>) = 0 /\ 1..0 = {}
  OBVIOUS
<1> QED BY <1>1 DEF FrameOK, Owed

(* A command begins, and ends.                                             *)
LEMMA TypesEnter ==
  ASSUME RaceConstants, RaceTypes, NEW s \in Contexts, Enter(s)
  PROVE  RaceTypes' /\ Moves(s) /\ UNCHANGED heap /\ frame'[s].pc = "call"
         /\ frame'[s].at = frame[s].at /\ SamePlace(frame[s], frame'[s])
<1> PICK c : /\ c \in IF overlaps' > 0 THEN Overlapping ELSE {"memtest", "memstress"}
             /\ Enters(s, c, IF c = "memtest" THEN memtest ELSE memstress)
  BY DEF Enter, Enters
<1>1. /\ frame[s].pc = "idle" /\ UNCHANGED heap
      /\ \A t \in Contexts : frame[t].command \in Overlapping \cup {"none"}
      /\ overlaps' = overlaps + 1 \/ overlaps' = 0
  BY DEF Enter, At
<1>2. overlaps' \in Nat /\ c \in {"memtest", "memstress"} /\ (overlaps' > 0 => c = "memtest")
  BY <1>1 DEF RaceTypes, RaceConstants
<1> PICK l : l = IF c = "memtest" THEN memtest ELSE memstress
  OBVIOUS
<1>3. l \in Lists /\ Balanced(l) /\ l # <<>> /\ (c # "memstress" => SmallCalls(l))
  BY <1>2, MemtestIs, MemstressIs
<1>4. c \in Commands
  BY <1>2 DEF Commands
<1> PICK f, g : f = frame[s] /\ g = frame'[s]
  OBVIOUS
<1>5. /\ Moves(s) /\ SamePlace(f, g) /\ g.pc = "call" /\ g.command = c /\ g.calls = l
      /\ g.at = f.at
  BY <1>3, <1>4, Entered, FrameIs
<1>6. FrameOK(g)
  <2>1. FrameOK(f) /\ Placed(f) /\ f.pc = "idle"
    BY <1>1, FrameIs
  <2>2. f.calls = <<>> /\ f.i = 0
    BY <2>1 DEF Placed
  <2>3. \A p \in Pointers : g.at[p] = None
    BY <1>5, <2>1, <2>2, IdleHoldsNothing
  <2>4. Owed(g.calls, g.at)
    BY <2>3 DEF Owed
  <2>5. Placed(g)
    BY <1>5, <2>2 DEF Placed, SamePlace, AllocLabels, FreeLabels, Claiming, Giving
  <2>6. g \in Frames
    BY <1>5 DEF Moves
  <2> QED BY <1>3, <1>5, <2>4, <2>5, <2>6 DEF FrameOK
<1>7. HeapTypes'
  BY <1>1, TypesSameHeap
<1>8. overlaps' > 0 => Overlapped'
  <2> SUFFICES ASSUME overlaps' > 0, NEW t \in Contexts PROVE frame'[t].command # "memstress"
    BY DEF Overlapped
  <2>1. CASE t = s
    BY <1>2, <1>5, <2>1
  <2>2. CASE t # s
    BY <1>1, <1>5, <2>2 DEF Moves, RaceConstants
  <2> QED BY <2>1, <2>2
<1>9. Overlapped' => \A i \in Slots : allocations'[i].page_count <= 1
  <2>1. f.command = "none"
    BY <1>1, FrameIs DEF Placed
  <2>2. Overlapped' => Overlapped
    BY <1>5, <2>1 DEF Overlapped, Moves
  <2> QED BY <1>1, <2>2 DEF RaceTypes, heap
<1>10. \A t \in Contexts : FrameOK(frame'[t])
  BY <1>5, <1>6 DEF Moves, RaceTypes
<1>11. frame' \in [Contexts -> Frames]
  BY <1>5 DEF Moves
<1>12. RaceTypes'
  BY <1>2, <1>7, <1>8, <1>9, <1>10, <1>11 DEF RaceTypes
<1> QED BY <1>1, <1>5, <1>12

LEMMA TypesEnd ==
  ASSUME RaceTypes, NEW s \in Contexts, NextCall(s), frame[s].calls = <<>>,
         UNCHANGED overlaps,
         frame[s].command = "memstress" => \A i \in Slots : allocations[i].page_count <= 1
  PROVE  RaceTypes' /\ Moves(s) /\ UNCHANGED heap /\ frame'[s] = Polling
<1>1. UNCHANGED heap /\ frame' = [frame EXCEPT ![s] = Polling]
  BY DEF NextCall
<1>2. Moves(s) /\ frame'[s] = Polling
  BY <1>1, FrameIs, PollingFrame DEF Moves
<1>3. frame' \in [Contexts -> Frames] /\ \A t \in Contexts : FrameOK(frame'[t])
  BY <1>2, PollingFrame DEF Moves, RaceTypes
<1>4. HeapTypes'
  BY <1>1, TypesSameHeap
<1>5. \A t \in Contexts : t # s => frame'[t].command = frame[t].command
  BY <1>2 DEF Moves
<1>6. frame'[s].command = "none"
  BY <1>2, PollingFrame
<1>7. Overlapped => Overlapped'
  BY <1>5, <1>6 DEF Overlapped
<1>8. Overlapped' => \A i \in Slots : allocations'[i].page_count <= 1
  <2>1. CASE frame[s].command = "memstress"
    BY <1>1, <2>1 DEF heap
  <2>2. CASE frame[s].command # "memstress"
    <3>1. Overlapped' => Overlapped
      BY <1>5, <2>2 DEF Overlapped
    <3> QED BY <1>1, <3>1 DEF heap, RaceTypes
  <2> QED BY <2>1, <2>2
<1>9. overlaps' \in Nat /\ (overlaps' > 0 => Overlapped')
  BY <1>7 DEF RaceTypes
<1>10. RaceTypes'
  BY <1>3, <1>4, <1>8, <1>9 DEF RaceTypes
<1> QED BY <1>1, <1>2, <1>10

(* The pages an entry names.                                               *)
BlockAt(e) == Run(e.start_page, e.page_count)

(* The entries of table a that are out, those in B left aside, and the     *)
(* pages they hold.                                                        *)
Kept(B, a) == {i \in Slots \ B : a[i].used}

PagesKept(B, a) == UNION {BlockAt(a[i]) : i \in Kept(B, a)}

(* The entries that no call is at work on: a pointer of the command holds  *)
(* each of their blocks, and no page is in two.                            *)
TableKept(B, at, a) ==
  /\ \A i \in Kept(B, a) :
       /\ a[i].page_count > 0 /\ a[i].start_page + a[i].page_count <= TOTAL_PAGES
       /\ \E p \in Pointers : at[p] = a[i].start_page
  /\ \A i, j \in Kept(B, a) : i # j => BlockAt(a[i]) \cap BlockAt(a[j]) = {}
  /\ \A i \in Slots \ B : ~a[i].used => a[i] = Free

(* The entries of a table, and the blocks they hold.                       *)
LEMMA EntryIs ==
  ASSUME NEW a \in Tables, NEW i \in Slots
  PROVE  a[i].start_page \in Pages /\ a[i].page_count \in Nat /\ a[i].used \in BOOLEAN
BY DEF Tables

LEMMA KeptIs ==
  ASSUME NEW B, NEW a
  PROVE  /\ \A i : i \in Kept(B, a) <=> i \in Slots /\ i \notin B /\ a[i].used
         /\ \A p : p \in PagesKept(B, a) <=> \E i \in Kept(B, a) : p \in BlockAt(a[i])
BY DEF Kept, PagesKept

(* Only the entry a call is at work on changes.                            *)
LEMMA KeptSame ==
  ASSUME NEW a \in Tables, NEW c \in Tables, NEW k \in Slots,
         \A i \in Slots : i # k => c[i] = a[i]
  PROVE  /\ PagesKept({k}, c) = PagesKept({k}, a) /\ Kept({k}, c) = Kept({k}, a)
         /\ \A i \in Kept({k}, a) : c[i] = a[i]
         /\ \A at : TableKept({k}, at, a) => TableKept({k}, at, c)
<1>1. Kept({k}, c) = Kept({k}, a) /\ \A i \in Slots \ {k} : c[i] = a[i]
  BY DEF Kept
<1>2. \A i \in Kept({k}, a) : i \in Slots \ {k} /\ c[i] = a[i]
  BY <1>1, KeptIs
<1>3. PagesKept({k}, c) = PagesKept({k}, a)
  BY <1>1, <1>2 DEF PagesKept
<1>4. ASSUME NEW at, TableKept({k}, at, a) PROVE TableKept({k}, at, c)
  BY <1>1, <1>2, <1>4 DEF TableKept
<1> QED BY <1>1, <1>2, <1>3, <1>4

(* The blocks lie in the heap, so their pages can be counted.              *)
LEMMA KeptInHeap ==
  ASSUME RaceConstants, NEW a \in Tables, NEW B, NEW at, TableKept(B, at, a)
  PROVE  /\ PagesKept(B, a) \subseteq Pages /\ IsFiniteSet(PagesKept(B, a))
         /\ Cardinality(PagesKept(B, a)) \in 0..TOTAL_PAGES
         /\ \A i \in Kept(B, a) : a[i].start_page \in BlockAt(a[i])
<1>1. ASSUME NEW i \in Kept(B, a)
      PROVE  BlockAt(a[i]) \subseteq Pages /\ a[i].start_page \in BlockAt(a[i])
  <2>1. /\ a[i].page_count \in Nat /\ a[i].start_page \in Pages /\ a[i].page_count > 0
        /\ a[i].start_page + a[i].page_count <= TOTAL_PAGES
    BY KeptIs, EntryIs DEF TableKept
  <2> QED BY <2>1 DEF BlockAt, Run, Pages, RaceConstants
<1>2. PagesKept(B, a) \subseteq Pages
  BY <1>1, KeptIs
<1>3. IsFiniteSet(Pages) /\ Cardinality(Pages) = TOTAL_PAGES
  <2>1. 0 \in Int /\ TOTAL_PAGES - 1 \in Int /\ TOTAL_PAGES \in Nat /\ TOTAL_PAGES > 0
    BY DEF RaceConstants
  <2>2. /\ IsFiniteSet(0..(TOTAL_PAGES - 1))
        /\ Cardinality(0..(TOTAL_PAGES - 1)) =
             IF 0 > TOTAL_PAGES - 1 THEN 0 ELSE (TOTAL_PAGES - 1) - 0 + 1
    BY <2>1, FS_Interval
  <2> QED BY <2>1, <2>2 DEF Pages
<1>4. /\ IsFiniteSet(PagesKept(B, a))
      /\ Cardinality(PagesKept(B, a)) <= Cardinality(Pages)
  BY <1>2, <1>3, FS_Subset
<1>5. Cardinality(PagesKept(B, a)) \in Nat
  BY <1>4, FS_CardinalityType
<1>6. Cardinality(PagesKept(B, a)) \in 0..TOTAL_PAGES
  BY <1>3, <1>4, <1>5 DEF RaceConstants
<1> QED BY <1>1, <1>2, <1>4, <1>6

(* kmalloc settles on a free entry.                                        *)
LEMMA TakeSlot ==
  ASSUME NEW a \in Tables, NEW at, TableKept({}, at, a), NEW k \in Slots, ~a[k].used
  PROVE  /\ PagesKept({k}, a) = PagesKept({}, a) /\ TableKept({k}, at, a)
<1>1. Kept({k}, a) = Kept({}, a)
  BY DEF Kept
<1> QED BY <1>1 DEF TableKept, PagesKept

(* The entry of block k is left aside, or no longer so.                    *)
LEMMA BlockApart ==
  ASSUME RaceConstants, NEW a \in Tables, NEW k \in Slots, a[k].used, NEW at,
         TableKept({k}, at, a), a[k].page_count > 0,
         a[k].start_page + a[k].page_count <= TOTAL_PAGES,
         BlockAt(a[k]) \cap PagesKept({k}, a) = {}
  PROVE  /\ Kept({}, a) = Kept({k}, a) \cup {k}
         /\ PagesKept({}, a) = PagesKept({k}, a) \cup BlockAt(a[k])
         /\ Cardinality(PagesKept({}, a)) = Cardinality(PagesKept({k}, a)) + a[k].page_count
<1>1. Kept({}, a) = Kept({k}, a) \cup {k}
  BY DEF Kept
<1>2. PagesKept({}, a) = PagesKept({k}, a) \cup BlockAt(a[k])
  BY <1>1 DEF PagesKept
<1>3. a[k].start_page \in Nat /\ a[k].page_count \in Nat
  BY EntryIs DEF Pages, RaceConstants
<1>4. IsFiniteSet(BlockAt(a[k])) /\ Cardinality(BlockAt(a[k])) = a[k].page_count
  BY <1>3, RunSize DEF BlockAt
<1>5. IsFiniteSet(PagesKept({k}, a)) /\ Cardinality(PagesKept({k}, a)) \in Nat
  BY KeptInHeap
<1> PICK P, Q : P = PagesKept({k}, a) /\ Q = BlockAt(a[k])
  OBVIOUS
<1>6. Cardinality(P \cup Q) = Cardinality(P) + Cardinality(Q) - Cardinality(P \cap Q)
  BY <1>4, <1>5, FS_Union
<1>7. P \cap Q = {} /\ Cardinality({}) = 0
  BY FS_EmptySet
<1>8. Cardinality(P \cup Q) = Cardinality(P) + Cardinality(Q) - 0
  BY <1>6, <1>7
<1>9. \A x, y \in Nat : x + y - 0 = x + y
  OBVIOUS
<1>10. Cardinality(P \cup Q) = Cardinality(P) + a[k].page_count
  BY <1>3, <1>4, <1>5, <1>8, <1>9
<1> QED BY <1>1, <1>2, <1>10

(* kmalloc has counted block k, and its pointer is returned.               *)
LEMMA AddBlock ==
  ASSUME RaceConstants, NEW a \in Tables, NEW k \in Slots, a[k].used, NEW at, NEW to,
         TableKept({k}, at, a), a[k].page_count > 0,
         a[k].start_page + a[k].page_count <= TOTAL_PAGES,
         BlockAt(a[k]) \cap PagesKept({k}, a) = {},
         \A p \in Pointers : at[p] # None => to[p] = at[p],
         \E p \in Pointers : to[p] = a[k].start_page
  PROVE  TableKept({}, to, a)
<1>1. Kept({}, a) = Kept({k}, a) \cup {k}
  BY BlockApart
<1>2. ASSUME NEW i \in Kept({}, a)
      PROVE  /\ a[i].page_count > 0 /\ a[i].start_page + a[i].page_count <= TOTAL_PAGES
             /\ \E p \in Pointers : to[p] = a[i].start_page
  <2>1. CASE i = k
    BY <2>1
  <2>2. CASE i \in Kept({k}, a)
    <3>1. PICK p \in Pointers : at[p] = a[i].start_page
      BY <2>2 DEF TableKept
    <3>2. a[i].start_page # None
      BY <2>2, KeptIs, EntryIs DEF Pages, None
    <3> QED BY <2>2, <3>1, <3>2 DEF TableKept
  <2> QED BY <1>1, <2>1, <2>2
<1>3. ASSUME NEW i \in Kept({}, a), NEW j \in Kept({}, a), i # j
      PROVE  BlockAt(a[i]) \cap BlockAt(a[j]) = {}
  <2>1. CASE i \in Kept({k}, a) /\ j \in Kept({k}, a)
    BY <1>3, <2>1 DEF TableKept
  <2>2. CASE i = k /\ j \in Kept({k}, a)
    BY <2>2, KeptIs
  <2>3. CASE j = k /\ i \in Kept({k}, a)
    BY <2>3, KeptIs
  <2> QED BY <1>1, <1>3, <2>1, <2>2, <2>3
<1>4. \A i \in Slots \ {} : ~a[i].used => a[i] = Free
  BY DEF TableKept
<1> QED BY <1>2, <1>3, <1>4 DEF TableKept

(* kfree has found block k.                                                *)
LEMMA TakeBlock ==
  ASSUME RaceConstants, NEW a \in Tables, NEW at, TableKept({}, at, a), NEW k \in Slots,
         a[k].used
  PROVE  /\ TableKept({k}, at, a) /\ a[k].page_count > 0
         /\ a[k].start_page + a[k].page_count <= TOTAL_PAGES
         /\ BlockAt(a[k]) \cap PagesKept({k}, a) = {}
         /\ \A i \in Kept({k}, a) : a[i].start_page # a[k].start_page
<1>1. k \in Kept({}, a) /\ Kept({k}, a) \subseteq Kept({}, a) /\ k \notin Kept({k}, a)
  BY DEF Kept
<1>2. TableKept({k}, at, a)
  BY <1>1 DEF TableKept
<1>3. a[k].page_count > 0 /\ a[k].start_page + a[k].page_count <= TOTAL_PAGES
  BY <1>1 DEF TableKept
<1>4. \A i \in Kept({k}, a) : BlockAt(a[k]) \cap BlockAt(a[i]) = {}
  BY <1>1 DEF TableKept
<1>5. BlockAt(a[k]) \cap PagesKept({k}, a) = {}
  BY <1>4, KeptIs
<1>6. \A i \in Kept({}, a) : a[i].start_page \in BlockAt(a[i])
  BY KeptInHeap
<1>7. \A i \in Kept({k}, a) : a[i].start_page # a[k].start_page
  BY <1>1, <1>4, <1>6
<1> QED BY <1>2, <1>3, <1>5, <1>7

(* kfree has emptied entry k, and its pointer is forgotten.                *)
LEMMA FreeEntry ==
  ASSUME NEW a \in Tables, NEW k \in Slots, a[k] = Free, NEW at, NEW to,
         TableKept({k}, at, a), NEW q \in Pointers,
         \A p \in Pointers : p # q => to[p] = at[p],
         \A i \in Kept({k}, a) : a[i].start_page # at[q]
  PROVE  PagesKept({}, a) = PagesKept({k}, a) /\ TableKept({}, to, a)
<1>1. ~a[k].used
  BY DEF Free
<1>2. Kept({}, a) = Kept({k}, a)
  BY <1>1 DEF Kept
<1>3. \A i \in Kept({k}, a) : \E p \in Pointers : to[p] = a[i].start_page
  BY DEF TableKept
<1> QED BY <1>2, <1>3 DEF TableKept, PagesKept

(* A pointer that no block is at is forgotten.                             *)
LEMMA ForgetPointer ==
  ASSUME NEW a \in Tables, NEW at, NEW to, TableKept({}, at, a), NEW q \in Pointers,
         \A p \in Pointers : p # q => to[p] = at[p],
         \A i \in Kept({}, a) : a[i].start_page # at[q]
  PROVE  TableKept({}, to, a)
<1>1. \A i \in Kept({}, a) : \E p \in Pointers : to[p] = a[i].start_page
  BY DEF TableKept
<1> QED BY <1>1 DEF TableKept

(* With every pointer NULL nothing is out.                                 *)
LEMMA NothingKept ==
  ASSUME NEW a \in Tables, NEW at, TableKept({}, at, a),
         \A p \in Pointers : at[p] = None
  PROVE  Kept({}, a) = {} /\ PagesKept({}, a) = {} /\ \A i \in Slots : a[i] = Free
<1>1. ASSUME NEW i \in Kept({}, a) PROVE FALSE
  BY KeptIs, EntryIs DEF TableKept, Pages, None
<1>2. Kept({}, a) = {}
  BY <1>1
<1>3. \A i \in Slots : ~a[i].used
  BY <1>2 DEF Kept
<1> QED BY <1>2, <1>3 DEF TableKept, PagesKept

(* What the two stores of a byte do to the bitmap.                         *)
LEMMA ByteStored ==
  ASSUME page_bitmap \subseteq Pages, NEW p \in Pages, NEW b,
         b = page_bitmap \cap ByteOf(p)
  PROVE  /\ Stored(p, b \cup {p}) = page_bitmap \cup {p}
         /\ Stored(p, b \ {p}) = page_bitmap \ {p}
<1>1. p \in ByteOf(p)
  BY ByteFacts
<1> QED BY <1>1 DEF Stored

(* No call is at work on an entry.                                         *)
Rest(f, b, a, n) ==
  /\ TableKept({}, f.at, a) /\ b = PagesKept({}, a) /\ n = Cardinality(b)
  /\ f.pc = "slot" => Run(f.start, Head(f.calls).pages) \cap b = {}

(* kmalloc at work on an entry e.                                          *)
EntryTaken(f, e) ==
  /\ f.pc \notin {"count", "counted"} => ~e.used
  /\ f.pc \in {"count", "counted"} => e.used
  /\ f.pc \in {"page_count", "used", "count", "counted"} => e.start_page = f.start
  /\ f.pc \in {"used", "count", "counted"} => e.page_count = Head(f.calls).pages

Takes(f, b, a, n) ==
  LET kept == PagesKept({f.slot}, a)
      size == Head(f.calls).pages
  IN /\ TableKept({f.slot}, f.at, a) /\ EntryTaken(f, a[f.slot])
     /\ n = Cardinality(kept) /\ Run(f.start, size) \cap kept = {}
     /\ f.pc \in {"mark", "set"} => b = kept \cup Run(f.start, f.i)
     /\ f.pc \notin {"mark", "set"} => b = kept \cup Run(f.start, size)
     /\ f.pc = "set" => f.byte = b \cap ByteOf(f.start + f.i)
     /\ f.pc = "counted" => f.total = n

(* kfree at work on an entry e.                                            *)
Uncleared == {"unmark", "clear", "uncount", "uncounted"}

EntryGiven(f, e) ==
  /\ f.pc # "return" => e.used
  /\ f.pc = "return" => ~e.used
  /\ f.pc \in Uncleared \cup {"no_start"} => e.start_page = f.start
  /\ f.pc \in {"no_count", "unused", "return"} => e.start_page = 0
  /\ f.pc \in Uncleared => e.page_count > 0 /\ f.start + e.page_count <= TOTAL_PAGES
  /\ f.pc \in {"unmark", "clear"} => f.i <= e.page_count
  /\ f.pc = "clear" => f.i < e.page_count
  /\ f.pc \in {"unused", "return"} => e.page_count = 0

Gives(f, b, a, n) ==
  LET kept == PagesKept({f.slot}, a)
      size == a[f.slot].page_count
  IN /\ TableKept({f.slot}, f.at, a) /\ EntryGiven(f, a[f.slot])
     /\ f.at[Head(f.calls).pointer] = f.start
     /\ \A i \in Kept({f.slot}, a) : a[i].start_page # f.start
     /\ f.pc \in Uncleared => n = Cardinality(kept) + size /\ Run(f.start, size) \cap kept = {}
     /\ f.pc \notin Uncleared => n = Cardinality(kept)
     /\ f.pc \in {"unmark", "clear"} => b = kept \cup ((f.start + f.i)..(f.start + size - 1))
     /\ f.pc \notin {"unmark", "clear"} => b = kept
     /\ f.pc = "clear" => f.byte = b \cap ByteOf(f.start + f.i)
     /\ f.pc = "uncounted" => f.total = n - size

Steady(f, b, a, n) ==
  /\ f.pc \notin Claiming \cup Giving => Rest(f, b, a, n)
  /\ f.pc \in Claiming => Takes(f, b, a, n)
  /\ f.pc \in Giving => Gives(f, b, a, n)

(* Before a step and after it.                                             *)
Now(s)  == Steady(frame[s], page_bitmap, allocations, allocated_pages)
Then(s) == Steady(frame'[s], page_bitmap', allocations', allocated_pages')

SameHeap == page_bitmap' = page_bitmap /\ allocations' = allocations
            /\ allocated_pages' = allocated_pages

(* The half of the invariant that speaks of one command alone, by label.   *)
LEMMA LabelSets ==
  /\ \A l \in {"idle", "call", "find", "slot", "search"} : l \notin Claiming \cup Giving
  /\ \A l \in Claiming : l \notin Giving /\ l \in AllocLabels /\ l \in Labels
  /\ \A l \in Giving : l \notin Claiming /\ l \in FreeLabels /\ l \in Labels
BY DEF Claiming, Giving, AllocLabels, FreeLabels, Labels

LEMMA RestSteady ==
  ASSUME NEW f, NEW b, NEW a, NEW n, f.pc \in {"idle", "call", "find", "slot", "search"}
  PROVE  Steady(f, b, a, n) <=> Rest(f, b, a, n)
BY LabelSets DEF Steady

LEMMA TakesSteady ==
  ASSUME NEW f, NEW b, NEW a, NEW n, f.pc \in Claiming
  PROVE  Steady(f, b, a, n) <=> Takes(f, b, a, n)
BY LabelSets DEF Steady

LEMMA GivesSteady ==
  ASSUME NEW f, NEW b, NEW a, NEW n, f.pc \in Giving
  PROVE  Steady(f, b, a, n) <=> Gives(f, b, a, n)
BY LabelSets DEF Steady

(* A kmalloc that is to be done has a NULL pointer to fill.                *)
LEMMA MallocNull ==
  ASSUME RaceTypes, NEW s \in Contexts, frame[s].calls # <<>>, Call(s).op = "kmalloc"
  PROVE  frame[s].at[Call(s).pointer] = None
BY FrameIs, CallIs DEF FrameOK, Owed

(* A call returns NULL, or nothing, and no block was at its pointer.       *)
LEMMA RestReturns ==
  ASSUME RaceTypes, NEW s \in Contexts, frame[s].calls # <<>>, CallReturns(s, None),
         SameHeap,
         TableKept({}, frame[s].at, allocations), page_bitmap = PagesKept({}, allocations),
         allocated_pages = Cardinality(page_bitmap),
         \A i \in Kept({}, allocations) : allocations[i].start_page # frame[s].at[Call(s).pointer]
  PROVE  Then(s)
<1> PICK q, a, to : q = Call(s).pointer /\ a = allocations /\ to = frame'[s].at
  OBVIOUS
<1>1. frame'[s].pc = "call" /\ to = [frame[s].at EXCEPT ![q] = None]
  BY Returned, FrameIs DEF Call
<1>2. frame[s].at \in Holdings /\ q \in Pointers /\ a \in Tables
  BY FrameIs, CallIs
<1>3. \A p \in Pointers : p # q => to[p] = frame[s].at[p]
  BY <1>1, <1>2 DEF Holdings
<1>4. TableKept({}, to, a)
  <2> PICK at : at = frame[s].at
    OBVIOUS
  <2>1. /\ TableKept({}, at, a) /\ \A p \in Pointers : p # q => to[p] = at[p]
        /\ \A i \in Kept({}, a) : a[i].start_page # at[q]
    BY <1>3
  <2> QED BY ONLY <1>2, <2>1, ForgetPointer
<1>5. Rest(frame'[s], page_bitmap', allocations', allocated_pages')
  BY <1>1, <1>4 DEF Rest, SameHeap
<1> QED BY <1>1, <1>5, RestSteady DEF Then

LEMMA NoneKept ==
  ASSUME NEW a \in Tables, NEW B PROVE \A i \in Kept(B, a) : a[i].start_page # None
BY KeptIs, EntryIs DEF Pages, None

(* It is kept by every step of that command, one lemma each.               *)
LEMMA SteadyGoto ==
  ASSUME RaceTypes, NEW s \in Contexts, NEW l \in {"find", "search"},
         frame[s].pc = "call",
         Goto(s, l), SameHeap, Now(s)
  PROVE  Then(s)
<1>1. frame'[s].at = frame[s].at /\ frame'[s].pc = l
  BY Went, FrameIs DEF Labels, AllocLabels, FreeLabels, SameCall
<1>2. Rest(frame[s], page_bitmap, allocations, allocated_pages)
  BY RestSteady DEF Now
<1>3. Rest(frame'[s], page_bitmap', allocations', allocated_pages')
  BY <1>1, <1>2 DEF Rest, SameHeap
<1> QED BY <1>1, <1>3, RestSteady DEF Then

LEMMA SteadyNextCall ==
  ASSUME RaceTypes, NEW s \in Contexts, NextCall(s), frame[s].calls # <<>>, Now(s)
  PROVE  Then(s)
<1>1. /\ frame[s].pc = "call" /\ SameHeap
      /\ \/ Goto(s, "find") \/ Goto(s, "search")
         \/ frame[s].at[Call(s).pointer] = None /\ CallReturns(s, None)
  BY DEF NextCall, At, heap, SameHeap
<1>2. CASE Goto(s, "find") \/ Goto(s, "search")
  BY <1>1, <1>2, SteadyGoto
<1>3. CASE frame[s].at[Call(s).pointer] = None /\ CallReturns(s, None)
  <2>1. Rest(frame[s], page_bitmap, allocations, allocated_pages)
    BY <1>1, RestSteady DEF Now
  <2>2. \A i \in Kept({}, allocations) : allocations[i].start_page # frame[s].at[Call(s).pointer]
    BY <1>3, NoneKept, FrameIs
  <2> QED BY <1>1, <1>3, <2>1, <2>2, RestReturns DEF Rest
<1> QED BY <1>1, <1>2, <1>3

LEMMA SteadyFindPages ==
  ASSUME RaceTypes, NEW s \in Contexts, FindPages(s), Now(s)
  PROVE  Then(s)
<1>1. frame[s].pc = "find" /\ SameHeap
  BY DEF FindPages, At, heap, SameHeap
<1>2. /\ Rest(frame[s], page_bitmap, allocations, allocated_pages)
      /\ frame[s].calls # <<>> /\ Call(s).op = "kmalloc"
      /\ Call(s) = Head(frame[s].calls)
  BY <1>1, RestSteady, FrameIs DEF Now, Placed, AllocLabels, Call
<1>3. CASE CallReturns(s, None)
  <2>1. \A i \in Kept({}, allocations) : allocations[i].start_page # frame[s].at[Call(s).pointer]
    BY <1>2, MallocNull, NoneKept, FrameIs
  <2> QED BY <1>1, <1>2, <1>3, <2>1, RestReturns DEF Rest
<1>4. ASSUME NEW p \in Fits(Call(s).pages), SetsStart(s, "slot", p)
      PROVE  Then(s)
  <2>1. p \in Pages /\ Run(p, Call(s).pages) \cap page_bitmap = {}
    BY DEF Fits, Run
  <2>2. "slot" \in Labels
    BY DEF Labels, AllocLabels
  <2>3. /\ SameCall(frame[s], frame'[s]) /\ frame'[s].pc = "slot" /\ frame'[s].start = p
    BY <1>4, <2>1, <2>2, Started, FrameIs
  <2>4. Rest(frame'[s], page_bitmap', allocations', allocated_pages')
    BY <1>1, <1>2, <2>1, <2>3 DEF Rest, SameHeap, SameCall
  <2> QED BY <2>3, <2>4, RestSteady DEF Then
<1> QED BY <1>3, <1>4 DEF FindPages, SetsStart

LEMMA SteadyFindSlot ==
  ASSUME RaceTypes, NEW s \in Contexts, FindSlot(s), Now(s)
  PROVE  Then(s)
<1>1. frame[s].pc = "slot" /\ SameHeap
  BY DEF FindSlot, At, heap, SameHeap
<1>2. /\ Rest(frame[s], page_bitmap, allocations, allocated_pages) /\ frame[s].i = 0
      /\ frame[s].calls # <<>> /\ Call(s).op = "kmalloc"
      /\ Call(s) = Head(frame[s].calls)
      /\ frame[s].start \in Pages
  BY <1>1, RestSteady, FrameIs DEF Now, Placed, AllocLabels, Call
<1>3. CASE CallReturns(s, None)
  <2>1. \A i \in Kept({}, allocations) : allocations[i].start_page # frame[s].at[Call(s).pointer]
    BY <1>2, MallocNull, NoneKept, FrameIs
  <2> QED BY <1>1, <1>2, <1>3, <2>1, RestReturns DEF Rest
<1>4. ASSUME NEW k \in FreeSlots, SetsSlot(s, "mark", k)
      PROVE  Then(s)
  <2>1. k \in Slots /\ ~allocations[k].used /\ "mark" \in Labels
    BY DEF FreeSlots, Labels, AllocLabels, Claiming
  <2> PICK f, g, a : f = frame[s] /\ g = frame'[s] /\ a = allocations
    OBVIOUS
  <2>2. /\ SameCall(f, g) /\ g.pc = "mark" /\ g.start = f.start /\ g.i = f.i /\ g.slot = k
    BY <1>4, <2>1, Chose, FrameIs
  <2>3. /\ PagesKept({k}, a) = PagesKept({}, a) /\ TableKept({k}, f.at, a)
    BY <1>2, <2>1, TakeSlot, FrameIs DEF Rest
  <2>4. Run(f.start, 0) = {}
    BY <1>2 DEF Run, Pages
  <2>5. EntryTaken(g, a[k])
    BY <2>1, <2>2 DEF EntryTaken
  <2>6. Takes(g, page_bitmap, a, allocated_pages)
    BY <1>1, <1>2, <2>2, <2>3, <2>4, <2>5 DEF Takes, Rest, SameCall
  <2>7. g.pc \in Claiming
    BY <2>2 DEF Claiming
  <2> QED BY <1>1, <2>6, <2>7, TakesSteady DEF Then, SameHeap
<1> QED BY <1>3, <1>4 DEF FindSlot, SetsSlot

(* What kmalloc knows while it is at work on an entry.                     *)
LEMMA TakesIs ==
  ASSUME RaceConstants, RaceTypes, NEW s \in Contexts, frame[s].pc \in Claiming, Now(s)
  PROVE  /\ Takes(frame[s], page_bitmap, allocations, allocated_pages)
         /\ frame[s].calls # <<>> /\ Call(s).op = "kmalloc"
         /\ Call(s) = Head(frame[s].calls)
         /\ Call(s).pages \in Nat /\ Call(s).pages > 0
         /\ Call(s).pointer \in Pointers
         /\ frame[s].start \in Pages /\ frame[s].start \in Nat
         /\ frame[s].start + Call(s).pages <= TOTAL_PAGES
         /\ frame[s].slot \in Slots /\ frame[s].i \in Nat /\ frame[s].i <= Call(s).pages
         /\ TOTAL_PAGES \in Nat
<1>1. Takes(frame[s], page_bitmap, allocations, allocated_pages)
  BY TakesSteady DEF Now
<1>2. frame[s].pc \notin {"idle", "call", "find"} /\ frame[s].pc \in AllocLabels
  BY LabelSets DEF Claiming
<1>3. /\ frame[s].calls # <<>> /\ Head(frame[s].calls).op = "kmalloc"
      /\ frame[s].start \in Pages
      /\ frame[s].start + Head(frame[s].calls).pages <= TOTAL_PAGES
      /\ frame[s].slot \in Slots /\ frame[s].i <= Head(frame[s].calls).pages
  BY <1>2, FrameIs DEF Placed
<1>4. Call(s) = Head(frame[s].calls) /\ Call(s).pages \in Nat /\ Call(s).pointer \in Pointers
  BY <1>3, CallIs
<1>5. Call(s).pages > 0
  BY <1>3, <1>4, FrameIs, CallIs DEF FrameOK, Balanced
<1> QED BY <1>1, <1>3, <1>4, <1>5, FrameIs DEF Pages, RaceConstants

LEMMA SteadyMark ==
  ASSUME RaceConstants, RaceTypes, NEW s \in Contexts, Mark(s), Now(s)
  PROVE  Then(s)
<1> PICK f, g : f = frame[s] /\ g = frame'[s]
  OBVIOUS
<1>1. f.pc = "mark" /\ f.pc \in Claiming /\ SameHeap
  BY DEF Mark, At, heap, SameHeap, Claiming
<1>2. /\ Takes(f, page_bitmap, allocations, allocated_pages) /\ Call(s) = Head(f.calls)
      /\ f.i \in Nat /\ f.i <= Call(s).pages /\ Call(s).pages \in Nat
  BY <1>1, TakesIs
<1>3. CASE f.i < Call(s).pages
  <2>1. LoadByte(s, "set") /\ "set" \in Labels /\ "set" \in Claiming
    BY <1>3 DEF Mark, Labels, AllocLabels, Claiming
  <2>2. /\ SameCall(f, g) /\ SamePlace(f, g) /\ g.pc = "set"
        /\ g.byte = page_bitmap \cap ByteOf(f.start + f.i)
    BY <2>1, ByteLoaded
  <2>3. EntryTaken(g, allocations[f.slot])
    BY <1>1, <1>2, <2>2 DEF EntryTaken, Takes
  <2>4. Takes(g, page_bitmap, allocations, allocated_pages)
    BY <1>1, <1>2, <2>2, <2>3 DEF Takes, SameCall, SamePlace
  <2> QED BY <1>1, <2>1, <2>2, <2>4, TakesSteady DEF Then, SameHeap
<1>4. CASE ~(f.i < Call(s).pages)
  <2>1. Goto(s, "start_page") /\ "start_page" \in Labels /\ "start_page" \in Claiming
    BY <1>4 DEF Mark, Labels, AllocLabels, Claiming
  <2>2. SameCall(f, g) /\ SamePlace(f, g) /\ g.pc = "start_page"
    BY <2>1, Went, FrameIs
  <2>3. f.i = Head(f.calls).pages
    BY <1>2, <1>4
  <2>4. EntryTaken(g, allocations[f.slot])
    BY <1>1, <1>2, <2>2 DEF EntryTaken, Takes
  <2>5. Takes(g, page_bitmap, allocations, allocated_pages)
    BY <1>1, <1>2, <2>2, <2>3, <2>4 DEF Takes, SameCall, SamePlace
  <2> QED BY <1>1, <2>1, <2>2, <2>5, TakesSteady DEF Then, SameHeap
<1> QED BY <1>3, <1>4

LEMMA RunGrows ==
  ASSUME NEW p \in Nat, NEW i \in Nat
  PROVE  Run(p, i + 1) = Run(p, i) \cup {p + i}
BY DEF Run

LEMMA SteadySetBit ==
  ASSUME RaceConstants, RaceTypes, NEW s \in Contexts, SetBit(s), Now(s)
  PROVE  Then(s)
<1> PICK f, g, p : f = frame[s] /\ g = frame'[s] /\ p = f.start + f.i
  OBVIOUS
<1>1. /\ f.pc = "set" /\ f.pc \in Claiming /\ UNCHANGED <<allocations, allocated_pages>>
      /\ page_bitmap' = Stored(p, f.byte \cup {p})
      /\ SetsIndex(s, "mark", f.i + 1)
  BY DEF SetBit, At, Block, Claiming, SetsIndex
<1>2. /\ Takes(f, page_bitmap, allocations, allocated_pages) /\ Call(s) = Head(f.calls)
      /\ f.i \in Nat /\ Call(s).pages \in Nat /\ f.start \in Pages /\ f.start \in Nat
      /\ f.start + Call(s).pages <= TOTAL_PAGES
  BY <1>1, TakesIs
<1>3. f.i < Call(s).pages
  BY <1>1, <1>2, FrameIs DEF Placed
<1>4. p \in Pages
  BY <1>2, <1>3, InHeap
<1>5. f.byte = page_bitmap \cap ByteOf(p)
  BY <1>1, <1>2 DEF Takes
<1>6. page_bitmap' = page_bitmap \cup {p}
  BY <1>1, <1>4, <1>5, ByteStored, FrameIs
<1>7. SameCall(f, g) /\ g.pc = "mark" /\ g.i = f.i + 1 /\ g.start = f.start /\ g.slot = f.slot
  <2>1. "mark" \in Labels /\ f.i + 1 \in Nat
    BY <1>2 DEF Labels, AllocLabels, Claiming
  <2> QED BY <1>1, <2>1, Advanced, FrameIs
<1>8. Run(f.start, f.i + 1) = Run(f.start, f.i) \cup {p}
  BY <1>2, RunGrows
<1>9. EntryTaken(g, allocations[f.slot])
  BY <1>1, <1>2, <1>7 DEF EntryTaken, Takes
<1>10. page_bitmap' = PagesKept({f.slot}, allocations) \cup Run(f.start, f.i + 1)
  BY <1>1, <1>2, <1>6, <1>8 DEF Takes
<1>11. Takes(g, page_bitmap', allocations, allocated_pages)
  BY <1>1, <1>2, <1>7, <1>9, <1>10 DEF Takes, SameCall
<1>12. g.pc \in Claiming
  BY <1>7 DEF Claiming
<1> QED BY <1>1, <1>11, <1>12, TakesSteady DEF Then

(* A store to the entry the call is at work on.                            *)
LEMMA TakesField ==
  ASSUME RaceConstants, RaceTypes, NEW s \in Contexts, NEW l \in Claiming,
         frame[s].pc \in {"start_page", "page_count", "used"},
         l \notin {"mark", "set", "counted"}, Goto(s, l), Touches(frame[s].slot), Now(s),
         UNCHANGED <<page_bitmap, allocated_pages>>,
         EntryTaken(frame'[s], allocations'[frame[s].slot])
  PROVE  Then(s)
<1> PICK f, g, k, a, c : /\ f = frame[s] /\ g = frame'[s] /\ k = f.slot
                         /\ a = allocations /\ c = allocations'
  OBVIOUS
<1>1. f.pc \in Claiming
  BY DEF Claiming
<1>2. /\ Takes(f, page_bitmap, a, allocated_pages) /\ k \in Slots
  BY <1>1, TakesIs
<1>3. SameCall(f, g) /\ SamePlace(f, g) /\ g.pc = l
  BY Went, FrameIs, LabelSets
<1>4. a \in Tables /\ c \in Tables /\ \A i \in Slots : i # k => c[i] = a[i]
  BY FrameIs DEF Touches
<1>5. /\ PagesKept({k}, c) = PagesKept({k}, a)
      /\ \A at : TableKept({k}, at, a) => TableKept({k}, at, c)
  BY ONLY <1>2, <1>4, KeptSame
<1>6. EntryTaken(g, c[k])
  OBVIOUS
<1>7. Takes(g, page_bitmap', c, allocated_pages')
  BY <1>2, <1>3, <1>5, <1>6 DEF Takes, SameCall, SamePlace
<1> QED BY <1>3, <1>7, TakesSteady DEF Then

LEMMA SteadyClaim ==
  ASSUME RaceConstants, RaceTypes, NEW s \in Contexts, Claim(s), Now(s)
  PROVE  Then(s)
<1> PICK f, g, k : f = frame[s] /\ g = frame'[s] /\ k = frame[s].slot
  OBVIOUS
<1>0. f.pc \in {"start_page", "page_count", "used"} /\ f.pc \in Claiming
      /\ UNCHANGED <<page_bitmap, allocated_pages>>
  BY DEF Claim, SetField, At, Claiming
<1>1. /\ k \in Slots /\ f.start \in Pages /\ allocations \in Tables
      /\ Call(s) = Head(f.calls)
      /\ Call(s).pages \in Nat /\ EntryTaken(f, allocations[k])
  BY <1>0, TakesIs, FrameIs DEF Takes
<1>2. CASE SetField(s, "start_page", "start_page", Block(s), "page_count")
  <2>1. Writes(k, "start_page", f.start) /\ f.pc = "start_page" /\ Goto(s, "page_count")
    BY <1>2 DEF SetField, Writes, Block, At
  <2>2. /\ Touches(k) /\ allocations'[k].start_page = f.start
        /\ allocations'[k].used <=> allocations[k].used
    BY <1>1, <2>1, StartWritten
  <2>3. "page_count" \in Claiming /\ "page_count" \in Labels
    BY DEF Labels, AllocLabels, Claiming
  <2>4. g.pc = "page_count" /\ g.start = f.start
    BY <2>1, <2>3, Went, FrameIs DEF SamePlace
  <2>5. EntryTaken(g, allocations'[k])
    BY <1>1, <2>1, <2>2, <2>4 DEF EntryTaken
  <2> QED BY <1>0, <2>1, <2>2, <2>3, <2>5, TakesField
<1>3. CASE SetField(s, "page_count", "page_count", Call(s).pages, "used")
  <2>1. Writes(k, "page_count", Call(s).pages) /\ f.pc = "page_count" /\ Goto(s, "used")
    BY <1>3 DEF SetField, Writes, At
  <2>2. /\ Touches(k) /\ allocations'[k].start_page = allocations[k].start_page
        /\ allocations'[k].page_count = Call(s).pages
        /\ allocations'[k].used <=> allocations[k].used
    BY <1>1, <2>1, CountWritten
  <2>3. "used" \in Claiming /\ "used" \in Labels
    BY DEF Labels, AllocLabels, Claiming
  <2>4. g.pc = "used" /\ g.start = f.start /\ g.calls = f.calls
    BY <2>1, <2>3, Went, FrameIs DEF SamePlace, SameCall
  <2>5. EntryTaken(g, allocations'[k])
    BY <1>1, <2>1, <2>2, <2>4 DEF EntryTaken
  <2> QED BY <1>0, <2>1, <2>2, <2>3, <2>5, TakesField
<1>4. CASE SetField(s, "used", "used", TRUE, "count")
  <2>1. Writes(k, "used", TRUE) /\ f.pc = "used" /\ Goto(s, "count")
    BY <1>4 DEF SetField, Writes, At
  <2>2. /\ Touches(k) /\ allocations'[k].start_page = allocations[k].start_page
        /\ allocations'[k].page_count = allocations[k].page_count
        /\ allocations'[k].used
    BY <1>1, <2>1, UsedWritten
  <2>3. "count" \in Claiming /\ "count" \in Labels
    BY DEF Labels, AllocLabels, Claiming
  <2>4. g.pc = "count" /\ g.start = f.start /\ g.calls = f.calls
    BY <2>1, <2>3, Went, FrameIs DEF SamePlace, SameCall
  <2>5. EntryTaken(g, allocations'[k])
    BY <1>1, <2>1, <2>2, <2>4 DEF EntryTaken
  <2> QED BY <1>0, <2>1, <2>2, <2>3, <2>5, TakesField
<1> QED BY <1>2, <1>3, <1>4 DEF Claim

LEMMA SteadyLoadTotal ==
  ASSUME RaceConstants, RaceTypes, NEW s \in Contexts, LoadTotal(s), Now(s)
  PROVE  Then(s)
<1> PICK f, g : f = frame[s] /\ g = frame'[s]
  OBVIOUS
<1>1. /\ f.pc = "count" /\ f.pc \in Claiming /\ SameHeap
      /\ SetsTotal(s, "counted", allocated_pages)
  BY DEF LoadTotal, At, SetsTotal, heap, SameHeap, Claiming
<1>2. Takes(f, page_bitmap, allocations, allocated_pages)
  BY <1>1, TakesIs
<1>3. SameCall(f, g) /\ SamePlace(f, g) /\ g.pc = "counted" /\ g.total = allocated_pages
  <2>1. allocated_pages \in Int /\ "counted" \in Labels
    BY FrameIs DEF Labels, AllocLabels, Claiming
  <2> QED BY <1>1, <2>1, Totalled, FrameIs DEF SamePlace
<1>4. EntryTaken(g, allocations[f.slot])
  BY <1>1, <1>2, <1>3 DEF EntryTaken, Takes, SameCall, SamePlace
<1>5. Takes(g, page_bitmap, allocations, allocated_pages)
  BY <1>1, <1>2, <1>3, <1>4 DEF Takes, SameCall, SamePlace
<1>6. g.pc \in Claiming
  BY <1>3 DEF Claiming
<1> QED BY <1>1, <1>5, <1>6, TakesSteady DEF Then, SameHeap

LEMMA ModSmall ==
  ASSUME NEW w \in Nat, NEW x \in Int, x >= 0, x < w
  PROVE  x % w = x
OBVIOUS

LEMMA SteadyCount ==
  ASSUME RaceConstants, RaceTypes, NEW s \in Contexts, Count(s), Now(s)
  PROVE  Then(s)
<1> PICK f, g, k, a, n, q, at, to :
      /\ f = frame[s] /\ g = frame'[s] /\ k = f.slot /\ a = allocations
      /\ n = Call(s).pages /\ q = Call(s).pointer /\ at = f.at /\ to = g.at
  OBVIOUS
<1>1. /\ f.pc = "counted" /\ f.pc \in Claiming /\ page_bitmap' = page_bitmap
      /\ allocations' = a
      /\ allocated_pages' = (f.total + n) % WORD /\ CallReturns(s, f.start)
  BY DEF Count, At, Block, Claiming
<1>2. /\ Takes(f, page_bitmap, a, allocated_pages) /\ k \in Slots /\ f.start \in Pages
      /\ f.calls # <<>> /\ Call(s) = Head(f.calls) /\ Call(s).op = "kmalloc"
      /\ n \in Nat /\ n > 0 /\ f.start + n <= TOTAL_PAGES /\ q \in Pointers
  BY <1>1, TakesIs
<1>3. a \in Tables /\ at \in Holdings
  BY FrameIs
<1>4. /\ a[k].used /\ a[k].start_page = f.start /\ a[k].page_count = n
      /\ BlockAt(a[k]) = Run(f.start, n) /\ TableKept({k}, at, a)
      /\ BlockAt(a[k]) \cap PagesKept({k}, a) = {}
      /\ page_bitmap = PagesKept({k}, a) \cup Run(f.start, n)
      /\ f.total = Cardinality(PagesKept({k}, a))
  BY <1>1, <1>2 DEF Takes, EntryTaken, BlockAt
<1>5. /\ PagesKept({}, a) = page_bitmap
      /\ Cardinality(PagesKept({}, a)) = f.total + n
  <2>1. a[k].page_count > 0 /\ a[k].start_page + a[k].page_count <= TOTAL_PAGES
    BY <1>2, <1>4
  <2>2. RaceConstants
    OBVIOUS
  <2>3. /\ PagesKept({}, a) = PagesKept({k}, a) \cup BlockAt(a[k])
        /\ Cardinality(PagesKept({}, a)) = Cardinality(PagesKept({k}, a)) + a[k].page_count
    BY ONLY <1>2, <1>3, <1>4, <2>1, <2>2, BlockApart
  <2> QED BY <1>4, <2>3
<1>6. g.pc = "call" /\ to = [at EXCEPT ![q] = f.start]
  BY <1>1, <1>2, Returned, FrameIs
<1>7. TableKept({}, to, a)
  <2>1. at[q] = None
    BY <1>2, MallocNull
  <2>2. \A p \in Pointers : at[p] # None => to[p] = at[p]
    BY <1>2, <1>3, <1>6, <2>1 DEF Holdings
  <2>3. \E p \in Pointers : to[p] = a[k].start_page
    BY <1>2, <1>3, <1>4, <1>6 DEF Holdings
  <2>4. a[k].page_count > 0 /\ a[k].start_page + a[k].page_count <= TOTAL_PAGES
    BY <1>2, <1>4
  <2>5. RaceConstants
    OBVIOUS
  <2> QED BY ONLY <1>2, <1>3, <1>4, <2>2, <2>3, <2>4, <2>5, AddBlock
<1>8. allocated_pages' = f.total + n
  <2> PICK x : x = f.total + n
    OBVIOUS
  <2>1. x \in 0..TOTAL_PAGES
    BY <1>3, <1>5, <1>7, KeptInHeap
  <2>2. WORD \in Nat /\ x \in Int /\ x >= 0 /\ x < WORD
    BY <2>1 DEF RaceConstants
  <2>3. x % WORD = x
    BY <2>2, ModSmall
  <2> QED BY <1>1, <2>3
<1>9. Rest(g, page_bitmap', allocations', allocated_pages')
  BY <1>1, <1>5, <1>6, <1>7, <1>8 DEF Rest
<1> QED BY <1>6, <1>9, RestSteady DEF Then

LEMMA SteadySearch ==
  ASSUME RaceConstants, RaceTypes, NEW s \in Contexts, Search(s), Now(s)
  PROVE  Then(s)
<1> PICK f, g, a, p : f = frame[s] /\ g = frame'[s] /\ a = allocations /\ p = f.at[Call(s).pointer]
  OBVIOUS
<1>1. frame[s].pc = "search" /\ SameHeap
  BY DEF Search, At, heap, SameHeap
<1>2. /\ Rest(f, page_bitmap, a, allocated_pages) /\ f.i = 0
      /\ f.calls # <<>> /\ Call(s) = Head(f.calls)
  BY <1>1, RestSteady, FrameIs DEF Now, Placed, FreeLabels, Call
<1>3. p \in Pages /\ a \in Tables
  BY <1>1, <1>2, FrameIs DEF Placed
<1>4. CASE Holders(p) = {} /\ CallReturns(s, None)
  <2>1. \A i \in Kept({}, a) : a[i].start_page # p
    BY <1>4 DEF Kept, Holders
  <2> QED BY <1>1, <1>2, <1>4, <2>1, RestReturns DEF Rest
<1>5. ASSUME NEW k \in Holders(p), SetsBoth(s, "unmark", p, k)
      PROVE  Then(s)
  <2>1. k \in Slots /\ a[k].used /\ a[k].start_page = p /\ "unmark" \in Labels
    BY DEF Holders, Labels, FreeLabels, Giving
  <2>2. SameCall(f, g) /\ g.pc = "unmark" /\ g.start = p /\ g.slot = k /\ g.i = 0
    BY <1>2, <1>3, <1>5, <2>1, Searched, FrameIs
  <2>3. TableKept({}, f.at, a) /\ page_bitmap = PagesKept({}, a)
        /\ allocated_pages = Cardinality(page_bitmap)
    BY <1>2 DEF Rest
  <2>4. /\ TableKept({k}, f.at, a) /\ a[k].page_count > 0
        /\ a[k].start_page + a[k].page_count <= TOTAL_PAGES
        /\ BlockAt(a[k]) \cap PagesKept({k}, a) = {}
        /\ \A i \in Kept({k}, a) : a[i].start_page # a[k].start_page
    BY <1>3, <2>1, <2>3, TakeBlock
  <2>5. /\ PagesKept({}, a) = PagesKept({k}, a) \cup BlockAt(a[k])
        /\ Cardinality(PagesKept({}, a)) = Cardinality(PagesKept({k}, a)) + a[k].page_count
    BY <1>3, <2>1, <2>4, BlockApart
  <2>6. BlockAt(a[k]) = Run(p, a[k].page_count)
        /\ BlockAt(a[k]) = (p + 0)..(p + a[k].page_count - 1)
    <3>1. p + 0 = p
      BY <1>3 DEF Pages
    <3> QED BY <2>1, <3>1 DEF BlockAt, Run
  <2>7. a[k].page_count \in Nat
    BY <1>3, <2>1, EntryIs
  <2>8. EntryGiven(g, a[k])
    BY <2>1, <2>2, <2>4, <2>7 DEF EntryGiven, Uncleared
  <2>9. g.at = f.at /\ g.calls = f.calls
    BY <2>2 DEF SameCall
  <2>10. Gives(g, page_bitmap, a, allocated_pages)
    BY <1>2, <2>1, <2>2, <2>3, <2>4, <2>5, <2>6, <2>8, <2>9 DEF Gives, Uncleared
  <2>11. g.pc \in Giving
    BY <2>2 DEF Giving
  <2> QED BY <1>1, <2>10, <2>11, GivesSteady DEF Then, SameHeap
<1> QED BY <1>4, <1>5 DEF Search, SetsBoth

(* What kfree knows while it is at work on an entry.                       *)
LEMMA GivesIs ==
  ASSUME RaceConstants, RaceTypes, NEW s \in Contexts, frame[s].pc \in Giving, Now(s)
  PROVE  /\ Gives(frame[s], page_bitmap, allocations, allocated_pages)
         /\ frame[s].calls # <<>> /\ Call(s).op = "kfree"
         /\ Call(s) = Head(frame[s].calls)
         /\ Call(s).pointer \in Pointers
         /\ frame[s].start \in Pages /\ frame[s].start \in Nat
         /\ frame[s].slot \in Slots /\ frame[s].i \in Nat
         /\ TOTAL_PAGES \in Nat /\ allocations[frame[s].slot].page_count \in Nat
         /\ EntryGiven(frame[s], allocations[frame[s].slot]) /\ allocations \in Tables
<1>1. Gives(frame[s], page_bitmap, allocations, allocated_pages)
  BY GivesSteady DEF Now
<1>2. frame[s].pc \notin {"idle", "call"} /\ frame[s].pc \in FreeLabels
  BY LabelSets DEF Giving
<1>3. /\ frame[s].calls # <<>> /\ Head(frame[s].calls).op = "kfree"
      /\ frame[s].start \in Pages /\ frame[s].slot \in Slots
  BY <1>2, FrameIs DEF Placed
<1>4. Call(s) = Head(frame[s].calls) /\ Call(s).pointer \in Pointers
  BY <1>3, CallIs
<1>5. EntryGiven(frame[s], allocations[frame[s].slot])
  BY <1>1 DEF Gives
<1> QED BY <1>1, <1>3, <1>4, <1>5, FrameIs, EntryIs DEF Pages, RaceConstants

LEMMA SteadyUnmark ==
  ASSUME RaceConstants, RaceTypes, NEW s \in Contexts, Unmark(s), Now(s)
  PROVE  Then(s)
<1> PICK f, g, n : f = frame[s] /\ g = frame'[s] /\ n = allocations[f.slot].page_count
  OBVIOUS
<1>1. f.pc = "unmark" /\ f.pc \in Giving /\ SameHeap /\ Held(s) = n
  BY DEF Unmark, At, heap, SameHeap, Giving, Held
<1>2. /\ Gives(f, page_bitmap, allocations, allocated_pages)
      /\ EntryGiven(f, allocations[f.slot])
      /\ f.i \in Nat /\ n \in Nat /\ f.start \in Nat
  BY <1>1, GivesIs
<1>3. CASE f.i < n
  <2>1. LoadByte(s, "clear") /\ "clear" \in Labels /\ "clear" \in Giving
    BY <1>1, <1>3 DEF Unmark, Labels, FreeLabels, Giving
  <2>2. /\ SameCall(f, g) /\ SamePlace(f, g) /\ g.pc = "clear"
        /\ g.byte = page_bitmap \cap ByteOf(f.start + f.i)
    BY <2>1, ByteLoaded
  <2>3. EntryGiven(g, allocations[f.slot])
    BY <1>1, <1>2, <1>3, <2>2 DEF EntryGiven, Uncleared, SamePlace
  <2>4. Gives(g, page_bitmap, allocations, allocated_pages)
    BY <1>1, <1>2, <2>2, <2>3 DEF Gives, Uncleared, SameCall, SamePlace
  <2> QED BY <1>1, <2>1, <2>2, <2>4, GivesSteady DEF Then, SameHeap
<1>4. CASE ~(f.i < n)
  <2>1. Goto(s, "uncount") /\ "uncount" \in Labels /\ "uncount" \in Giving
    BY <1>1, <1>4 DEF Unmark, Labels, FreeLabels, Giving
  <2>2. SameCall(f, g) /\ SamePlace(f, g) /\ g.pc = "uncount"
    BY <2>1, Went, FrameIs
  <2>3. (f.start + f.i)..(f.start + n - 1) = {}
    BY <1>2, <1>4
  <2>4. EntryGiven(g, allocations[f.slot])
    BY <1>1, <1>2, <2>2 DEF EntryGiven, Uncleared, SamePlace
  <2>5. Gives(g, page_bitmap, allocations, allocated_pages)
    BY <1>1, <1>2, <2>2, <2>3, <2>4 DEF Gives, Uncleared, SameCall, SamePlace
  <2> QED BY <1>1, <2>1, <2>2, <2>5, GivesSteady DEF Then, SameHeap
<1> QED BY <1>3, <1>4

LEMMA RunShrinks ==
  ASSUME NEW p \in Nat, NEW i \in Nat, NEW n \in Nat, i < n
  PROVE  /\ (p + (i + 1))..(p + n - 1) = ((p + i)..(p + n - 1)) \ {p + i}
         /\ p + i \in Run(p, n)
BY DEF Run

LEMMA SteadyClearBit ==
  ASSUME RaceConstants, RaceTypes, NEW s \in Contexts, ClearBit(s), Now(s)
  PROVE  Then(s)
<1> PICK f, g, p, n : /\ f = frame[s] /\ g = frame'[s] /\ p = f.start + f.i
                      /\ n = allocations[f.slot].page_count
  OBVIOUS
<1>1. /\ f.pc = "clear" /\ f.pc \in Giving /\ UNCHANGED <<allocations, allocated_pages>>
      /\ page_bitmap' = Stored(p, f.byte \ {p})
      /\ SetsIndex(s, "unmark", f.i + 1)
  BY DEF ClearBit, At, Block, Giving, SetsIndex
<1>2. /\ Gives(f, page_bitmap, allocations, allocated_pages)
      /\ EntryGiven(f, allocations[f.slot])
      /\ f.i \in Nat /\ n \in Nat /\ f.start \in Nat
  BY <1>1, GivesIs
<1>3. f.i < n
  BY <1>1, <1>2 DEF EntryGiven
<1>4. p \in Pages
  BY <1>1, FrameIs DEF Placed
<1>5. f.byte = page_bitmap \cap ByteOf(p)
  BY <1>1, <1>2 DEF Gives
<1>6. page_bitmap' = page_bitmap \ {p}
  BY <1>1, <1>4, <1>5, ByteStored, FrameIs
<1>7. SameCall(f, g) /\ g.pc = "unmark" /\ g.i = f.i + 1 /\ g.start = f.start /\ g.slot = f.slot
  <2>1. "unmark" \in Labels /\ f.i + 1 \in Nat
    BY <1>2 DEF Labels, FreeLabels, Giving
  <2> QED BY <1>1, <2>1, Advanced, FrameIs
<1>8. /\ (f.start + (f.i + 1))..(f.start + n - 1) = ((f.start + f.i)..(f.start + n - 1)) \ {p}
      /\ p \in Run(f.start, n)
  <2> PICK x, i : x = f.start /\ i = f.i
    OBVIOUS
  <2>1. x \in Nat /\ i \in Nat /\ n \in Nat /\ i < n
    BY <1>2, <1>3
  <2>2. /\ (x + (i + 1))..(x + n - 1) = ((x + i)..(x + n - 1)) \ {x + i}
        /\ x + i \in Run(x, n)
    BY ONLY <2>1, RunShrinks
  <2> QED BY <2>2
<1>9. EntryGiven(g, allocations[f.slot])
  <2>1. f.i + 1 <= n
    BY <1>2, <1>3
  <2> QED BY <1>1, <1>2, <1>7, <2>1 DEF EntryGiven, Uncleared
<1>10. p \notin PagesKept({f.slot}, allocations)
  BY <1>1, <1>2, <1>8 DEF Gives, Uncleared
<1>11. page_bitmap' = PagesKept({f.slot}, allocations)
                        \cup ((f.start + (f.i + 1))..(f.start + n - 1))
  <2> PICK kept, rest, after :
        /\ kept = PagesKept({f.slot}, allocations)
        /\ rest = (f.start + f.i)..(f.start + n - 1)
        /\ after = (f.start + (f.i + 1))..(f.start + n - 1)
    OBVIOUS
  <2>1. page_bitmap = kept \cup rest
    BY <1>1, <1>2 DEF Gives
  <2>2. after = rest \ {p} /\ p \notin kept
    BY <1>8, <1>10
  <2>3. page_bitmap' = kept \cup after
    BY <1>6, <2>1, <2>2
  <2> QED BY <2>3
<1>12. Gives(g, page_bitmap', allocations, allocated_pages)
  BY <1>1, <1>2, <1>7, <1>9, <1>11 DEF Gives, Uncleared, SameCall
<1>13. g.pc \in Giving
  BY <1>7 DEF Giving
<1> QED BY <1>1, <1>12, <1>13, GivesSteady DEF Then

LEMMA SteadyLoadRest ==
  ASSUME RaceConstants, RaceTypes, NEW s \in Contexts, LoadRest(s), Now(s)
  PROVE  Then(s)
<1> PICK f, g, a, n, kept : /\ f = frame[s] /\ g = frame'[s] /\ a = allocations
                            /\ n = allocations[f.slot].page_count
                            /\ kept = PagesKept({f.slot}, a)
  OBVIOUS
<1>1. /\ f.pc = "uncount" /\ f.pc \in Giving /\ SameHeap
      /\ SetsTotal(s, "uncounted", (allocated_pages - n) % WORD)
  BY DEF LoadRest, At, SetsTotal, heap, SameHeap, Giving, Held
<1>2. /\ Gives(f, page_bitmap, a, allocated_pages) /\ EntryGiven(f, a[f.slot])
      /\ n \in Nat /\ a \in Tables
  BY <1>1, GivesIs
<1>3. allocated_pages - n \in Nat /\ allocated_pages - n < WORD /\ WORD \in Nat
  <2>1. TableKept({f.slot}, f.at, a) /\ allocated_pages = Cardinality(kept) + n
    BY <1>1, <1>2 DEF Gives, Uncleared
  <2>2. Cardinality(kept) \in 0..TOTAL_PAGES
    BY <1>2, <2>1, KeptInHeap
  <2> PICK c, m : c = Cardinality(kept) /\ m = allocated_pages
    OBVIOUS
  <2>3. c \in 0..TOTAL_PAGES /\ m = c + n /\ TOTAL_PAGES \in Nat /\ WORD \in Nat /\ WORD > TOTAL_PAGES
    BY <2>1, <2>2 DEF RaceConstants
  <2>4. m - n \in Nat /\ m - n < WORD
    BY ONLY <1>2, <2>3
  <2> QED BY <2>3, <2>4
<1>4. (allocated_pages - n) % WORD = allocated_pages - n
  <2> PICK x : x = allocated_pages - n
    OBVIOUS
  <2>1. WORD \in Nat /\ x \in Int /\ x >= 0 /\ x < WORD
    BY <1>3
  <2>2. x % WORD = x
    BY ONLY <2>1, ModSmall
  <2> QED BY <2>2
<1>5. SameCall(f, g) /\ SamePlace(f, g) /\ g.pc = "uncounted" /\ g.total = allocated_pages - n
  <2>1. allocated_pages - n \in Int /\ "uncounted" \in Labels
    BY <1>3 DEF Labels, FreeLabels, Giving
  <2> QED BY <1>1, <1>4, <2>1, Totalled, FrameIs DEF SamePlace
<1>6. EntryGiven(g, a[f.slot])
  BY <1>1, <1>2, <1>5 DEF EntryGiven, Uncleared, SamePlace
<1>7. Gives(g, page_bitmap, a, allocated_pages)
  BY <1>1, <1>2, <1>5, <1>6 DEF Gives, Uncleared, SameCall, SamePlace
<1>8. g.pc \in Giving
  BY <1>5 DEF Giving
<1> QED BY <1>1, <1>7, <1>8, GivesSteady DEF Then, SameHeap

LEMMA SteadyUncount ==
  ASSUME RaceConstants, RaceTypes, NEW s \in Contexts, Uncount(s), Now(s)
  PROVE  Then(s)
<1> PICK f, g, a, n, kept : /\ f = frame[s] /\ g = frame'[s] /\ a = allocations
                            /\ n = allocations[f.slot].page_count
                            /\ kept = PagesKept({f.slot}, a)
  OBVIOUS
<1>1. /\ f.pc = "uncounted" /\ f.pc \in Giving /\ "no_start" \in Giving
      /\ "no_start" \in Labels
      /\ Goto(s, "no_start") /\ allocated_pages' = f.total
      /\ page_bitmap' = page_bitmap /\ allocations' = a
  BY DEF Uncount, At, Giving, Labels, FreeLabels
<1>2. /\ Gives(f, page_bitmap, a, allocated_pages) /\ EntryGiven(f, a[f.slot])
      /\ n \in Nat /\ a \in Tables
  BY <1>1, GivesIs
<1>3. f.total = Cardinality(kept)
  <2>1. TableKept({f.slot}, f.at, a) /\ allocated_pages = Cardinality(kept) + n
        /\ f.total = allocated_pages - n
    BY <1>1, <1>2 DEF Gives, Uncleared
  <2>2. Cardinality(kept) \in 0..TOTAL_PAGES
    BY <1>2, <2>1, KeptInHeap
  <2> PICK c, m : c = Cardinality(kept) /\ m = allocated_pages
    OBVIOUS
  <2>3. c \in Nat /\ m = c + n /\ f.total = m - n
    BY <2>1, <2>2 DEF RaceConstants
  <2>4. m - n = c
    BY ONLY <1>2, <2>3
  <2> QED BY <2>3, <2>4
<1>4. SameCall(f, g) /\ SamePlace(f, g) /\ g.pc = "no_start"
  BY <1>1, Went, FrameIs
<1>5. EntryGiven(g, a[f.slot])
  BY <1>1, <1>2, <1>4 DEF EntryGiven, Uncleared, SamePlace
<1>6. Gives(g, page_bitmap', a, allocated_pages')
  BY <1>1, <1>2, <1>3, <1>4, <1>5 DEF Gives, Uncleared, SameCall, SamePlace
<1> QED BY <1>1, <1>4, <1>6, GivesSteady DEF Then

(* A store to the entry that kfree empties.                                *)
LEMMA GivesField ==
  ASSUME RaceConstants, RaceTypes, NEW s \in Contexts, NEW l \in {"no_count", "unused",
         "return"},
         frame[s].pc \in {"no_start", "no_count", "unused"},
         Goto(s, l), Touches(frame[s].slot), Now(s),
         UNCHANGED <<page_bitmap, allocated_pages>>,
         EntryGiven(frame'[s], allocations'[frame[s].slot])
  PROVE  Then(s)
<1> PICK f, g, k, a, c : /\ f = frame[s] /\ g = frame'[s] /\ k = f.slot
                         /\ a = allocations /\ c = allocations'
  OBVIOUS
<1>1. f.pc \in Giving /\ l \in Giving
  BY DEF Giving
<1>2. /\ Gives(f, page_bitmap, a, allocated_pages) /\ k \in Slots
  BY <1>1, GivesIs
<1>3. SameCall(f, g) /\ SamePlace(f, g) /\ g.pc = l
  BY <1>1, Went, FrameIs, LabelSets
<1>4. a \in Tables /\ c \in Tables /\ \A i \in Slots : i # k => c[i] = a[i]
  BY FrameIs DEF Touches
<1>5. /\ PagesKept({k}, c) = PagesKept({k}, a) /\ Kept({k}, c) = Kept({k}, a)
      /\ \A i \in Kept({k}, a) : c[i] = a[i]
      /\ \A at : TableKept({k}, at, a) => TableKept({k}, at, c)
  BY ONLY <1>2, <1>4, KeptSame
<1>6. EntryGiven(g, c[k])
  OBVIOUS
<1>7. \A i \in Kept({k}, c) : c[i].start_page # f.start
  BY <1>2, <1>5 DEF Gives
<1>8. Gives(g, page_bitmap', c, allocated_pages')
  <2>1. /\ TableKept({k}, f.at, a) /\ f.at[Head(f.calls).pointer] = f.start
        /\ allocated_pages = Cardinality(PagesKept({k}, a))
        /\ page_bitmap = PagesKept({k}, a)
    BY <1>2 DEF Gives, Uncleared
  <2>2. g.at = f.at /\ g.calls = f.calls /\ g.start = f.start /\ g.slot = k
    BY <1>3 DEF SameCall, SamePlace
  <2>3. g.pc \notin Uncleared
    BY <1>3 DEF Uncleared
  <2>4. TableKept({k}, g.at, c) /\ page_bitmap' = PagesKept({k}, c)
        /\ allocated_pages' = Cardinality(PagesKept({k}, c))
    BY <1>5, <2>1, <2>2
  <2> QED BY <1>6, <1>7, <2>1, <2>2, <2>3, <2>4 DEF Gives, Uncleared
<1> QED BY <1>1, <1>3, <1>8, GivesSteady DEF Then

LEMMA SteadyClear ==
  ASSUME RaceConstants, RaceTypes, NEW s \in Contexts, Clear(s), Now(s)
  PROVE  Then(s)
<1> PICK f, g, k : f = frame[s] /\ g = frame'[s] /\ k = frame[s].slot
  OBVIOUS
<1>0. f.pc \in {"no_start", "no_count", "unused"} /\ f.pc \in Giving
      /\ UNCHANGED <<page_bitmap, allocated_pages>>
  BY DEF Clear, SetField, At, Giving
<1>1. /\ k \in Slots /\ allocations \in Tables /\ EntryGiven(f, allocations[k])
      /\ 0 \in Pages
  BY <1>0, GivesIs, ZeroIsPage
<1>2. {"no_count", "unused", "return"} \subseteq Labels
  BY DEF Labels, FreeLabels, Giving
<1>3. CASE SetField(s, "no_start", "start_page", 0, "no_count")
  <2>1. Writes(k, "start_page", 0) /\ f.pc = "no_start" /\ Goto(s, "no_count")
    BY <1>3 DEF SetField, Writes, At
  <2>2. /\ Touches(k) /\ allocations'[k].start_page = 0
        /\ allocations'[k].used <=> allocations[k].used
    BY <1>1, <2>1, StartWritten
  <2>3. g.pc = "no_count"
    BY <1>2, <2>1, Went, FrameIs
  <2>4. EntryGiven(g, allocations'[k])
    BY <1>1, <2>1, <2>2, <2>3 DEF EntryGiven, Uncleared
  <2> QED BY <1>0, <2>1, <2>2, <2>4, GivesField
<1>4. CASE SetField(s, "no_count", "page_count", 0, "unused")
  <2>1. Writes(k, "page_count", 0) /\ f.pc = "no_count" /\ Goto(s, "unused")
    BY <1>4 DEF SetField, Writes, At
  <2>2. /\ Touches(k) /\ allocations'[k].start_page = allocations[k].start_page
        /\ allocations'[k].page_count = 0
        /\ allocations'[k].used <=> allocations[k].used
    BY <1>1, <2>1, CountWritten
  <2>3. g.pc = "unused"
    BY <1>2, <2>1, Went, FrameIs
  <2>4. EntryGiven(g, allocations'[k])
    BY <1>1, <2>1, <2>2, <2>3 DEF EntryGiven, Uncleared
  <2> QED BY <1>0, <2>1, <2>2, <2>4, GivesField
<1>5. CASE SetField(s, "unused", "used", FALSE, "return")
  <2>1. Writes(k, "used", FALSE) /\ f.pc = "unused" /\ Goto(s, "return")
    BY <1>5 DEF SetField, Writes, At
  <2>2. /\ Touches(k) /\ allocations'[k].start_page = allocations[k].start_page
        /\ allocations'[k].page_count = allocations[k].page_count
        /\ ~allocations'[k].used
    BY <1>1, <2>1, UsedWritten
  <2>3. g.pc = "return"
    BY <1>2, <2>1, Went, FrameIs
  <2>4. EntryGiven(g, allocations'[k])
    BY <1>1, <2>1, <2>2, <2>3 DEF EntryGiven, Uncleared
  <2> QED BY <1>0, <2>1, <2>2, <2>4, GivesField
<1> QED BY <1>3, <1>4, <1>5 DEF Clear

LEMMA SteadyReturn ==
  ASSUME RaceConstants, RaceTypes, NEW s \in Contexts, Return(s), Now(s)
  PROVE  Then(s)
<1> PICK f, g, k, a, q, at, to :
      /\ f = frame[s] /\ g = frame'[s] /\ k = f.slot /\ a = allocations
      /\ q = Call(s).pointer /\ at = f.at /\ to = g.at
  OBVIOUS
<1>1. f.pc = "return" /\ f.pc \in Giving /\ SameHeap /\ CallReturns(s, None)
  BY DEF Return, At, heap, SameHeap, Giving
<1>2. /\ Gives(f, page_bitmap, a, allocated_pages) /\ EntryGiven(f, a[k]) /\ a \in Tables
      /\ k \in Slots /\ q \in Pointers /\ f.calls # <<>> /\ Call(s) = Head(f.calls)
  BY <1>1, GivesIs
<1>3. at \in Holdings
  BY FrameIs
<1>4. g.pc = "call" /\ to = [at EXCEPT ![q] = None]
  BY <1>1, <1>2, Returned, FrameIs
<1>5. a[k] = Free
  <2>1. ~a[k].used /\ a[k].start_page = 0 /\ a[k].page_count = 0
    BY <1>1, <1>2 DEF EntryGiven
  <2>2. a[k] \in [start_page : Pages, page_count : Nat, used : BOOLEAN]
    BY <1>2 DEF Tables
  <2> QED BY <2>1, <2>2 DEF Free
<1>6. /\ TableKept({k}, at, a) /\ page_bitmap = PagesKept({k}, a) /\ at[q] = f.start
      /\ allocated_pages = Cardinality(PagesKept({k}, a))
      /\ \A i \in Kept({k}, a) : a[i].start_page # at[q]
  BY <1>1, <1>2 DEF Gives, Uncleared
<1>7. \A p \in Pointers : p # q => to[p] = at[p]
  BY <1>3, <1>4 DEF Holdings
<1>8. PagesKept({}, a) = PagesKept({k}, a) /\ TableKept({}, to, a)
  BY ONLY <1>2, <1>5, <1>6, <1>7, FreeEntry
<1>9. Rest(g, page_bitmap', allocations', allocated_pages')
  BY <1>1, <1>4, <1>6, <1>8 DEF Rest, SameHeap
<1> QED BY <1>4, <1>9, RestSteady DEF Then

(* Once the calls of a command are done, nothing is out.                   *)
LEMMA CommandDone ==
  ASSUME RaceTypes, NEW s \in Contexts, frame[s].pc \in {"idle", "call"},
         frame[s].calls = <<>>, Now(s)
  PROVE  /\ page_bitmap = {} /\ allocated_pages = 0 /\ \A i \in Slots : allocations[i] = Free
         /\ \A at : TableKept({}, at, allocations)
         /\ PagesKept({}, allocations) = {}
<1>1. Rest(frame[s], page_bitmap, allocations, allocated_pages)
  BY RestSteady DEF Now
<1>2. \A p \in Pointers : frame[s].at[p] = None
  BY FrameIs, IdleHoldsNothing
<1>3. /\ Kept({}, allocations) = {} /\ PagesKept({}, allocations) = {}
      /\ \A i \in Slots : allocations[i] = Free
  BY <1>1, <1>2, FrameIs, NothingKept DEF Rest
<1>4. \A at : TableKept({}, at, allocations)
  BY <1>3 DEF TableKept
<1> QED BY <1>1, <1>3, <1>4, FS_EmptySet DEF Rest

(* A clean heap is right for a context that is to poll or to begin.        *)
LEMMA CleanSteady ==
  ASSUME NEW f, f.pc \in {"idle", "call"}, NEW a, \A i \in Slots : a[i] = Free
  PROVE  Steady(f, {}, a, 0)
<1>1. Kept({}, a) = {}
  BY DEF Kept, Free
<1>2. PagesKept({}, a) = {} /\ TableKept({}, f.at, a)
  BY <1>1 DEF PagesKept, TableKept
<1>3. Rest(f, {}, a, 0)
  BY <1>2, FS_EmptySet DEF Rest
<1> QED BY <1>3, RestSteady

(* The context that may be at work, while commands do not overlap.         *)
Alone(s) == (\A t \in Contexts : t # s => At(t, "idle")) /\ Now(s)

RaceInv == RaceTypes /\ (overlaps = 0 => \E s \in Contexts : Alone(s))

(* A step of a context that is not idle.                                   *)
LEMMA StepNotIdle ==
  ASSUME NEW s \in Contexts, Step(s) PROVE ~At(s, "idle")
BY DEF Step, NextCall, FindPages, FindSlot, Mark, SetBit, Claim, LoadTotal,
   Count, Search,
       Unmark, ClearBit, LoadRest, Uncount, Clear, Return, SetField, At

(* A step of the one command that is under way.                            *)
LEMMA SteadyStep ==
  ASSUME RaceConstants, RaceTypes, NEW s \in Contexts, Step(s), Now(s),
         At(s, "call") => frame[s].calls # <<>>
  PROVE  Then(s)
<1>1. CASE NextCall(s)
  <2>1. frame[s].calls # <<>>
    BY <1>1 DEF NextCall
  <2> QED BY <1>1, <2>1, SteadyNextCall
<1>2. CASE FindPages(s) \/ FindSlot(s) \/ Mark(s)
  BY <1>2, SteadyFindPages, SteadyFindSlot, SteadyMark
<1>3. CASE SetBit(s) \/ Claim(s) \/ LoadTotal(s) \/ Count(s)
  BY <1>3, SteadySetBit, SteadyClaim, SteadyLoadTotal, SteadyCount
<1>4. CASE Search(s) \/ Unmark(s) \/ ClearBit(s)
  BY <1>4, SteadySearch, SteadyUnmark, SteadyClearBit
<1>5. CASE LoadRest(s) \/ Uncount(s) \/ Clear(s) \/ Return(s)
  BY <1>5, SteadyLoadRest, SteadyUncount, SteadyClear, SteadyReturn
<1> QED BY <1>1, <1>2, <1>3, <1>4, <1>5 DEF Step

(* kfree unmarks pages of the heap.                                        *)
LEMMA UnmarkInHeap ==
  ASSUME RaceConstants, RaceTypes, NEW s \in Contexts, At(s, "unmark"),
         frame[s].i < Held(s),
         Overlapped \/ Now(s)
  PROVE  frame[s].start + frame[s].i \in Pages
<1> PICK f, n : f = frame[s] /\ n = Held(s)
  OBVIOUS
<1>1. f.pc = "unmark" /\ f.pc \in Giving
  BY DEF At, Giving
<1>2. /\ f.start \in Pages /\ f.slot \in Slots /\ f.i \in Nat
      /\ n = allocations[f.slot].page_count
      /\ n \in Nat
  BY <1>1, FrameIs, EntryIs DEF Placed, Held
<1>3. CASE Overlapped
  <2>1. n <= 1
    BY <1>2, <1>3 DEF RaceTypes
  <2>2. f.i = 0 /\ f.start \in Nat
    BY <1>2, <2>1 DEF Pages
  <2> QED BY <1>2, <2>2
<1>4. CASE Now(s)
  <2>1. f.start + n <= TOTAL_PAGES
    BY <1>1, <1>2, <1>4, GivesIs DEF EntryGiven, Uncleared
  <2> QED BY <1>2, <2>1, InHeap
<1> QED BY <1>3, <1>4

(* RaceInv is inductive.                                                   *)
LEMMA RaceInvInit ==
  ASSUME RaceConstants, RaceInit PROVE RaceInv
<1>1. RaceTypes
  BY TypesInit
<1>2. 0 \in Contexts /\ \A s \in Contexts : frame[s] = Polling
  BY DEF RaceInit, HeapClean, Contexts
<1>3. \A s \in Contexts : At(s, "idle")
  BY <1>2, PollingFrame DEF At
<1>4. \A i \in Slots : allocations[i] = Free
  BY DEF RaceInit, HeapClean
<1>5. Steady(frame[0], {}, allocations, 0)
  BY <1>2, <1>3, <1>4, CleanSteady DEF At
<1>6. Now(0)
  BY <1>5 DEF Now, RaceInit, HeapClean
<1> QED BY <1>1, <1>2, <1>3, <1>6 DEF RaceInv, Alone

LEMMA RaceInvStep ==
  ASSUME RaceConstants, RaceInv, NEW s \in Contexts, Step(s), UNCHANGED overlaps
  PROVE  RaceInv'
<1>0. RaceTypes /\ ~At(s, "idle")
  BY StepNotIdle DEF RaceInv
<1>1. overlaps = 0 => (\A t \in Contexts : t # s => At(t, "idle")) /\ Now(s)
  <2> SUFFICES ASSUME overlaps = 0
               PROVE  (\A t \in Contexts : t # s => At(t, "idle")) /\ Now(s)
    OBVIOUS
  <2>1. PICK r \in Contexts : Alone(r)
    BY DEF RaceInv
  <2>2. r = s
    BY <1>0, <2>1 DEF Alone
  <2> QED BY <2>1, <2>2 DEF Alone
<1>2. CASE At(s, "call") /\ frame[s].calls = <<>>
  <2>1. NextCall(s)
    BY <1>2 DEF Step, NextCall, FindPages, FindSlot, Mark, SetBit, Claim,
       LoadTotal, Count, Search,
       Unmark, ClearBit, LoadRest, Uncount, Clear, Return, SetField, At
  <2>2. overlaps = 0 => /\ page_bitmap = {} /\ allocated_pages = 0
                        /\ \A i \in Slots : allocations[i] = Free
    BY <1>0, <1>1, <1>2, CommandDone DEF At
  <2>3. frame[s].command = "memstress" => \A i \in Slots : allocations[i].page_count <= 1
    <3>1. frame[s].command = "memstress" => overlaps = 0
      BY <1>0 DEF RaceTypes, Overlapped
    <3> QED BY <2>2, <3>1 DEF Free
  <2>4. RaceTypes' /\ Moves(s) /\ UNCHANGED heap /\ frame'[s] = Polling
    BY <1>0, <1>2, <2>1, <2>3, TypesEnd
  <2>5. overlaps' = 0 => Then(s)
    <3> SUFFICES ASSUME overlaps = 0 PROVE Then(s)
      OBVIOUS
    <3>1. /\ page_bitmap' = {} /\ allocated_pages' = 0
          /\ \A i \in Slots : allocations'[i] = Free
      BY <2>2, <2>4 DEF heap
    <3>2. frame'[s].pc \in {"idle", "call"}
      BY <2>4, PollingFrame
    <3>3. Steady(frame'[s], {}, allocations', 0)
      BY ONLY <3>1, <3>2, CleanSteady
    <3> QED BY <3>1, <3>3 DEF Then
  <2>6. overlaps' = 0 => Alone(s)'
    BY <1>1, <2>4, <2>5 DEF Alone, Now, Then, Moves, At
  <2> QED BY <2>4, <2>6 DEF RaceInv
<1>3. CASE ~(At(s, "call") /\ frame[s].calls = <<>>)
  <2>1. At(s, "unmark") /\ frame[s].i < Held(s) => frame[s].start + frame[s].i \in Pages
    <3>1. Overlapped \/ Now(s)
      BY <1>0, <1>1 DEF RaceTypes
    <3> QED BY <1>0, <3>1, UnmarkInHeap
  <2>2. RaceTypes'
    BY <1>0, <1>3, <2>1, TypesStep
  <2>3. overlaps = 0 => Then(s)
    BY <1>0, <1>1, <1>3, SteadyStep
  <2>4. \A t \in Contexts : t # s => frame'[t] = frame[t]
    <3>1. frame' = [frame EXCEPT ![s] = frame'[s]]
      BY <1>0, FrameIs DEF Step, NextCall, FindPages, FindSlot, Mark, SetBit,
         Claim, LoadTotal, Count, Search,
       Unmark, ClearBit, LoadRest, Uncount, Clear, Return, SetField, Goto,
       LoadByte, CallReturns
    <3> QED BY <1>0, <3>1, FrameIs
  <2>5. overlaps' = 0 => Alone(s)'
    BY <1>1, <2>3, <2>4 DEF Alone, Now, Then, At
  <2> QED BY <2>2, <2>5 DEF RaceInv
<1> QED BY <1>2, <1>3

LEMMA RaceInvEnter ==
  ASSUME RaceConstants, RaceInv, NEW s \in Contexts, Enter(s)
  PROVE  RaceInv'
<1>0. RaceTypes
  BY DEF RaceInv
<1>1. /\ RaceTypes' /\ Moves(s) /\ UNCHANGED heap /\ frame'[s].pc = "call"
      /\ frame'[s].at = frame[s].at
  BY <1>0, TypesEnter
<1>2. overlaps' = 0 => Alone(s)'
  <2> SUFFICES ASSUME overlaps' = 0 PROVE Alone(s)'
    OBVIOUS
  <2>1. overlaps = 0 /\ \A t \in Contexts : At(t, "idle")
    BY <1>0 DEF Enter, RaceTypes
  <2>2. PICK r \in Contexts : Alone(r)
    BY <2>1 DEF RaceInv
  <2>3. frame[r].pc = "idle" /\ frame[r].calls = <<>>
    BY <1>0, <2>1, FrameIs DEF Placed, At
  <2>4. page_bitmap = {} /\ allocated_pages = 0 /\ \A i \in Slots : allocations[i] = Free
    BY <1>0, <2>2, <2>3, CommandDone DEF Alone
  <2>5. page_bitmap' = {} /\ allocated_pages' = 0 /\ \A i \in Slots : allocations'[i] = Free
    BY <1>1, <2>4 DEF heap
  <2>6. frame'[s].pc \in {"idle", "call"}
    BY <1>1
  <2>7. Steady(frame'[s], {}, allocations', 0)
    BY ONLY <2>5, <2>6, CleanSteady
  <2> QED BY <1>1, <2>1, <2>5, <2>7 DEF Alone, Now, Moves, At
<1> QED BY <1>1, <1>2 DEF RaceInv

LEMMA RaceInvReboot ==
  ASSUME RaceConstants, RaceInv, Reboot
  PROVE  RaceInv'
<1>1. RaceTypes'
  BY TypesReboot DEF RaceInv
<1>2. /\ page_bitmap' = {} /\ allocated_pages' = 0 /\ \A i \in Slots : allocations'[i] = Free
      /\ \A t \in Contexts : frame'[t].pc = "idle"
  BY DEF Reboot, At
<1>3. 0 \in Contexts
  BY DEF Contexts
<1>4. frame'[0].pc \in {"idle", "call"}
  BY <1>2, <1>3
<1>5. Steady(frame'[0], {}, allocations', 0)
  BY ONLY <1>2, <1>4, CleanSteady
<1>6. Alone(0)'
  BY <1>2, <1>3, <1>5 DEF Alone, Now, At
<1> QED BY <1>1, <1>3, <1>6 DEF RaceInv

LEMMA RaceInvStutter == RaceInv /\ UNCHANGED race_vars => RaceInv'
BY DEF RaceInv, Alone, Now, race_vars, heap, RaceTypes, HeapTypes, Overlapped, At

LEMMA RaceInvNext ==
  ASSUME RaceConstants, RaceInv, [RaceNext]_race_vars PROVE RaceInv'
BY RaceInvStep, RaceInvEnter, RaceInvReboot, RaceInvStutter DEF RaceNext

LEMMA RaceAlways == ASSUME RaceConstants PROVE RaceSpec => []RaceInv
<1>1. RaceInit => RaceInv
  BY RaceInvInit
<1>2. RaceInv /\ [RaceNext]_race_vars => RaceInv'
  BY RaceInvNext
<1> QED BY <1>1, <1>2, PTL DEF RaceSpec

(* For every size of heap, table and block, whichever calls of a command   *)
(* fail and however memtests interleave: every variable is in its range at *)
(* every store, and once no command runs the bitmap, the table and the     *)
(* count are as at boot, unless two commands have overlapped               *)
(* (shell.c:548).                                                          *)
THEOREM RaceHeapRestored ==
  ASSUME Overlapping \subseteq {"memtest"} PROVE RaceSpec => []HeapRestored
<1> RaceConstants
  BY HeapTableAssumption, HeapRaceAssumption DEF RaceConstants
<1>1. RaceInv => HeapRestored
  <2> SUFFICES ASSUME RaceInv PROVE HeapRestored
    OBVIOUS
  <2>1. RaceTypes
    BY DEF RaceInv
  <2>2. RaceTypeOK
    <3>1. HeapTypes /\ \A s \in Contexts : /\ frame[s].start \in Pages \cup {None}
                                         /\ frame[s].byte \in PageSets
      BY <2>1, FrameIs DEF RaceTypes
    <3> QED BY <3>1 DEF RaceTypeOK, HeapTypes, Tables, PageSets
  <2>3. AllReleased
    <3> SUFFICES ASSUME overlaps = 0, \A s \in Contexts : At(s, "idle")
                 PROVE  page_bitmap = {} /\ allocated_pages = 0
                        /\ \A i \in Slots : ~allocations[i].used
      BY DEF AllReleased
    <3>1. PICK r \in Contexts : Alone(r)
      BY DEF RaceInv
    <3>2. frame[r].pc = "idle" /\ frame[r].calls = <<>>
      BY <2>1, <3>1, FrameIs DEF Placed, At
    <3> QED BY <2>1, <3>1, <3>2, CommandDone DEF Alone, Free
  <2> QED BY <2>2, <2>3 DEF HeapRestored
<1> QED BY <1>1, RaceAlways, PTL

AsPoolBlock(e) == [start |-> e.start_page, count |-> e.page_count]

(* The entries whose blocks the pool counts as out.                        *)
Out(f, a) == Kept(IF f.pc \in Giving THEN {f.slot} ELSE {}, a)

OutBlocks(f, a) == {AsPoolBlock(a[i]) : i \in Out(f, a)}

(* Blocks, of any frames and table.                                        *)
BlocksOf(fr, a) ==
  {[start |-> a[i].start_page, count |-> a[i].page_count] :
     i \in {j \in Slots \ {fr[t].slot : t \in {u \in Contexts :
              fr[u].pc \in {"unmark", "clear", "uncount", "uncounted",
                           "no_start", "no_count", "unused"}}} : a[j].used}}

(* While one command runs, the blocks of the pool are those of its frame.  *)
LEMMA BlocksFor ==
  ASSUME NEW fr, NEW a, NEW s \in Contexts,
         \A t \in Contexts : t # s => fr[t].pc = "idle",
         fr[s].pc = "return" => ~a[fr[s].slot].used
  PROVE  BlocksOf(fr, a) = OutBlocks(fr[s], a)
<1> PICK busy, freed :
      /\ busy = {u \in Contexts : fr[u].pc \in {"unmark", "clear", "uncount", "uncounted",
                                               "no_start", "no_count", "unused"}}
      /\ freed = {fr[t].slot : t \in busy}
  OBVIOUS
<1>1. \A u \in busy : u = s
  OBVIOUS
<1>2. {j \in Slots \ freed : a[j].used} = Out(fr[s], a)
  <2>1. CASE fr[s].pc \notin Giving
    <3>1. freed = {}
      BY <1>1, <2>1 DEF Giving
    <3> QED BY <2>1, <3>1 DEF Out, Kept
  <2>2. CASE fr[s].pc \in Giving \ {"return"}
    <3>1. freed = {fr[s].slot}
      BY <1>1, <2>2 DEF Giving
    <3> QED BY <2>2, <3>1 DEF Out, Kept
  <2>3. CASE fr[s].pc = "return"
    <3>1. freed = {}
      BY <1>1, <2>3
    <3> QED BY <2>3, <3>1 DEF Out, Kept, Giving
  <2> QED BY <2>1, <2>2, <2>3
<1> QED BY <1>2 DEF AsPoolBlock, BlocksOf, OutBlocks

LEMMA ReturnUnused ==
  ASSUME NEW f, NEW b, NEW a, NEW n, Steady(f, b, a, n), f.pc = "return"
  PROVE  ~a[f.slot].used
<1>1. f.pc \in Giving
  BY DEF Giving
<1>2. EntryGiven(f, a[f.slot])
  BY <1>1, GivesSteady DEF Gives
<1> QED BY <1>2 DEF EntryGiven

LEMMA BlocksNow ==
  ASSUME RaceTypes, NEW s \in Contexts, Alone(s)
  PROVE  Blocks = OutBlocks(frame[s], allocations)
<1>1. \A t \in Contexts : t # s => frame[t].pc = "idle"
  BY DEF Alone, At
<1>2. frame[s].pc = "return" => ~allocations[frame[s].slot].used
  BY ReturnUnused DEF Alone, Now
<1>3. Blocks = BlocksOf(frame, allocations)
  BY DEF Blocks, BeingFreed, BlocksOf
<1> QED BY <1>1, <1>2, <1>3, BlocksFor

LEMMA BlocksThen ==
  ASSUME NEW s \in Contexts, Alone(s), Then(s),
         \A t \in Contexts : t # s => frame'[t] = frame[t]
  PROVE  Blocks' = OutBlocks(frame'[s], allocations')
<1> PICK fr, a : fr = frame' /\ a = allocations'
  OBVIOUS
<1>1. \A t \in Contexts : t # s => fr[t].pc = "idle"
  BY DEF Alone, At
<1>2. fr[s].pc = "return" => ~a[fr[s].slot].used
  BY ReturnUnused DEF Then
<1>3. Blocks' = BlocksOf(fr, a)
  BY DEF Blocks, BeingFreed, BlocksOf
<1>4. Blocks' = OutBlocks(fr[s], a)
  <2>1. s \in Contexts
    OBVIOUS
  <2> QED BY ONLY <1>1, <1>2, <1>3, <2>1, BlocksFor
<1> QED BY <1>4

(* A step that leaves the entries in use alone leaves the pool alone.      *)
LEMMA BlocksStay ==
  ASSUME RaceTypes, NEW s \in Contexts, Alone(s), Then(s),
         \A t \in Contexts : t # s => frame'[t] = frame[t],
         Out(frame'[s], allocations') = Out(frame[s], allocations),
         \A i \in Out(frame[s], allocations) : allocations'[i] = allocations[i]
  PROVE  UNCHANGED Blocks
BY BlocksNow, BlocksThen DEF OutBlocks

(* No call frees, before the step or after it, and no entry changes.       *)
LEMMA NothingFreed ==
  ASSUME RaceTypes, NEW s \in Contexts, Alone(s), Then(s), Moves(s),
         frame[s].pc \notin Giving,
         frame'[s].pc \notin Giving, UNCHANGED allocations
  PROVE  UNCHANGED Blocks
BY BlocksStay DEF Out, Moves

(* kfree goes on with its entry.                                           *)
LEMMA StillFreeing ==
  ASSUME RaceTypes, NEW s \in Contexts, Alone(s), Then(s), Moves(s),
         frame[s].pc \in Giving,
         frame'[s].pc \in Giving, frame'[s].slot = frame[s].slot,
         \A i \in Slots : i # frame[s].slot => allocations'[i] = allocations[i]
  PROVE  UNCHANGED Blocks
<1> PICK k, a, c : k = frame[s].slot /\ a = allocations /\ c = allocations'
  OBVIOUS
<1>1. Kept({k}, c) = Kept({k}, a) /\ \A i \in Kept({k}, a) : c[i] = a[i]
  BY DEF Kept
<1> QED BY <1>1, BlocksStay DEF Out, Moves

(* kfree takes the block from the pool when it settles on its entry.       *)
LEMMA PoolSearch ==
  ASSUME RaceConstants, RaceTypes, NEW s \in Contexts, Alone(s), Then(s), Search(s)
  PROVE  RacePool!Next \/ UNCHANGED Blocks
<1> PICK f, g, a, p : f = frame[s] /\ g = frame'[s] /\ a = allocations /\ p = f.at[Call(s).pointer]
  OBVIOUS
<1>1. f.pc = "search" /\ f.pc \notin Giving /\ allocations' = a
  BY DEF Search, At, heap, Giving
<1>2. p \in Pages /\ f.calls # <<>> /\ a \in Tables
  BY <1>1, FrameIs DEF Placed, FreeLabels, Call
<1>3. CASE CallReturns(s, None)
  <2>1. Moves(s) /\ g.pc = "call"
    BY <1>2, <1>3, Returned, FrameIs
  <2>2. g.pc \notin Giving
    BY <2>1 DEF Giving
  <2> QED BY <1>1, <2>1, <2>2, NothingFreed
<1>4. ASSUME NEW k \in Holders(p), SetsBoth(s, "unmark", p, k)
      PROVE  RacePool!Next
  <2>1. k \in Slots /\ a[k].used /\ "unmark" \in Labels /\ k \in Kept({}, a)
    BY DEF Holders, Labels, FreeLabels, Giving, Kept
  <2>2. Moves(s) /\ g.pc = "unmark" /\ g.slot = k
    BY <1>2, <1>4, <2>1, Searched, FrameIs
  <2>3. TableKept({}, f.at, a)
    BY <1>1, RestSteady DEF Alone, Now, Rest
  <2>4. \A i \in Kept({k}, a) : a[i].start_page # a[k].start_page
    BY <1>2, <2>1, <2>3, TakeBlock
  <2>5. Kept({k}, a) = Kept({}, a) \ {k}
    BY DEF Kept
  <2>6. Blocks = {AsPoolBlock(a[i]) : i \in Kept({}, a)}
    BY <1>1, BlocksNow DEF Out, OutBlocks
  <2>7. Blocks' = {AsPoolBlock(a[i]) : i \in Kept({k}, a)}
    <3>1. g.pc \in Giving
      BY <2>2 DEF Giving
    <3> QED BY <1>1, <2>2, <3>1, BlocksThen DEF Out, OutBlocks, Moves
  <2>8. \A i \in Kept({k}, a) : AsPoolBlock(a[i]) # AsPoolBlock(a[k])
    BY <2>4 DEF AsPoolBlock
  <2>9. AsPoolBlock(a[k]) \in Blocks /\ Blocks' = Blocks \ {AsPoolBlock(a[k])}
    BY <2>1, <2>5, <2>6, <2>7, <2>8
  <2> QED BY <2>9 DEF RacePool!Next, RacePool!Free
<1> QED BY <1>1, <1>3, <1>4 DEF Search, SetsBoth

(* The entry is already empty when kfree returns.                          *)
LEMMA PoolReturn ==
  ASSUME RaceConstants, RaceTypes, NEW s \in Contexts, Alone(s), Then(s), Return(s)
  PROVE  UNCHANGED Blocks
<1> PICK f, g, a, k : f = frame[s] /\ g = frame'[s] /\ a = allocations /\ k = f.slot
  OBVIOUS
<1>1. f.pc = "return" /\ f.pc \in Giving /\ allocations' = a /\ CallReturns(s, None)
  BY DEF Return, At, heap, Giving
<1>2. f.calls # <<>> /\ ~a[k].used
  BY <1>1, FrameIs, LabelSets, ReturnUnused DEF Placed, Alone, Now
<1>3. Moves(s) /\ g.pc = "call"
  BY <1>1, <1>2, Returned, FrameIs
<1>4. g.pc \notin Giving
  BY <1>3 DEF Giving
<1>5. Kept({}, a) = Kept({k}, a)
  BY <1>2 DEF Kept
<1> QED BY <1>1, <1>3, <1>4, <1>5, BlocksStay DEF Out, Moves

(* kmalloc adds the block with the store of used, and not before.          *)
LEMMA PoolClaim ==
  ASSUME RaceConstants, RaceTypes, NEW s \in Contexts, Alone(s), Then(s), Claim(s)
  PROVE  RacePool!Next \/ UNCHANGED Blocks
<1> PICK f, g, a, c, k : /\ f = frame[s] /\ g = frame'[s] /\ a = allocations
                         /\ c = allocations' /\ k = f.slot
  OBVIOUS
<1>0. f.pc \in {"start_page", "page_count", "used"} /\ f.pc \in Claiming /\ f.pc \notin Giving
  BY DEF Claim, SetField, At, Claiming, Giving
<1>1. /\ k \in Slots /\ f.start \in Pages /\ a \in Tables /\ Call(s) = Head(f.calls)
      /\ Call(s).pages \in Nat /\ Call(s).pages > 0
      /\ Takes(f, page_bitmap, a, allocated_pages)
      /\ f.start + Call(s).pages <= TOTAL_PAGES
  BY <1>0, TakesIs, FrameIs DEF Alone
<1>2. EntryTaken(f, a[k]) /\ ~a[k].used
  BY <1>0, <1>1 DEF Takes, EntryTaken
<1>3. ASSUME NEW l \in {"page_count", "used"}, Goto(s, l), Touches(k), ~c[k].used
      PROVE  UNCHANGED Blocks
  <2>1. Moves(s) /\ g.pc = l
    BY <1>3, Went, FrameIs DEF Labels, AllocLabels, Claiming
  <2>2. g.pc \notin Giving
    BY <2>1 DEF Giving
  <2>3. Kept({}, c) = Kept({}, a) /\ \A i \in Kept({}, a) : c[i] = a[i]
    BY <1>2, <1>3 DEF Kept, Touches
  <2> QED BY <1>0, <2>1, <2>2, <2>3, BlocksStay DEF Out, Moves
<1>4. CASE SetField(s, "start_page", "start_page", Block(s), "page_count")
  <2>1. Writes(k, "start_page", f.start) /\ Goto(s, "page_count")
    BY <1>4 DEF SetField, Writes, Block
  <2>2. Touches(k) /\ (c[k].used <=> a[k].used)
    BY <1>1, <2>1, StartWritten
  <2> QED BY <1>2, <1>3, <2>1, <2>2
<1>5. CASE SetField(s, "page_count", "page_count", Call(s).pages, "used")
  <2>1. Writes(k, "page_count", Call(s).pages) /\ Goto(s, "used")
    BY <1>5 DEF SetField, Writes
  <2>2. Touches(k) /\ (c[k].used <=> a[k].used)
    BY <1>1, <2>1, CountWritten
  <2> QED BY <1>2, <1>3, <2>1, <2>2
<1>6. CASE SetField(s, "used", "used", TRUE, "count")
  <2>1. Writes(k, "used", TRUE) /\ Goto(s, "count") /\ f.pc = "used" /\ "count" \in Labels
    BY <1>6 DEF SetField, Writes, At, Labels, AllocLabels, Claiming
  <2>2. /\ Touches(k) /\ c[k].used /\ c[k].start_page = a[k].start_page
        /\ c[k].page_count = a[k].page_count
    BY <1>1, <2>1, UsedWritten
  <2>3. Moves(s) /\ g.pc = "count" /\ g.slot = k
    BY <2>1, Went, FrameIs DEF SamePlace
  <2>4. g.pc \notin Giving
    BY <2>3 DEF Giving
  <2>5. Kept({}, c) = Kept({}, a) \cup {k} /\ \A i \in Kept({}, a) : c[i] = a[i]
    BY <1>1, <1>2, <2>2 DEF Kept, Touches
  <2>6. Blocks = {AsPoolBlock(a[i]) : i \in Kept({}, a)}
    BY <1>0, BlocksNow DEF Out, OutBlocks
  <2>7. Blocks' = {AsPoolBlock(c[i]) : i \in Kept({}, c)}
    BY <2>3, <2>4, BlocksThen DEF Out, OutBlocks, Moves
  <2> PICK b : b = AsPoolBlock(c[k])
    OBVIOUS
  <2>8. Blocks' = Blocks \cup {b}
    BY <2>5, <2>6, <2>7
  <2>9. b = [start |-> f.start, count |-> Call(s).pages]
    BY <1>1, <1>2, <2>1, <2>2 DEF EntryTaken, AsPoolBlock
  <2>10. \A d \in Blocks : RacePool!PagesOf(b) \cap RacePool!PagesOf(d) = {}
    <3> SUFFICES ASSUME NEW i \in Kept({}, a)
                 PROVE  RacePool!PagesOf(b) \cap RacePool!PagesOf(AsPoolBlock(a[i])) = {}
      BY <2>6
    <3>1. i \in Kept({k}, a)
      BY <1>2 DEF Kept
    <3>2. RacePool!PagesOf(AsPoolBlock(a[i])) = BlockAt(a[i])
      BY DEF RacePool!PagesOf, AsPoolBlock, BlockAt, Run
    <3>3. BlockAt(a[i]) \subseteq PagesKept({k}, a)
      BY <3>1, KeptIs
    <3>4. RacePool!PagesOf(b) = Run(f.start, Call(s).pages)
      BY <2>9 DEF RacePool!PagesOf, Run
    <3>5. Run(f.start, Call(s).pages) \cap PagesKept({k}, a) = {}
      BY <1>1 DEF Takes
    <3> QED BY <3>2, <3>3, <3>4, <3>5
  <2>11. b \in [start : 0..TOTAL_PAGES, count : 1..TOTAL_PAGES]
    <3>1. f.start \in 0..TOTAL_PAGES /\ Call(s).pages \in 1..TOTAL_PAGES
      BY <1>1 DEF Pages, RaceConstants
    <3> QED BY <2>9, <3>1
  <2>12. RacePool!Alloc(b)
    BY <1>1, <2>8, <2>9, <2>10 DEF RacePool!Alloc
  <2> QED BY <2>11, <2>12 DEF RacePool!Next
<1> QED BY <1>4, <1>5, <1>6 DEF Claim

(* A step of kmalloc before its entry is in use, or after it.              *)
LEMMA PoolMalloc ==
  ASSUME RaceConstants, RaceTypes, NEW s \in Contexts, Alone(s), Then(s),
         FindPages(s) \/ FindSlot(s) \/ Mark(s) \/ SetBit(s) \/ LoadTotal(s) \/ Count(s)
  PROVE  UNCHANGED Blocks
<1> PICK f, g : f = frame[s] /\ g = frame'[s]
  OBVIOUS
<1>1. /\ f.pc \in {"find", "slot", "mark", "set", "count", "counted"}
      /\ f.pc \in AllocLabels /\ f.pc \notin Giving /\ UNCHANGED allocations
  BY DEF FindPages, FindSlot, Mark, SetBit, LoadTotal, Count, At, heap,
     AllocLabels, Claiming, Giving
<1>2. f.calls # <<>>
  BY <1>1, FrameIs, LabelSets DEF Placed, Giving
<1>3. {"slot", "mark", "set", "start_page", "counted"} \subseteq Labels
  BY DEF Labels, AllocLabels, Claiming
<1>4. Moves(s) /\ g.pc \in {"call", "slot", "mark", "set", "start_page", "counted"}
  <2>1. CASE FindPages(s)
    <3>1. CallReturns(s, None) \/ \E p \in Pages : SetsStart(s, "slot", p)
      BY <2>1 DEF FindPages, Fits, Run, SetsStart
    <3> QED BY <1>2, <1>3, <3>1, Returned, Started, FrameIs
  <2>2. CASE FindSlot(s)
    <3>1. CallReturns(s, None) \/ \E k \in Slots : SetsSlot(s, "mark", k)
      BY <2>2 DEF FindSlot, FreeSlots, SetsSlot
    <3> QED BY <1>2, <1>3, <3>1, Returned, Chose, FrameIs
  <2>3. CASE Mark(s)
    <3>1. LoadByte(s, "set") \/ Goto(s, "start_page")
      BY <2>3 DEF Mark
    <3> QED BY <1>3, <3>1, ByteLoaded, Went, FrameIs
  <2>4. CASE SetBit(s)
    <3>1. SetsIndex(s, "mark", f.i + 1) /\ f.i + 1 \in Nat
      BY <2>4, FrameIs DEF SetBit, SetsIndex
    <3> QED BY <1>3, <3>1, Advanced, FrameIs
  <2>5. CASE LoadTotal(s)
    <3>1. SetsTotal(s, "counted", allocated_pages) /\ allocated_pages \in Int
      BY <2>5, FrameIs DEF LoadTotal, SetsTotal
    <3> QED BY <1>3, <3>1, Totalled, FrameIs
  <2>6. CASE Count(s)
    <3>1. CallReturns(s, f.start) /\ f.start \in Pages \cup {None}
      BY <2>6, FrameIs DEF Count, Block
    <3> QED BY <1>2, <3>1, Returned, FrameIs
  <2> QED BY <2>1, <2>2, <2>3, <2>4, <2>5, <2>6
<1>5. g.pc \notin Giving
  BY <1>4 DEF Giving
<1> QED BY <1>1, <1>4, <1>5, NothingFreed

(* A step of kfree once it has found the entry, but for its return.        *)
LEMMA PoolFree ==
  ASSUME RaceConstants, RaceTypes, NEW s \in Contexts, Alone(s), Then(s),
         Unmark(s) \/ ClearBit(s) \/ LoadRest(s) \/ Uncount(s) \/ Clear(s)
  PROVE  UNCHANGED Blocks
<1> PICK f, g, k : f = frame[s] /\ g = frame'[s] /\ k = f.slot
  OBVIOUS
<1>1. f.pc \in Giving
  BY DEF Unmark, ClearBit, LoadRest, Uncount, Clear, SetField, At, Giving
<1>2. k \in Slots /\ allocations \in Tables /\ allocated_pages \in Int /\ 0 \in Pages
      /\ allocations[k].page_count \in Nat /\ f.i \in Nat
  BY <1>1, GivesIs, FrameIs, ZeroIsPage DEF Alone
<1>3. Giving \subseteq Labels
  BY LabelSets
<1>4. {"clear", "uncount", "unmark", "uncounted", "no_start", "no_count", "unused", "return"} = Giving
  BY DEF Giving
<1>5. CASE Unmark(s) \/ ClearBit(s) \/ LoadRest(s) \/ Uncount(s)
  <2>1. UNCHANGED allocations
    BY <1>5 DEF Unmark, ClearBit, LoadRest, Uncount, heap
  <2>2. Moves(s) /\ g.pc \in Giving /\ g.slot = k
    <3>1. CASE Unmark(s)
      <4>1. LoadByte(s, "clear") \/ Goto(s, "uncount")
        BY <3>1 DEF Unmark
      <4> QED BY <1>3, <1>4, <4>1, ByteLoaded, Went, FrameIs DEF SamePlace
    <3>2. CASE ClearBit(s)
      <4>1. SetsIndex(s, "unmark", f.i + 1) /\ f.i + 1 \in Nat
        BY <1>2, <3>2 DEF ClearBit, SetsIndex
      <4> QED BY <1>3, <1>4, <4>1, Advanced, FrameIs
    <3>3. CASE LoadRest(s)
      <4> PICK n : n = (allocated_pages - Held(s)) % WORD
        OBVIOUS
      <4>1. n \in Int
        <5>1. allocated_pages - Held(s) \in Int /\ WORD \in Nat \ {0}
          BY <1>2 DEF Held, RaceConstants
        <5> QED BY <5>1, ModRange
      <4>2. SetsTotal(s, "uncounted", n)
        BY <3>3 DEF LoadRest, SetsTotal
      <4> QED BY <1>3, <1>4, <4>1, <4>2, Totalled, FrameIs
    <3>4. CASE Uncount(s)
      <4>1. Goto(s, "no_start")
        BY <3>4 DEF Uncount
      <4> QED BY <1>3, <1>4, <4>1, Went, FrameIs DEF SamePlace
    <3> QED BY <1>5, <3>1, <3>2, <3>3, <3>4
  <2> QED BY <1>1, <2>1, <2>2, StillFreeing
<1>6. CASE Clear(s)
  <2>1. \E l \in Giving : Goto(s, l)
    BY <1>4, <1>6 DEF Clear, SetField
  <2>2. Moves(s) /\ g.pc \in Giving /\ g.slot = k
    BY <1>3, <2>1, Went, FrameIs DEF SamePlace
  <2>3. Touches(k)
    <3>1. Writes(k, "start_page", 0) \/ Writes(k, "page_count", 0) \/ Writes(k, "used", FALSE)
      BY <1>6 DEF Clear, SetField, Writes
    <3> QED BY <1>2, <3>1, StartWritten, CountWritten, UsedWritten
  <2> QED BY <1>1, <2>2, <2>3, StillFreeing DEF Touches
<1> QED BY <1>5, <1>6

(* Between two calls, and between two commands, the pool stays.            *)
LEMMA PoolNextCall ==
  ASSUME RaceTypes, NEW s \in Contexts, Alone(s), Then(s), NextCall(s)
  PROVE  UNCHANGED Blocks
<1>1. frame[s].pc = "call" /\ frame[s].pc \notin Giving /\ UNCHANGED allocations
  BY DEF NextCall, At, heap, Giving
<1>2. Moves(s) /\ frame'[s].pc \in {"idle", "find", "call", "search"}
  <2>1. CASE frame[s].calls = <<>>
    <3>1. frame' = [frame EXCEPT ![s] = Polling]
      BY <2>1 DEF NextCall
    <3> QED BY <3>1, FrameIs, PollingFrame DEF Moves
  <2>2. CASE frame[s].calls # <<>>
    <3>1. Goto(s, "find") \/ Goto(s, "search") \/ CallReturns(s, None)
      BY <2>2 DEF NextCall
    <3>2. "find" \in Labels /\ "search" \in Labels
      BY DEF Labels, AllocLabels, FreeLabels
    <3> QED BY <2>2, <3>1, <3>2, Went, Returned, FrameIs
  <2> QED BY <2>1, <2>2
<1>3. frame'[s].pc \notin Giving
  BY <1>2 DEF Giving
<1> QED BY <1>1, <1>2, <1>3, NothingFreed

LEMMA PoolEnter ==
  ASSUME RaceConstants, RaceInv, RaceInv', NEW s \in Contexts, Enter(s), overlaps = 0,
         overlaps' = 0
  PROVE  UNCHANGED Blocks
<1>1. RaceTypes /\ \A t \in Contexts : frame[t].pc = "idle"
  BY DEF RaceInv, Enter, At, RaceTypes
<1>2. Moves(s) /\ UNCHANGED allocations /\ frame'[s].pc = "call"
  BY <1>1, TypesEnter DEF heap
<1>3. BeingFreed = {}
  BY <1>1 DEF BeingFreed
<1>4. BeingFreed' = {}
  <2>1. \A t \in Contexts : frame'[t].pc \in {"idle", "call"}
    BY <1>1, <1>2 DEF Moves
  <2> QED BY <2>1 DEF BeingFreed
<1> QED BY <1>2, <1>3, <1>4 DEF Blocks

(* Every step is one of the pool, or none.                                 *)
LEMMA PoolStep ==
  ASSUME RaceConstants, RaceInv, RaceInv', [RaceNext]_race_vars, overlaps = 0, overlaps' = 0
  PROVE  RacePool!Next \/ UNCHANGED Blocks
<1>1. CASE UNCHANGED race_vars
  BY <1>1 DEF race_vars, heap, Blocks, BeingFreed
<1>2. CASE Reboot
  BY <1>2 DEF Reboot, RaceInv, RaceTypes
<1>3. ASSUME NEW s \in Contexts, Enter(s) PROVE UNCHANGED Blocks
  BY <1>3, PoolEnter
<1>4. ASSUME NEW s \in Contexts, Step(s) PROVE RacePool!Next \/ UNCHANGED Blocks
  <2>1. RaceTypes /\ ~At(s, "idle")
    BY <1>4, StepNotIdle DEF RaceInv
  <2>2. Alone(s)
    <3>1. PICK r \in Contexts : Alone(r)
      BY DEF RaceInv
    <3> QED BY <2>1, <3>1 DEF Alone
  <2>3. CASE NextCall(s)
    <3>1. Then(s)
      <4>1. CASE frame[s].calls = <<>>
        <5>1. /\ page_bitmap = {} /\ allocated_pages = 0
              /\ \A i \in Slots : allocations[i] = Free
          BY <2>1, <2>2, <2>3, <4>1, CommandDone DEF NextCall, At, Alone
        <5>2. /\ page_bitmap' = {} /\ allocated_pages' = 0
              /\ \A i \in Slots : allocations'[i] = Free
          BY <2>3, <5>1 DEF NextCall, heap
        <5>3. frame'[s].pc \in {"idle", "call"}
          BY <2>1, <2>3, <4>1, PollingFrame, FrameIs DEF NextCall
        <5>4. Steady(frame'[s], {}, allocations', 0)
          BY ONLY <5>2, <5>3, CleanSteady
        <5> QED BY <5>2, <5>4 DEF Then
      <4>2. CASE frame[s].calls # <<>>
        BY <2>1, <2>2, <2>3, <4>2, SteadyNextCall DEF Alone
      <4> QED BY <4>1, <4>2
    <3> QED BY <2>1, <2>2, <2>3, <3>1, PoolNextCall
  <2>4. CASE ~NextCall(s)
    <3>1. ~At(s, "call")
      BY <1>4, <2>4 DEF Step, FindPages, FindSlot, Mark, SetBit, Claim,
         LoadTotal, Count, Search,
         Unmark, ClearBit, LoadRest, Uncount, Clear, Return, SetField, At
    <3>2. Then(s)
      BY <1>4, <2>1, <2>2, <3>1, SteadyStep DEF Alone
    <3>3. CASE Search(s) \/ Claim(s) \/ Return(s)
      BY <2>1, <2>2, <3>2, <3>3, PoolSearch, PoolClaim, PoolReturn
    <3>4. CASE \/ FindPages(s) \/ FindSlot(s) \/ Mark(s) \/ SetBit(s) \/ LoadTotal(s)
               \/ Count(s)
      BY <2>1, <2>2, <3>2, <3>4, PoolMalloc
    <3>5. CASE Unmark(s) \/ ClearBit(s) \/ LoadRest(s) \/ Uncount(s) \/ Clear(s)
      BY <2>1, <2>2, <3>2, <3>5, PoolFree
    <3> QED BY <1>4, <2>4, <3>3, <3>4, <3>5 DEF Step
  <2> QED BY <2>3, <2>4
<1> QED BY <1>1, <1>2, <1>3, <1>4 DEF RaceNext

(* While commands do not overlap, the stores of kmalloc and kfree are      *)
(* those of a pool of disjoint blocks: one store puts a block in, whole    *)
(* and clear of the others, one step takes it out, and no other store      *)
(* changes what is out.                                                    *)
THEOREM RaceImplementsPool ==
  ASSUME Overlapping \subseteq {"memtest"} PROVE RaceSpec => RacePoolSpec
<1> RaceConstants
  BY HeapTableAssumption, HeapRaceAssumption DEF RaceConstants
<1>1. RaceInit => RacePool!Init
  BY DEF RaceInit, HeapClean, RacePool!Init, Blocks, Free
<1>2. RaceInv /\ RaceInv' /\ [RaceNext]_race_vars =>
        [overlaps > 0 \/ overlaps' > 0 \/ RacePool!Next]_Blocks
  <2> SUFFICES ASSUME RaceInv, RaceInv', [RaceNext]_race_vars
               PROVE  overlaps > 0 \/ overlaps' > 0 \/ RacePool!Next \/ UNCHANGED Blocks
    OBVIOUS
  <2>1. overlaps \in Nat /\ overlaps' \in Nat
    BY DEF RaceInv, RaceTypes
  <2>2. overlaps = 0 /\ overlaps' = 0 => RacePool!Next \/ UNCHANGED Blocks
    BY PoolStep
  <2> QED BY <2>1, <2>2
<1> QED BY <1>1, <1>2, RaceAlways, PTL DEF RaceSpec, RacePoolSpec
=============================================================================
