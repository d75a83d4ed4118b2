----------------------------- MODULE BlockPool -----------------------------
(***************************************************************************)
(* What a page allocator promises: a pool of blocks of whole pages, no two *)
(* of which share a page.  Where a block is placed is left open.           *)
(***************************************************************************)
EXTENDS Naturals

CONSTANT PoolPages      \* pages in the pool

VARIABLE blocks         \* set of [start, count]

PagesOf(b) == b.start..(b.start + b.count - 1)

Init == blocks = {}

Alloc(b) ==
  /\ b.count > 0
  /\ b.start + b.count <= PoolPages
  /\ \A c \in blocks : PagesOf(b) \cap PagesOf(c) = {}
  /\ blocks' = blocks \cup {b}

Free(b) == blocks' = blocks \ {b}

Next == \/ \E b \in [start : 0..PoolPages, count : 1..PoolPages] : Alloc(b)
        \/ \E b \in blocks : Free(b)

Spec == Init /\ [][Next]_blocks
=============================================================================
