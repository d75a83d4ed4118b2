------------------------------- MODULE MCHeap -------------------------------
(***************************************************************************)
(* Six pages of four bytes, four table entries, a word of 32: the requests *)
(* range over no page, one to six pages, more pages than there are, and    *)
(* the sizes whose rounding wraps around the word; the frees over every    *)
(* byte of the heap and one on each side of it.                            *)
(***************************************************************************)
EXTENDS Heap

AllSizes   == 0..(WORD - 1)
AllOffsets == -1..(TOTAL_PAGES * PAGE_SIZE)
=============================================================================
