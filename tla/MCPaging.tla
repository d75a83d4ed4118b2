------------------------------ MODULE MCPaging ------------------------------
(***************************************************************************)
(* One identity slot and two dynamic ones, two entries a table: pages that *)
(* share a slot, a page of each other slot, one past the last slot, and    *)
(* an address that is not aligned.                                         *)
(***************************************************************************)
EXTENDS Paging

Aligned(page) == [page |-> page, offset |-> 0]

MCVirtual  == {Aligned(<<0, 1>>), Aligned(<<1, 0>>), Aligned(<<1, 1>>),
               Aligned(<<2, 0>>), Aligned(<<3, 0>>), [page |-> <<2, 0>>, offset |-> 1]}
MCPhysical == {[frame |-> <<5, 1>>, offset |-> 0], [frame |-> <<5, 1>>, offset |-> 1]}
MCFlags    == {{"writable"}, {"user", "high"}}
=============================================================================
