------------------------------- MODULE Paging -------------------------------
(***************************************************************************)
(* Two-level paging (kernel/paging.c): a directory whose first slots hold  *)
(* the identity tables of paging_init and whose other slots are given a    *)
(* table from a fixed pool by the first map that needs one.  Each call is  *)
(* one step here; PageTests takes them apart.                              *)
(*                                                                         *)
(* A virtual address is its directory slot, table index and offset, as the *)
(* CPU splits it; a physical page is the slot and index it would have as a *)
(* virtual one, so that the identity table of slot s maps <<s, i>> to      *)
(* itself.  The CPU caches translations in the TLB at any time.            *)
(***************************************************************************)
EXTENDS Naturals, FiniteSets

CONSTANTS
  DIRECTORY_SLOTS,      \* slots the functions accept (16)
  INITIAL_PAGE_TABLES,  \* identity tables (4)
  MAX_DYNAMIC_TABLES,   \* tables in the pool (12)
  TABLE_ENTRIES,        \* entries of a table (1024)
  VirtualAddresses, PhysicalAddresses, FlagArgs,  \* arguments of the callers
  TLB_SIZE              \* translations the CPU caches at once

Frames == Nat \X (0..(TABLE_ENTRIES - 1))

ASSUME PagingAssumption ==
  /\ INITIAL_PAGE_TABLES \in Nat \ {0} /\ DIRECTORY_SLOTS \in Nat
  /\ MAX_DYNAMIC_TABLES \in Nat /\ TABLE_ENTRIES \in Nat \ {0}
  /\ INITIAL_PAGE_TABLES <= DIRECTORY_SLOTS
  /\ DIRECTORY_SLOTS - INITIAL_PAGE_TABLES <= MAX_DYNAMIC_TABLES
  /\ VirtualAddresses \subseteq [page : Frames, offset : Nat]
  /\ PhysicalAddresses \subseteq [frame : Frames, offset : Nat]
  /\ FlagArgs \subseteq SUBSET {"writable", "user", "high"}
  /\ TLB_SIZE \in Nat

Slots         == 0..(DIRECTORY_SLOTS - 1)
Indexes       == 0..(TABLE_ENTRIES - 1)
Pages         == Slots \X Indexes
PageTables    == 0..(INITIAL_PAGE_TABLES - 1)
DynamicTables == INITIAL_PAGE_TABLES..(INITIAL_PAGE_TABLES + MAX_DYNAMIC_TABLES - 1)
Tables        == PageTables \cup DynamicTables

(* "high" stands for the bits above the twelve flag bits of an entry.      *)
Rights  == {"writable", "user"}
NoEntry == [present |-> FALSE, frame |-> <<0, 0>>, flags |-> {}]
Entry(frame, flags) == [present |-> TRUE, frame |-> frame, flags |-> flags]

VARIABLES
  page_directory,       \* slot -> table and the slot's user bit
  tables,               \* page_tables and dynamic_tables
  dynamic_table_used,   \* the tables taken from the pool
  tlb,                  \* cached translations
  result                \* what the latest call returned

vars == <<page_directory, tables, dynamic_table_used, tlb, result>>

NoTable == [present |-> FALSE, table |-> 0, user |-> FALSE]

(* paging_init.                                                            *)
Init ==
  /\ page_directory = [s \in Slots |->
       IF s \in PageTables THEN [present |-> TRUE, table |-> s, user |-> FALSE] ELSE NoTable]
  /\ tables = [t \in Tables |-> [i \in Indexes |->
       IF t \in PageTables THEN Entry(<<t, i>>, {"writable"}) ELSE NoEntry]]
  /\ dynamic_table_used = {}
  /\ tlb = {}
  /\ result = TRUE

Slot(va)  == va.page[1]
Index(va) == va.page[2]

Accepted(va) == va.offset = 0 /\ Slot(va) \in Slots

(* What the CPU finds for page p: a user access needs the user bit of the  *)
(* directory slot too.                                                     *)
Walk(p) ==
  LET d == page_directory[p[1]]
      e == tables[d.table][p[2]]
  IN IF d.present /\ e.present
     THEN Entry(e.frame, IF d.user THEN e.flags ELSE e.flags \ {"user"})
     ELSE NoEntry

(* Mutant: an invlpg that does not reach the TLB.                          *)
invalidate_page_Lost(p) == tlb' = tlb

invalidate_page(p) == tlb' = {c \in tlb : c.page # p}

Masked(flags) == flags \cap Rights

(* Mutant: the directory slot is never promoted.                           *)
Promoted_Never(d, flags) == d

Promoted(d, flags) == [d EXCEPT !.user = @ \/ "user" \in flags]

-----------------------------------------------------------------------------
Taken(t) == dynamic_table_used \cup {t}

(* allocate_dynamic_table: the first table not used.                       *)
Allocatable(t) ==
  /\ t \in DynamicTables \ dynamic_table_used
  /\ \A u \in DynamicTables \ dynamic_table_used : t <= u

Refuse == result' = FALSE /\ UNCHANGED <<page_directory, tables, dynamic_table_used, tlb>>

MapInTable(va, pa, flags) ==
  LET s == Slot(va)
  IN /\ page_directory[s].present
     /\ page_directory' = [page_directory EXCEPT ![s] = Promoted(@, flags)]
     /\ tables' = [tables EXCEPT ![page_directory[s].table] =
                     [@ EXCEPT ![Index(va)] = Entry(pa.frame, Masked(flags))]]
     /\ UNCHANGED dynamic_table_used

MapInNewTable(va, pa, flags) ==
  LET s == Slot(va)
  IN /\ ~page_directory[s].present
     /\ \E t \in DynamicTables :
          /\ Allocatable(t)
          /\ dynamic_table_used' = Taken(t)
          /\ page_directory' = [page_directory EXCEPT ![s] =
               Promoted([present |-> TRUE, table |-> t, user |-> FALSE], flags)]
          /\ tables' = [tables EXCEPT ![t] =
               [[i \in Indexes |-> NoEntry] EXCEPT ![Index(va)] = Entry(pa.frame, Masked(flags))]]

Served(va, pa) ==
  /\ Accepted(va) /\ pa.offset = 0
  /\ page_directory[Slot(va)].present \/ DynamicTables \ dynamic_table_used # {}

map_page_flags(va, pa, flags) ==
  \/ ~Served(va, pa) /\ Refuse
  \/ /\ Served(va, pa)
     /\ MapInTable(va, pa, flags) \/ MapInNewTable(va, pa, flags)
     /\ invalidate_page(va.page)
     /\ result' = TRUE

(* Mutant: unmapping a page drops the table from its directory slot and    *)
(* leaves the table used.                                                  *)
unmap_page_DropsTable(va) ==
  \/ /\ ~(Accepted(va) /\ page_directory[Slot(va)].present)
     /\ Refuse
  \/ /\ Accepted(va) /\ page_directory[Slot(va)].present
     /\ page_directory' = [page_directory EXCEPT ![Slot(va)] = NoTable]
     /\ invalidate_page(va.page)
     /\ result' = TRUE
     /\ UNCHANGED <<tables, dynamic_table_used>>

(* The table stays, empty or not.                                          *)
unmap_page(va) ==
  \/ /\ ~(Accepted(va) /\ page_directory[Slot(va)].present)
     /\ Refuse
  \/ /\ Accepted(va) /\ page_directory[Slot(va)].present
     /\ tables' = [tables EXCEPT ![page_directory[Slot(va)].table] =
                     [@ EXCEPT ![Index(va)] = NoEntry]]
     /\ invalidate_page(va.page)
     /\ result' = TRUE
     /\ UNCHANGED <<page_directory, dynamic_table_used>>

set_page_flags(va, flags) ==
  \/ /\ ~(Accepted(va) /\ Walk(va.page).present)
     /\ Refuse
  \/ /\ Accepted(va) /\ Walk(va.page).present
     /\ page_directory' = [page_directory EXCEPT ![Slot(va)] = Promoted(@, flags)]
     /\ tables' = [tables EXCEPT ![page_directory[Slot(va)].table] =
          [@ EXCEPT ![Index(va)] = Entry(Walk(va.page).frame, Masked(flags))]]
     /\ invalidate_page(va.page)
     /\ result' = TRUE
     /\ UNCHANGED dynamic_table_used

-----------------------------------------------------------------------------
(* The CPU caches the translation of a page it touches, and drops it again.*)
TlbFill(p) ==
  /\ Walk(p).present
  /\ Cardinality(tlb) < TLB_SIZE
  /\ tlb' = tlb \cup {[page |-> p, entry |-> Walk(p)]}
  /\ UNCHANGED <<page_directory, tables, dynamic_table_used, result>>

TlbEvict(c) ==
  /\ tlb' = tlb \ {c}
  /\ UNCHANGED <<page_directory, tables, dynamic_table_used, result>>

Request ==
  \/ \E va \in VirtualAddresses, pa \in PhysicalAddresses, flags \in FlagArgs :
       map_page_flags(va, pa, flags)
  \/ \E va \in VirtualAddresses : unmap_page(va)
  \/ \E va \in VirtualAddresses, flags \in FlagArgs : set_page_flags(va, flags)

Next == Request \/ (\E p \in Pages : TlbFill(p)) \/ (\E c \in tlb : TlbEvict(c))

Spec == Init /\ [][Next]_vars

-----------------------------------------------------------------------------
(* Types of paging.c's state; a flag argument never reaches the frame bits.*)
TypeOK ==
  /\ page_directory \in [Slots -> [present : BOOLEAN, table : Tables, user : BOOLEAN]]
  /\ tables \in [Tables -> [Indexes -> [present : BOOLEAN, frame : Frames, flags : SUBSET Rights]]]
  /\ dynamic_table_used \in SUBSET DynamicTables
  /\ tlb \in SUBSET [page : Pages, entry : [present : BOOLEAN, frame : Frames,
                                            flags : SUBSET Rights]]
  /\ result \in BOOLEAN

(* Two directory slots never share a table, the identity slots keep theirs *)
(* and the pool's tables are used exactly by the slots that hold them, so  *)
(* a change of one page reaches no other page and no table is lost.        *)
TablesOwned ==
  /\ \A s \in PageTables : page_directory[s].present /\ page_directory[s].table = s
  /\ \A s \in Slots \ PageTables :
       page_directory[s].present => page_directory[s].table \in dynamic_table_used
  /\ \A r, s \in Slots :
       /\ page_directory[r].present /\ page_directory[s].present
       /\ page_directory[r].table = page_directory[s].table
       => r = s
  /\ \A t \in dynamic_table_used :
       \E s \in Slots : page_directory[s].present /\ page_directory[s].table = t

(* The pool never runs dry, though nothing is ever given back: while some  *)
(* slot has no table there is one for it.                                  *)
PoolSuffices ==
  (\E s \in Slots : ~page_directory[s].present) => DynamicTables \ dynamic_table_used # {}

(* A page whose entry is open to user programs is so in the directory too: *)
(* promoting a slot makes no other cached translation of it wrong.         *)
UserBitsAgree ==
  \A s \in Slots, i \in Indexes :
    page_directory[s].present /\ "user" \in tables[page_directory[s].table][i].flags
      => page_directory[s].user

(* The TLB holds no translation the tables do not: each change invalidates *)
(* the one page it needs to.                                               *)
TlbCoherent == \A c \in tlb : c.entry = Walk(c.page)

(* What one call leaves to the next.  Every conjunct needs others: one     *)
(* invlpg is enough only if no other page's translation changes with the   *)
(* table (TablesOwned) or the slot (UserBitsAgree).                        *)
PagingInv == TypeOK /\ TablesOwned /\ UserBitsAgree /\ TlbCoherent

Identity == [p \in Pages |-> IF p[1] \in PageTables THEN Entry(p, {"writable"}) ELSE NoEntry]

Space == INSTANCE AddressSpace
           WITH Frames <- {pa.frame : pa \in PhysicalAddresses},
                Rights <- {Masked(flags) : flags \in FlagArgs}, Initial <- Identity,
                mapping <- [p \in Pages |-> Walk(p)]

(* Every sequence of calls is one on an abstract address space: a map      *)
(* takes effect at once with the rights asked for, and no call disturbs    *)
(* another page.                                                           *)
AddressSpaceSpec == Space!Spec
=============================================================================
