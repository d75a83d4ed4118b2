---------------------------- MODULE PagingProofs ----------------------------
(***************************************************************************)
(* Theorems about Paging, for every number of directory slots, identity    *)
(* and dynamic tables, every table size and TLB size, and every sequence   *)
(* of calls; none of them uses what PageTests assumes of the sizes.        *)
(*                                                                         *)
(* Then theorems about PageTests, for every size of the tables and of the  *)
(* TLB and of the pool, and every interleaving of the boot, of two         *)
(* contexts that execute the tests and of the CPU that caches              *)
(* translations: what the boot has mapped stays mapped, no translation     *)
(* outlives its change, one table at most is lost, and an undisturbed test *)
(* tells the truth.                                                        *)
(***************************************************************************)
EXTENDS PageTests, FiniteSetTheorems, TLAPS

Entries == [present : BOOLEAN, frame : Frames, flags : SUBSET Rights]

LEMMA Domains ==
  /\ DIRECTORY_SLOTS \in Nat /\ INITIAL_PAGE_TABLES \in Nat \ {0} /\ MAX_DYNAMIC_TABLES \in Nat
  /\ TABLE_ENTRIES \in Nat \ {0}
  /\ PageTables \subseteq Slots /\ Tables = PageTables \cup DynamicTables
  /\ PageTables \cap DynamicTables = {} /\ 0 \in PageTables
BY PagingAssumption DEF PageTables, Slots, Tables, DynamicTables

LEMMA EntryTypes ==
  /\ NoEntry \in Entries
  /\ \A f \in Frames, r \in SUBSET Rights : Entry(f, r) \in Entries
<1>1. <<0, 0>> \in Frames
  BY PagingAssumption DEF Frames
<1> QED BY <1>1 DEF Entries, Entry, NoEntry

(* What a call stores: an entry in use or none.                            *)
Stored == {NoEntry} \cup {Entry(f, r) : f \in Frames, r \in SUBSET Rights}

(* A translation depends on the slot, the table it names and the entry.    *)
LEMMA SameWalk ==
  ASSUME NEW p,
         page_directory'[p[1]].present = page_directory[p[1]].present,
         page_directory[p[1]].present =>
           LET e == tables[page_directory[p[1]].table][p[2]]
           IN /\ tables'[page_directory'[p[1]].table][p[2]] = e
              /\ \/ page_directory'[p[1]].user = page_directory[p[1]].user
                 \/ "user" \notin e.flags
  PROVE  Walk(p)' = Walk(p)
<1> DEFINE d == page_directory[p[1]]
           f == page_directory'[p[1]]
           e == tables[d.table][p[2]]
           g == tables'[f.table][p[2]]
<1>1. Walk(p) = IF d.present /\ e.present
                THEN Entry(e.frame, IF d.user THEN e.flags ELSE e.flags \ {"user"}) ELSE NoEntry
  BY DEF Walk
<1>2. Walk(p)' = IF f.present /\ g.present
                 THEN Entry(g.frame, IF f.user THEN g.flags ELSE g.flags \ {"user"}) ELSE NoEntry
  BY DEF Walk
<1>3. d.present => g = e /\ (f.user = d.user \/ "user" \notin e.flags)
  OBVIOUS
<1>4. "user" \notin e.flags => e.flags \ {"user"} = e.flags
  OBVIOUS
<1>5. f.present = d.present
  OBVIOUS
<1> HIDE DEF d, e, f, g
<1> QED BY <1>1, <1>2, <1>3, <1>4, <1>5

LEMMA WalkType ==
  ASSUME TypeOK, NEW p \in Pages
  PROVE  Walk(p) \in Entries
<1>1. page_directory[p[1]] \in [present : BOOLEAN, table : Tables, user : BOOLEAN]
  BY DEF TypeOK, Pages
<1>2. tables[page_directory[p[1]].table][p[2]] \in Entries
  BY <1>1 DEF TypeOK, Pages, Entries
<1> QED BY <1>1, <1>2, EntryTypes DEF Walk, Entries, Entry

(* The CPU finds a stored entry when the slot is as open as the entry.     *)
LEMMA StoredWalk ==
  ASSUME NEW s \in Slots, NEW i \in Indexes, NEW e \in Stored,
         page_directory'[s].present, "user" \in e.flags => page_directory'[s].user,
         tables'[page_directory'[s].table][i] = e
  PROVE  Walk(<<s, i>>)' = e
<1>1. CASE e = NoEntry
  BY <1>1 DEF Walk, NoEntry
<1>2. ASSUME NEW f \in Frames, NEW r \in SUBSET Rights, e = Entry(f, r)
      PROVE  Walk(<<s, i>>)' = e
  <2>1. e.present /\ e.frame = f /\ e.flags = r
    BY <1>2 DEF Entry
  <2>2. (IF page_directory'[s].user THEN e.flags ELSE e.flags \ {"user"}) = r
    BY <2>1
  <2>3. Walk(<<s, i>>)' = Entry(f, r)
    BY <2>1, <2>2 DEF Walk
  <2> QED BY <2>3, <1>2
<1> QED BY <1>1, <1>2 DEF Stored

-----------------------------------------------------------------------------
LEMMA PagingInit == Init => PagingInv
<1> SUFFICES ASSUME Init PROVE PagingInv
  OBVIOUS
<1>1. \A s \in Slots : page_directory[s] = IF s \in PageTables
        THEN [present |-> TRUE, table |-> s, user |-> FALSE] ELSE NoTable
  BY DEF Init
<1>2. \A t \in Tables, i \in Indexes :
        tables[t][i] = IF t \in PageTables THEN Entry(<<t, i>>, {"writable"}) ELSE NoEntry
  BY DEF Init
<1>3. TypeOK
  <2>1. NoTable \in [present : BOOLEAN, table : Tables, user : BOOLEAN]
    BY Domains DEF NoTable
  <2>2. page_directory \in [Slots -> [present : BOOLEAN, table : Tables, user : BOOLEAN]]
    BY <2>1, Domains DEF Init
  <2>3. \A t \in Tables, i \in Indexes :
          (IF t \in PageTables THEN Entry(<<t, i>>, {"writable"}) ELSE NoEntry) \in Entries
    <3> SUFFICES ASSUME NEW t \in PageTables, NEW i \in Indexes
                 PROVE  Entry(<<t, i>>, {"writable"}) \in Entries
      BY EntryTypes
    <3>1. <<t, i>> \in Frames
      BY PagingAssumption DEF PageTables, Indexes, Frames
    <3> QED BY <3>1, EntryTypes DEF Rights
  <2>4. tables \in [Tables -> [Indexes -> Entries]]
    BY <2>3 DEF Init
  <2> QED BY <2>2, <2>4 DEF Init, TypeOK, Entries
<1>4. TablesOwned
  BY <1>1, Domains DEF TablesOwned, Init, NoTable
<1>5. UserBitsAgree
  <2> SUFFICES ASSUME NEW s \in Slots, NEW i \in Indexes, page_directory[s].present
               PROVE  "user" \notin tables[page_directory[s].table][i].flags
    BY DEF UserBitsAgree
  <2>1. s \in PageTables /\ page_directory[s].table = s
    <3>1. CASE s \notin PageTables
      <4>1. page_directory[s] = NoTable
        BY <3>1, <1>1
      <4>2. ~page_directory[s].present
        BY <4>1 DEF NoTable
      <4> QED BY <4>2
    <3>2. CASE s \in PageTables
      <4>1. page_directory[s] = [present |-> TRUE, table |-> s, user |-> FALSE]
        BY <3>2, <1>1
      <4> QED BY <4>1, <3>2
    <3> QED BY <3>1, <3>2
  <2>2. tables[s][i].flags = {"writable"}
    <3>1. tables[s][i] = Entry(<<s, i>>, {"writable"})
      BY <2>1, <1>2, Domains
    <3> QED BY <3>1 DEF Entry
  <2> QED BY <2>1, <2>2
<1> QED BY <1>3, <1>4, <1>5 DEF PagingInv, TlbCoherent, Init

(* A call that stores one entry of a table a slot already has, and raises  *)
(* the slot's user bit when the entry is open to user programs.            *)
LEMMA WriteEntry ==
  ASSUME PagingInv, NEW s \in Slots, NEW i \in Indexes, NEW e \in Stored, NEW flags,
         page_directory[s].present, "user" \in e.flags => "user" \in flags,
         page_directory' = [page_directory EXCEPT ![s] = Promoted(@, flags)],
         tables' = [tables EXCEPT ![page_directory[s].table] = [@ EXCEPT ![i] = e]],
         invalidate_page(<<s, i>>),
         dynamic_table_used' = dynamic_table_used, result' \in BOOLEAN
  PROVE  PagingInv' /\ \A p \in Pages : Walk(p)' = IF p = <<s, i>> THEN e ELSE Walk(p)
<1> DEFINE t == page_directory[s].table
<1>0. e \in Entries
  BY EntryTypes DEF Stored
<1>1. /\ page_directory \in [Slots -> [present : BOOLEAN, table : Tables, user : BOOLEAN]]
      /\ tables \in [Tables -> [Indexes -> Entries]]
      /\ t \in Tables
  BY DEF PagingInv, TypeOK, Entries
<1>2. /\ \A r \in Slots : /\ page_directory'[r].present = page_directory[r].present
                          /\ page_directory'[r].table = page_directory[r].table
                          /\ page_directory[r].user => page_directory'[r].user
                          /\ r # s => page_directory'[r].user = page_directory[r].user
      /\ "user" \in e.flags => page_directory'[s].user
  BY <1>1 DEF Promoted
<1>3. /\ tables'[t][i] = e
      /\ \A u \in Tables, j \in Indexes : u # t \/ j # i => tables'[u][j] = tables[u][j]
  BY <1>1
<1>4. tlb' = {c \in tlb : c.page # <<s, i>>}
  BY DEF invalidate_page
<1>5. TypeOK'
  <2>1. Promoted(page_directory[s], flags) \in [present : BOOLEAN, table : Tables, user : BOOLEAN]
    BY <1>1 DEF Promoted
  <2>2. page_directory' \in [Slots -> [present : BOOLEAN, table : Tables, user : BOOLEAN]]
    BY <1>1, <2>1
  <2>3. [tables[t] EXCEPT ![i] = e] \in [Indexes -> Entries]
    BY <1>0, <1>1
  <2>4. tables' \in [Tables -> [Indexes -> Entries]]
    BY <1>1, <2>3
  <2> QED BY <1>4, <2>2, <2>4 DEF PagingInv, TypeOK, Entries
<1>6. TablesOwned'
  BY <1>2, Domains DEF PagingInv, TablesOwned
<1>7. \A r \in Slots : r # s /\ page_directory[r].present => page_directory[r].table # t
  BY DEF PagingInv, TablesOwned
<1>8. UserBitsAgree'
  <2> SUFFICES ASSUME NEW r \in Slots, NEW j \in Indexes, page_directory'[r].present,
                      "user" \in tables'[page_directory'[r].table][j].flags
               PROVE  page_directory'[r].user
    BY DEF UserBitsAgree
  <2>1. page_directory[r].table \in Tables
    BY <1>1
  <2>2. CASE r = s /\ j = i
    BY <2>2, <1>2, <1>3
  <2>3. CASE ~(r = s /\ j = i)
    <3>1. tables'[page_directory[r].table][j] = tables[page_directory[r].table][j]
      BY <2>1, <2>3, <1>2, <1>3, <1>7
    <3> QED BY <3>1, <1>2 DEF PagingInv, UserBitsAgree
  <2> QED BY <2>2, <2>3
<1>9. ASSUME NEW p \in Pages, p # <<s, i>>
      PROVE  Walk(p)' = Walk(p)
  <2> DEFINE r == p[1]
             j == p[2]
  <2>2. r \in Slots /\ j \in Indexes /\ ~(r = s /\ j = i)
    BY <1>9 DEF Pages
  <2> HIDE DEF r, j
  <2>3. CASE page_directory[r].present
    <3>1. page_directory[r].table \in Tables
      BY <1>1, <2>2
    <3>2. tables'[page_directory'[r].table][j] = tables[page_directory[r].table][j]
      BY <3>1, <2>2, <2>3, <1>2, <1>3, <1>7
    <3>3. \/ page_directory'[r].user = page_directory[r].user
          \/ "user" \notin tables[page_directory[r].table][j].flags
      BY <2>2, <2>3, <1>1, <1>2 DEF PagingInv, UserBitsAgree
    <3>4. page_directory'[r].present = page_directory[r].present
      BY <2>2, <1>2
    <3> QED BY <3>2, <3>3, <3>4, SameWalk DEF r, j
  <2>4. CASE ~page_directory[r].present
    BY <2>2, <2>4, <1>2 DEF Walk, r, j
  <2> QED BY <2>3, <2>4
<1>10. Walk(<<s, i>>)' = e
  <2>1. page_directory'[s].present /\ tables'[page_directory'[s].table][i] = e
    BY <1>2, <1>3
  <2> QED BY <2>1, <1>2, StoredWalk
<1>11. TlbCoherent'
  BY <1>4, <1>9 DEF PagingInv, TypeOK, TlbCoherent
<1> QED BY <1>5, <1>6, <1>8, <1>9, <1>10, <1>11 DEF PagingInv

(* A call that gives a slot its first table, with one entry stored in it.  *)
LEMMA NewTable ==
  ASSUME PagingInv, NEW s \in Slots, NEW i \in Indexes, NEW e \in Stored, NEW flags,
         NEW t \in DynamicTables, t \notin dynamic_table_used,
         ~page_directory[s].present, "user" \in e.flags => "user" \in flags,
         page_directory' = [page_directory EXCEPT ![s] =
           Promoted([present |-> TRUE, table |-> t, user |-> FALSE], flags)],
         tables' = [tables EXCEPT ![t] = [[j \in Indexes |-> NoEntry] EXCEPT ![i] = e]],
         invalidate_page(<<s, i>>),
         dynamic_table_used' = Taken(t), result' \in BOOLEAN
  PROVE  PagingInv' /\ \A p \in Pages : Walk(p)' = IF p = <<s, i>> THEN e ELSE Walk(p)
<1>0. e \in Entries
  BY EntryTypes DEF Stored
<1>1. /\ page_directory \in [Slots -> [present : BOOLEAN, table : Tables, user : BOOLEAN]]
      /\ tables \in [Tables -> [Indexes -> Entries]]
      /\ t \in Tables
  BY Domains DEF PagingInv, TypeOK, Entries
<1>2. /\ page_directory'[s].present /\ page_directory'[s].table = t
      /\ "user" \in flags => page_directory'[s].user
      /\ \A r \in Slots \ {s} : page_directory'[r] = page_directory[r]
  BY <1>1 DEF Promoted
<1>3. /\ \A j \in Indexes : tables'[t][j] = IF j = i THEN e ELSE NoEntry
      /\ \A u \in Tables \ {t} : tables'[u] = tables[u]
  BY <1>1
<1>4. tlb' = {c \in tlb : c.page # <<s, i>>}
  BY DEF invalidate_page
<1>5. dynamic_table_used' = dynamic_table_used \cup {t}
  BY DEF Taken
<1>6. s \notin PageTables
  BY DEF PagingInv, TablesOwned
<1>7. \A r \in Slots : page_directory[r].present => page_directory[r].table \in Tables \ {t}
  <2> SUFFICES ASSUME NEW r \in Slots, page_directory[r].present
               PROVE  page_directory[r].table \in Tables \ {t}
    OBVIOUS
  <2>1. CASE r \in PageTables
    BY <2>1, Domains DEF PagingInv, TablesOwned
  <2>2. CASE r \notin PageTables
    BY <2>2, <1>1 DEF PagingInv, TablesOwned
  <2> QED BY <2>1, <2>2
<1>8. TypeOK'
  <2>1. page_directory' \in [Slots -> [present : BOOLEAN, table : Tables, user : BOOLEAN]]
    <3>1. Promoted([present |-> TRUE, table |-> t, user |-> FALSE], flags)
            \in [present : BOOLEAN, table : Tables, user : BOOLEAN]
      BY <1>1 DEF Promoted
    <3> QED BY <1>1, <3>1
  <2>2. [[j \in Indexes |-> NoEntry] EXCEPT ![i] = e] \in [Indexes -> Entries]
    BY <1>0, EntryTypes
  <2>3. tables' \in [Tables -> [Indexes -> Entries]]
    BY <1>1, <2>2
  <2> QED BY <1>4, <1>5, <2>1, <2>3 DEF PagingInv, TypeOK, Entries
<1>9. TablesOwned'
  <2>1. \A r \in PageTables : page_directory'[r].present /\ page_directory'[r].table = r
    BY <1>2, <1>6, Domains DEF PagingInv, TablesOwned
  <2>2. \A r \in Slots \ PageTables :
          page_directory'[r].present => page_directory'[r].table \in dynamic_table_used'
    BY <1>2, <1>5 DEF PagingInv, TablesOwned
  <2>3. \A q, r \in Slots :
          /\ page_directory'[q].present /\ page_directory'[r].present
          /\ page_directory'[q].table = page_directory'[r].table
          => q = r
    BY <1>2, <1>7 DEF PagingInv, TablesOwned
  <2>4. \A u \in dynamic_table_used' :
          \E r \in Slots : page_directory'[r].present /\ page_directory'[r].table = u
    BY <1>2, <1>5 DEF PagingInv, TablesOwned
  <2> QED BY <2>1, <2>2, <2>3, <2>4 DEF TablesOwned
<1>10. UserBitsAgree'
  <2> SUFFICES ASSUME NEW r \in Slots, NEW j \in Indexes, page_directory'[r].present,
                      "user" \in tables'[page_directory'[r].table][j].flags
               PROVE  page_directory'[r].user
    BY DEF UserBitsAgree
  <2>1. CASE r = s
    <3>1. NoEntry.flags = {}
      BY DEF NoEntry
    <3> QED BY <2>1, <3>1, <1>2, <1>3
  <2>2. CASE r # s
    BY <2>2, <1>2, <1>3, <1>7 DEF PagingInv, UserBitsAgree
  <2> QED BY <2>1, <2>2
<1>11. ASSUME NEW p \in Pages, p # <<s, i>>
       PROVE  Walk(p)' = Walk(p)
  <2> DEFINE r == p[1]
             j == p[2]
  <2>2. r \in Slots /\ j \in Indexes /\ ~(r = s /\ j = i)
    BY <1>11 DEF Pages
  <2> HIDE DEF r, j
  <2>3. CASE r = s
    <3>1. ~NoEntry.present
      BY DEF NoEntry
    <3>2. ~tables'[page_directory'[r].table][j].present
      BY <2>2, <2>3, <3>1, <1>2, <1>3
    <3> QED BY <2>3, <3>2 DEF Walk, r, j
  <2>4. CASE r # s
    <3>1. page_directory'[r] = page_directory[r]
      BY <2>2, <2>4, <1>2
    <3>2. page_directory[r].present =>
            tables'[page_directory'[r].table][j] = tables[page_directory[r].table][j]
      BY <3>1, <2>2, <1>3, <1>7
    <3> QED BY <3>1, <3>2, SameWalk DEF r, j
  <2> QED BY <2>3, <2>4
<1>12. Walk(<<s, i>>)' = e
  <2>1. page_directory'[s].present /\ tables'[page_directory'[s].table][i] = e
    BY <1>2, <1>3
  <2> QED BY <2>1, <1>2, StoredWalk
<1>13. TlbCoherent'
  BY <1>4, <1>11 DEF PagingInv, TypeOK, TlbCoherent
<1> QED BY <1>8, <1>9, <1>10, <1>11, <1>12, <1>13 DEF PagingInv


-----------------------------------------------------------------------------
LEMMA AddressTypes ==
  /\ \A va \in VirtualAddresses : Accepted(va) =>
       /\ Slot(va) \in Slots /\ Index(va) \in Indexes
       /\ va.page = <<Slot(va), Index(va)>> /\ va.page \in Pages
  /\ \A pa \in PhysicalAddresses : pa.frame \in Frames
  /\ \A flags \in FlagArgs : Masked(flags) \in SUBSET Rights
<1>1. \A va \in VirtualAddresses : va.page \in Frames
  BY PagingAssumption
<1>2. \A pa \in PhysicalAddresses : pa.frame \in Frames
  BY PagingAssumption
<1> QED BY <1>1, <1>2 DEF Frames, Accepted, Slot, Index, Indexes, Pages, Masked, Rights

(* What a map, an unmap and a change of flags that succeed do to all pages.*)
LEMMA MapStep ==
  ASSUME PagingInv, NEW va \in VirtualAddresses, NEW pa \in PhysicalAddresses, NEW flags \in FlagArgs,
         Served(va, pa), map_page_flags(va, pa, flags)
  PROVE  /\ PagingInv' /\ result'
         /\ va.page \in Pages
         /\ \A p \in Pages :
              Walk(p)' = IF p = va.page THEN Entry(pa.frame, Masked(flags)) ELSE Walk(p)
<1> DEFINE s == Slot(va)
           i == Index(va)
           e == Entry(pa.frame, Masked(flags))
<1>0. s \in Slots /\ i \in Indexes /\ va.page = <<s, i>> /\ va.page \in Pages
  BY AddressTypes DEF Served
<1>1. /\ s \in Slots /\ i \in Indexes /\ va.page = <<s, i>> /\ va.page \in Pages
      /\ e \in Stored /\ e.flags = Masked(flags)
  <2>1. pa.frame \in Frames /\ Masked(flags) \in SUBSET Rights
    BY AddressTypes
  <2>2. e \in Stored
    BY <2>1 DEF Stored
  <2>3. e.flags = Masked(flags)
    BY DEF Entry
  <2> QED BY <1>0, <2>2, <2>3
<1>2. "user" \in e.flags => "user" \in flags
  BY <1>1 DEF Masked
<1>3. invalidate_page(<<s, i>>) /\ result' \in BOOLEAN /\ result'
  BY <1>1 DEF map_page_flags
<1>4. CASE MapInTable(va, pa, flags)
  <2>1. /\ page_directory[s].present
        /\ page_directory' = [page_directory EXCEPT ![s] = Promoted(@, flags)]
        /\ tables' = [tables EXCEPT ![page_directory[s].table] = [@ EXCEPT ![i] = e]]
        /\ dynamic_table_used' = dynamic_table_used
    BY <1>4 DEF MapInTable
  <2>9. e = Entry(pa.frame, Masked(flags))
    OBVIOUS
  <2> HIDE DEF s, i, e
  <2>10. PagingInv' /\ \A p \in Pages : Walk(p)' = IF p = <<s, i>> THEN e ELSE Walk(p)
    BY <1>1, <1>2, <1>3, <2>1, WriteEntry
  <2> QED BY <1>1, <1>3, <2>9, <2>10
<1>5. CASE MapInNewTable(va, pa, flags)
  <2>1. PICK t \in DynamicTables :
          /\ t \notin dynamic_table_used
          /\ dynamic_table_used' = Taken(t)
          /\ page_directory' = [page_directory EXCEPT ![s] =
               Promoted([present |-> TRUE, table |-> t, user |-> FALSE], flags)]
          /\ tables' = [tables EXCEPT ![t] = [[j \in Indexes |-> NoEntry] EXCEPT ![i] = e]]
    BY <1>5 DEF MapInNewTable, Allocatable
  <2>2. ~page_directory[s].present
    BY <1>5 DEF MapInNewTable
  <2>9. e = Entry(pa.frame, Masked(flags))
    OBVIOUS
  <2> HIDE DEF s, i, e
  <2>10. PagingInv' /\ \A p \in Pages : Walk(p)' = IF p = <<s, i>> THEN e ELSE Walk(p)
    BY <1>1, <1>2, <1>3, <2>1, <2>2, NewTable
  <2> QED BY <1>1, <1>3, <2>9, <2>10
<1> QED BY <1>4, <1>5 DEF map_page_flags

LEMMA UnmapStep ==
  ASSUME PagingInv, NEW va \in VirtualAddresses, unmap_page(va),
         Accepted(va), page_directory[Slot(va)].present
  PROVE  /\ PagingInv' /\ result'
         /\ va.page \in Pages
         /\ \A p \in Pages : Walk(p)' = IF p = va.page THEN NoEntry ELSE Walk(p)
<1> DEFINE s == Slot(va)
           i == Index(va)
<1>1. s \in Slots /\ i \in Indexes /\ va.page = <<s, i>> /\ va.page \in Pages
  BY AddressTypes
<1>2. NoEntry \in Stored /\ NoEntry.flags = {}
  BY DEF Stored, NoEntry
<1>3. /\ tables' = [tables EXCEPT ![page_directory[s].table] = [@ EXCEPT ![i] = NoEntry]]
      /\ invalidate_page(<<s, i>>) /\ result' \in BOOLEAN /\ result'
      /\ page_directory' = page_directory /\ dynamic_table_used' = dynamic_table_used
  BY <1>1 DEF unmap_page
<1>4. page_directory' = [page_directory EXCEPT ![s] = Promoted(@, {})]
  <2>1. page_directory[s] \in [present : BOOLEAN, table : Tables, user : BOOLEAN]
    BY <1>1 DEF PagingInv, TypeOK
  <2>2. Promoted(page_directory[s], {}) = page_directory[s]
    BY <2>1 DEF Promoted
  <2>3. page_directory = [page_directory EXCEPT ![s] = page_directory[s]]
    BY <1>1 DEF PagingInv, TypeOK
  <2> QED BY <1>3, <2>2, <2>3
<1>5. page_directory[s].present
  OBVIOUS
<1> HIDE DEF s, i
<1> QED BY <1>1, <1>2, <1>3, <1>4, <1>5, WriteEntry

LEMMA FlagsStep ==
  ASSUME PagingInv, NEW va \in VirtualAddresses, NEW flags \in FlagArgs, set_page_flags(va, flags),
         Accepted(va), Walk(va.page).present
  PROVE  /\ PagingInv' /\ result'
         /\ va.page \in Pages
         /\ \A p \in Pages :
              Walk(p)' = IF p = va.page THEN Entry(Walk(va.page).frame, Masked(flags)) ELSE Walk(p)
<1> DEFINE s == Slot(va)
           i == Index(va)
           t == page_directory[s].table
           e == Entry(tables[t][i].frame, Masked(flags))
<1>1. s \in Slots /\ i \in Indexes /\ va.page = <<s, i>> /\ va.page \in Pages
  BY AddressTypes
<1>2. page_directory[s].present /\ Walk(va.page).frame = tables[t][i].frame
  BY <1>1 DEF Walk, NoEntry, Entry
<1>3. t \in Tables /\ tables[t] \in [Indexes -> Entries]
  BY <1>1 DEF PagingInv, TypeOK, Entries
<1>4. e \in Stored /\ e.flags = Masked(flags)
  <2>1. tables[t][i].frame \in Frames /\ Masked(flags) \in SUBSET Rights
    BY <1>1, <1>3, AddressTypes DEF Entries
  <2>2. e \in Stored
    BY <2>1 DEF Stored
  <2>3. e.flags = Masked(flags)
    BY DEF Entry
  <2> QED BY <2>2, <2>3
<1>5. "user" \in e.flags => "user" \in flags
  BY <1>4 DEF Masked
<1>6. /\ page_directory' = [page_directory EXCEPT ![s] = Promoted(@, flags)]
      /\ tables' = [tables EXCEPT ![t] = [@ EXCEPT ![i] = Entry(Walk(va.page).frame, Masked(flags))]]
      /\ invalidate_page(<<s, i>>) /\ result' \in BOOLEAN /\ result'
      /\ dynamic_table_used' = dynamic_table_used
  BY <1>1 DEF set_page_flags
<1>7. tables' = [tables EXCEPT ![t] = [@ EXCEPT ![i] = e]]
  BY <1>2, <1>6
<1> DEFINE walked == Walk(va.page)
<1>8. e = Entry(walked.frame, Masked(flags))
  BY <1>2
<1> HIDE DEF s, i, e, walked
<1>9. PagingInv' /\ \A p \in Pages : Walk(p)' = IF p = <<s, i>> THEN e ELSE Walk(p)
  BY <1>1, <1>2, <1>4, <1>5, <1>6, <1>7, WriteEntry DEF t
<1> QED BY <1>1, <1>6, <1>8, <1>9 DEF walked

-----------------------------------------------------------------------------
(* What a step does to the pages, as the abstract address space sees it.   *)
Steps ==
  \/ \E p \in Pages, pa \in PhysicalAddresses, flags \in FlagArgs :
       /\ \A q \in Pages : Walk(q)' = IF q = p THEN Entry(pa.frame, Masked(flags)) ELSE Walk(q)
       /\ result' = TRUE
  \/ \E p \in Pages, flags \in FlagArgs :
       /\ Walk(p).present
       /\ \A q \in Pages :
            Walk(q)' = IF q = p THEN Entry(Walk(p).frame, Masked(flags)) ELSE Walk(q)
       /\ result' = TRUE
  \/ \E p \in Pages :
       /\ \A q \in Pages : Walk(q)' = IF q = p THEN NoEntry ELSE Walk(q)
       /\ result' = TRUE
  \/ (\A q \in Pages : Walk(q)' = Walk(q)) /\ result' \in {FALSE, result}

LEMMA PagingStep == ASSUME PagingInv, [Next]_vars PROVE PagingInv' /\ Steps
<1>1. ASSUME UNCHANGED <<page_directory, tables, dynamic_table_used>>, result' \in {FALSE, result},
             tlb' \subseteq tlb \cup {[page |-> p, entry |-> Walk(p)] : p \in Pages}
      PROVE  PagingInv' /\ Steps
  <2>1. \A p : Walk(p)' = Walk(p)
    BY <1>1 DEF Walk
  <2>2. \A c \in tlb' : c \in [page : Pages, entry : Entries] /\ c.entry = Walk(c.page)
    BY <1>1, WalkType DEF PagingInv, TypeOK, TlbCoherent, Entries
  <2>3. TypeOK'
    BY <1>1, <2>2 DEF PagingInv, TypeOK, Entries
  <2>4. TablesOwned' /\ UserBitsAgree'
    BY <1>1 DEF PagingInv, TablesOwned, UserBitsAgree
  <2>5. TlbCoherent'
    BY <2>1, <2>2 DEF TlbCoherent
  <2> QED BY <1>1, <2>1, <2>3, <2>4, <2>5 DEF PagingInv, Steps
<1>2. ASSUME Refuse PROVE PagingInv' /\ Steps
  BY <1>1, <1>2 DEF Refuse
<1>3. ASSUME NEW va \in VirtualAddresses, NEW pa \in PhysicalAddresses, NEW flags \in FlagArgs,
             map_page_flags(va, pa, flags)
      PROVE  PagingInv' /\ Steps
  <2>1. CASE Served(va, pa)
    <3>1. /\ PagingInv' /\ result' = TRUE /\ va.page \in Pages
          /\ \A q \in Pages :
               Walk(q)' = IF q = va.page THEN Entry(pa.frame, Masked(flags)) ELSE Walk(q)
      BY <1>3, <2>1, MapStep DEF PagingInv, TypeOK
    <3> QED BY <3>1 DEF Steps
  <2>2. CASE ~Served(va, pa)
    BY <1>2, <1>3, <2>2 DEF map_page_flags
  <2> QED BY <2>1, <2>2
<1>4. ASSUME NEW va \in VirtualAddresses, unmap_page(va)
      PROVE  PagingInv' /\ Steps
  <2>1. CASE Accepted(va) /\ page_directory[Slot(va)].present
    BY <1>4, <2>1, UnmapStep DEF Steps
  <2>2. CASE ~(Accepted(va) /\ page_directory[Slot(va)].present)
    BY <1>2, <1>4, <2>2 DEF unmap_page
  <2> QED BY <2>1, <2>2
<1>5. ASSUME NEW va \in VirtualAddresses, NEW flags \in FlagArgs, set_page_flags(va, flags)
      PROVE  PagingInv' /\ Steps
  <2>1. CASE Accepted(va) /\ Walk(va.page).present
    BY <1>5, <2>1, FlagsStep DEF Steps
  <2>2. CASE ~(Accepted(va) /\ Walk(va.page).present)
    BY <1>2, <1>5, <2>2 DEF set_page_flags
  <2> QED BY <2>1, <2>2
<1>6. ASSUME NEW p \in Pages, TlbFill(p) PROVE PagingInv' /\ Steps
  BY <1>1, <1>6 DEF TlbFill
<1>7. ASSUME NEW c \in tlb, TlbEvict(c) PROVE PagingInv' /\ Steps
  BY <1>1, <1>7 DEF TlbEvict
<1>8. ASSUME UNCHANGED vars PROVE PagingInv' /\ Steps
  BY <1>1, <1>8 DEF vars
<1> QED BY <1>3, <1>4, <1>5, <1>6, <1>7, <1>8 DEF Next, Request

(* Whatever the sizes, the calls and what the CPU caches: no table is      *)
(* shared or lost, an entry open to user programs has an open slot, and    *)
(* no cached translation is stale.                                         *)
THEOREM PagingInvariant == Spec => []PagingInv
BY PagingInit, PagingStep, PTL DEF Spec

(* The pool is large enough because no slot takes a second table: were all *)
(* tables used while a slot has none, two tables would share a slot.       *)
LEMMA TablesForAll == PagingInv => PoolSuffices
<1> SUFFICES ASSUME PagingInv, NEW s \in Slots, ~page_directory[s].present,
                    DynamicTables \subseteq dynamic_table_used
             PROVE  FALSE
  BY DEF PoolSuffices
<1> DEFINE rest == (INITIAL_PAGE_TABLES..(DIRECTORY_SLOTS - 1)) \ {s}
           holder == [t \in DynamicTables |->
                        CHOOSE r \in Slots : page_directory[r].present /\ page_directory[r].table = t]
<1>1. \A t \in DynamicTables :
        /\ holder[t] \in Slots /\ page_directory[holder[t]].present
        /\ page_directory[holder[t]].table = t
  BY DEF PagingInv, TablesOwned
<1>2. \A t \in DynamicTables : holder[t] \in rest
  BY <1>1, Domains DEF PagingInv, TablesOwned, Slots, PageTables
<1>3. holder \in [DynamicTables -> rest]
  BY <1>2
<1>4. s \in INITIAL_PAGE_TABLES..(DIRECTORY_SLOTS - 1)
  BY Domains DEF PagingInv, TablesOwned, Slots, PageTables
<1>5. /\ IsFiniteSet(rest)
      /\ Cardinality(rest) = DIRECTORY_SLOTS - INITIAL_PAGE_TABLES - 1
  <2>1. INITIAL_PAGE_TABLES \in Int /\ DIRECTORY_SLOTS - 1 \in Int
    BY Domains
  <2>2. /\ IsFiniteSet(INITIAL_PAGE_TABLES..(DIRECTORY_SLOTS - 1))
        /\ Cardinality(INITIAL_PAGE_TABLES..(DIRECTORY_SLOTS - 1))
             = DIRECTORY_SLOTS - INITIAL_PAGE_TABLES
    BY <2>1, <1>4, FS_Interval, Domains
  <2> QED BY <2>2, <1>4, FS_RemoveElement
<1>6. IsFiniteSet(DynamicTables) /\ Cardinality(DynamicTables) = MAX_DYNAMIC_TABLES
  <2>1. INITIAL_PAGE_TABLES \in Int /\ INITIAL_PAGE_TABLES + MAX_DYNAMIC_TABLES - 1 \in Int
    BY Domains
  <2> QED BY <2>1, FS_Interval, Domains DEF DynamicTables
<1>7. Cardinality(rest) < Cardinality(DynamicTables)
  BY <1>5, <1>6, Domains, PagingAssumption
<1> HIDE DEF rest, holder
<1>8. \E x, y \in DynamicTables : x # y /\ holder[x] = holder[y]
  BY <1>3, <1>5, <1>6, <1>7, FS_PigeonHole
<1> QED BY <1>1, <1>8

-----------------------------------------------------------------------------
(* The directory, the tables, the pool and the TLB keep their types; no    *)
(* flag argument of a caller reaches the frame of an entry.                *)
THEOREM PagingTypeCorrect == Spec => []TypeOK
BY PagingInvariant, PTL DEF PagingInv

(* Directory slots never share a table and no table of the pool is lost.   *)
THEOREM PagingTablesOwned == Spec => []TablesOwned
BY PagingInvariant, PTL DEF PagingInv

(* allocate_dynamic_table never fails for a slot paging.c accepts, though  *)
(* no table is ever given back.                                            *)
THEOREM PagingPoolSuffices == Spec => []PoolSuffices
BY PagingInvariant, TablesForAll, PTL

(* A page open to user programs is open in the directory too.              *)
THEOREM PagingUserBitsAgree == Spec => []UserBitsAgree
BY PagingInvariant, PTL DEF PagingInv

(* One invlpg a call is enough: the TLB never holds a translation that the *)
(* tables do not.                                                          *)
THEOREM PagingTlbCoherent == Spec => []TlbCoherent
BY PagingInvariant, PTL DEF PagingInv

(* The tables implement the address space: every call changes the one page *)
(* it was asked about, with the rights it was asked for, or nothing.       *)
THEOREM PagingImplementsAddressSpace == Spec => AddressSpaceSpec
<1> DEFINE mapping == [p \in Pages |-> Walk(p)]
<1>1. Init => Space!Init
  <2> SUFFICES ASSUME Init PROVE Space!Init
    OBVIOUS
  <2>1. ASSUME NEW p \in Pages PROVE Walk(p) = Identity[p]
    <3>1. /\ p[1] \in Slots /\ p[2] \in Indexes /\ p = <<p[1], p[2]>>
          /\ Identity[p] = IF p[1] \in PageTables THEN Entry(p, {"writable"}) ELSE NoEntry
      BY DEF Pages, Identity
    <3>2. CASE p[1] \in PageTables
      <4>1. page_directory[p[1]] = [present |-> TRUE, table |-> p[1], user |-> FALSE]
        BY <3>1, <3>2 DEF Init
      <4>2. tables[p[1]][p[2]] = Entry(p, {"writable"})
        BY <3>1, <3>2, Domains DEF Init
      <4>3. {"writable"} \ {"user"} = {"writable"}
        OBVIOUS
      <4>4. /\ page_directory[p[1]].present /\ page_directory[p[1]].table = p[1]
            /\ ~page_directory[p[1]].user
        BY <4>1
      <4>5. LET e == tables[p[1]][p[2]] IN e.present /\ e.frame = p /\ e.flags = {"writable"}
        BY <3>1, <4>2 DEF Entry
      <4>6. Walk(p) = Entry(p, {"writable"} \ {"user"})
        BY <4>4, <4>5 DEF Walk
      <4> QED BY <3>1, <3>2, <4>3, <4>6
    <3>3. CASE p[1] \notin PageTables
      <4>1. page_directory[p[1]] = NoTable
        BY <3>1, <3>3 DEF Init
      <4>2. ~page_directory[p[1]].present
        BY <4>1 DEF NoTable
      <4> QED BY <3>1, <3>3, <4>2 DEF Walk
    <3> QED BY <3>2, <3>3
  <2>2. mapping = Identity
    BY <2>1 DEF Identity
  <2> QED BY <2>2 DEF Init, Space!Init
<1>2. PagingInv /\ [Next]_vars => [Space!Next]_<<mapping, result>>
  <2> SUFFICES ASSUME PagingInv, [Next]_vars
               PROVE  Space!Next \/ UNCHANGED <<mapping, result>>
    OBVIOUS
  <2>1. ASSUME NEW p \in Pages, NEW pa \in PhysicalAddresses, NEW flags \in FlagArgs, result' = TRUE,
               \A q \in Pages : Walk(q)' = IF q = p THEN Entry(pa.frame, Masked(flags)) ELSE Walk(q)
        PROVE  Space!Next
    <3>1. mapping' = [mapping EXCEPT ![p] = Space!Entry(pa.frame, Masked(flags))]
      BY <2>1 DEF Space!Entry, Entry
    <3>2. Space!Map(p, pa.frame, Masked(flags))
      BY <2>1, <3>1 DEF Space!Map
    <3>3. /\ pa.frame \in {a.frame : a \in PhysicalAddresses}
          /\ Masked(flags) \in {Masked(g) : g \in FlagArgs}
      OBVIOUS
    <3> QED BY <3>2, <3>3 DEF Space!Next
  <2>2. ASSUME NEW p \in Pages, NEW flags \in FlagArgs, Walk(p).present, result' = TRUE,
               \A q \in Pages :
                 Walk(q)' = IF q = p THEN Entry(Walk(p).frame, Masked(flags)) ELSE Walk(q)
        PROVE  Space!Next
    <3>1. mapping' = [mapping EXCEPT ![p] = Space!Entry(mapping[p].frame, Masked(flags))]
      BY <2>2 DEF Space!Entry, Entry
    <3>2. mapping[p].present
      BY <2>2
    <3>3. Space!Protect(p, Masked(flags))
      BY <2>2, <3>1, <3>2 DEF Space!Protect
    <3>4. Masked(flags) \in {Masked(g) : g \in FlagArgs}
      OBVIOUS
    <3> QED BY <3>3, <3>4 DEF Space!Next
  <2>3. ASSUME NEW p \in Pages, result' = TRUE,
               \A q \in Pages : Walk(q)' = IF q = p THEN NoEntry ELSE Walk(q)
        PROVE  Space!Next
    <3>1. mapping' = [mapping EXCEPT ![p] = NoEntry]
      BY <2>3
    <3> QED BY <2>3, <3>1 DEF Space!Next, Space!Unmap
  <2>4. ASSUME \A q \in Pages : Walk(q)' = Walk(q), result' \in {FALSE, result}
        PROVE  Space!Next \/ UNCHANGED <<mapping, result>>
    <3>1. mapping' = mapping
      BY <2>4
    <3> QED BY <2>4, <3>1 DEF Space!Next, Space!Refuse
  <2> QED BY <2>1, <2>2, <2>3, <2>4, PagingStep DEF Steps
<1> QED BY <1>1, <1>2, PagingInvariant, PTL DEF Spec, AddressSpaceSpec, Space!Spec

-----------------------------------------------------------------------------
(* The clients: the boot and the tests.                                    *)

PcLabels == {"off", "poll", "call", "find", "claim", "clear", "install", "fetch", "store", "invlpg",
             "unmap", "protect", "load", "change"}

Changes == {"map", "unmap", "protect"}

AllCalls ==
  [op : Changes \cup {"mapped", "frame", "writable"}, page : Pages, frame : Frames,
   flags : SUBSET Rights, expect : BOOLEAN \cup Frames]

(* What the tests call: a page of slot 3, or one of the two of slot 4.     *)
TestPages == {<<3, 1>>, <<4, 0>>, <<4, 1>>}
TestCalls == {call \in AllCalls : /\ call.page \in TestPages /\ "user" \notin call.flags
                                  /\ call.op \in Changes => call.expect = TRUE}

TestsTypeOK ==
  /\ page_directory \in [Slots -> [present : BOOLEAN, table : Tables, user : BOOLEAN]]
  /\ tables \in [Tables -> [Indexes -> Entries]]
  /\ \A t \in Tables, i \in Indexes : tables[t][i].present \/ tables[t][i] = NoEntry
  /\ dynamic_table_used \subseteq DynamicTables
  /\ \A e \in tlb : e.page \in Pages
  /\ pc \in [Contexts -> PcLabels] /\ found \in [Contexts -> Tables \cup {None}]
  /\ cursor \in [Contexts -> Indexes] /\ loaded \in [Contexts -> Entries]
  /\ script \in [Contexts -> Seq(AllCalls)]
  /\ failed \subseteq Contexts /\ disturbed \subseteq Contexts /\ raced \in BOOLEAN

(* Where the boot is: its calls from the n-th on are still to be made.     *)
Rest(n) == IF n = 1 THEN user_mode_init ELSE IF n = 2 THEN Tail(user_mode_init)
           ELSE IF n = 3 THEN Tail(Tail(user_mode_init)) ELSE <<>>

Opened(m) == \/ Booted
             \/ \E n \in 1..4 : /\ script[0] = Rest(n)
                                /\ m < n \/ (m = n /\ pc[0] \in {"store", "invlpg"})

Entered(m) == \/ Booted
              \/ \E n \in 1..4 : /\ script[0] = Rest(n)
                                 /\ m < n \/ (m = n /\ pc[0] = "invlpg")

Making == {"find", "claim", "clear", "install"}
Holding == {"store", "unmap", "protect", "load", "change"}

(* What a context executes.                                                *)
ScriptInv ==
  /\ ~Booted => /\ \E n \in 1..4 : script[0] = Rest(n)
                /\ pc[0] \in {"call", "fetch", "store", "invlpg"} /\ script[1] = <<>>
  /\ pc[0] # "off"
  /\ Booted => \A c \in Contexts : script[c] \in Seq(TestCalls)
  /\ \A c \in Contexts : pc[c] \notin {"off", "poll", "call"} =>
       /\ script[c] # <<>>
       /\ pc[c] \in Making \cup {"fetch", "store"} => This(c).op = "map"
       /\ pc[c] = "unmap" => This(c).op = "unmap"
       /\ pc[c] \in {"protect", "load", "change"} => This(c).op = "protect"
       /\ pc[c] = "invlpg" => This(c).op \in Changes

(* No slot but the fifth is ever given a table, and one of the pool.       *)
DirectoryInv ==
  /\ \A s \in PageTables : page_directory[s].present /\ page_directory[s].table = s
  /\ \A s \in Slots \ PageTables :
       page_directory[s].present => s = 4 /\ page_directory[s].table \in DynamicTables
  /\ \A s \in Slots : page_directory[s].user => s \in {1, 2}

(* What the boot has mapped so far.                                        *)
BootInv ==
  /\ \A m \in 1..3 : Opened(m) => page_directory[user_mode_init[m].page[1]].user
  /\ \A m \in 1..3 : Entered(m) =>
       tables[user_mode_init[m].page[1]][user_mode_init[m].page[2]]
         = Entry(user_mode_init[m].frame, user_mode_init[m].flags)

(* What the tables must not hold.                                          *)
EntriesInv ==
  /\ \A t \in PageTables, i \in Indexes :
       <<t, i>> \in UserPages \cup {<<3, 1>>} \/ tables[t][i] = Entry(<<t, i>>, {"writable"})
  /\ \A t \in Tables, i \in Indexes : "user" \in tables[t][i].flags =>
       <<t, i>> \in UserPages /\ page_directory[t].user

(* A table a context holds is that of its slot or one of the pool.         *)
HoldInv ==
  \A c \in Contexts :
    /\ pc[c] \in Making => Page(c)[1] = 4
    /\ pc[c] \in Creating => found[c] \in DynamicTables
    /\ pc[c] \in Holding \cup {"fetch"} => page_directory[Page(c)[1]].present
    /\ pc[c] \in Holding => IF Page(c)[1] \in PageTables THEN found[c] = Page(c)[1]
                            ELSE found[c] \in DynamicTables

BaseInv == TestsTypeOK /\ ScriptInv /\ DirectoryInv /\ BootInv /\ EntriesInv /\ HoldInv

(* Who has claimed the tables of the pool.  Until two contexts make one at *)
(* once, the maker's table is cleared before the slot has one, and         *)
(* everybody holds the slot's.                                             *)
Claimed == {found[c] : c \in {d \in Contexts : pc[d] \in {"clear", "install"}}}

PoolInv ==
  /\ ~page_directory[4].present => dynamic_table_used \subseteq Claimed
  /\ page_directory[4].present /\ (\E c \in Contexts : pc[c] \in Making) =>
       raced /\ dynamic_table_used \subseteq Claimed \cup {page_directory[4].table}
  /\ page_directory[4].present /\ (\A c \in Contexts : pc[c] \notin Making) =>
       \E t \in Tables : dynamic_table_used \subseteq {page_directory[4].table, t}
  /\ page_directory[4].present => \E c \in Contexts : pc[c] \notin Making
  /\ ~raced =>
       /\ \A c, d \in Contexts : pc[c] \in Making /\ pc[d] \in Making => c = d
       /\ page_directory[4].present => dynamic_table_used \subseteq {page_directory[4].table}
       /\ \A c \in Contexts :
            /\ pc[c] = "clear" => \A i \in Indexes : i < cursor[c] => tables[found[c]][i] = NoEntry
            /\ pc[c] = "install" => \A i \in Indexes : tables[found[c]][i] = NoEntry
            /\ pc[c] \in Holding => found[c] = page_directory[Page(c)[1]].table

(* A test that nobody disturbs: what its page is mapped to when it comes   *)
(* to each of its calls but the first.                                     *)
Tests == {ptest, dptest, vmtest, vmaptest}

Second(s) == Tail(s)
Third(s)  == Tail(Second(s))
Fourth(s) == Tail(Third(s))
Fifth(s)  == Tail(Fourth(s))
Sixth(s)  == Tail(Fifth(s))

SoloCalls ==
  LET writable(frame) == Entry(frame, {"writable"})
  IN  {<<Second(ptest), writable(<<0, 1>>)>>, <<Third(ptest), writable(<<0, 1>>)>>,
       <<Fourth(ptest), NoEntry>>}
      \cup {<<Second(dptest), writable(<<4, 0>>)>>, <<Third(dptest), writable(<<4, 0>>)>>,
            <<Fourth(dptest), NoEntry>>}
      \cup {<<Second(vmtest), writable(<<8, 0>>)>>, <<Third(vmtest), writable(<<8, 0>>)>>,
            <<Fourth(vmtest), writable(<<8, 0>>)>>, <<Fifth(vmtest), Entry(<<8, 0>>, {})>>,
            <<Sixth(vmtest), Entry(<<8, 0>>, {})>>}
      \cup {<<Second(vmaptest), writable(<<0, 1>>)>>, <<Third(vmaptest), writable(<<0, 1>>)>>,
            <<Fourth(vmaptest), writable(<<0, 1>>)>>, <<Fifth(vmaptest), writable(<<0, 1>>)>>,
            <<Sixth(vmaptest), NoEntry>>}

(* The rest of a test goes on with the same page, mapped to entry e.       *)
Follows(s, e) ==
  Tail(s) = <<>> \/ (Head(Tail(s)).page = Head(s).page /\ <<Tail(s), e>> \in SoloCalls)

Solo(c) == Booted /\ c \notin disturbed /\ pc[c] # "poll"

Tells(c) ==
  /\ c \notin failed /\ \A d \in Contexts \ {c} : pc[d] = "poll"
  /\ IF pc[c] = "invlpg" THEN Follows(script[c], Walk(Page(c)))
     ELSE script[c] = <<>> \/ script[c] \in Tests \/ <<script[c], Walk(Page(c))>> \in SoloCalls
  /\ pc[c] \in Making => ~page_directory[4].present
  /\ pc[c] \in Holding => found[c] = page_directory[Page(c)[1]].table
  /\ pc[c] = "change" => loaded[c].frame = Walk(Page(c)).frame

SoloInv ==
  /\ ~Booted => failed = {}
  /\ \A c \in Contexts : pc[c] = "poll" => c \notin failed
  /\ \A c \in Contexts : Solo(c) => Tells(c)

-----------------------------------------------------------------------------
(* The sizes, and the calls of the boot and of the tests.                  *)
LEMMA TestDomains ==
  /\ PageTables = 0..3 /\ 4 \in Slots \ PageTables /\ PageTables \subseteq Slots
  /\ {0, 1} \subseteq Indexes /\ 4 \in DynamicTables /\ 4 \notin PageTables
  /\ PageTables \cap DynamicTables = {} /\ Tables = PageTables \cup DynamicTables
  /\ None \notin Tables
<1>1. /\ INITIAL_PAGE_TABLES = 4 /\ DIRECTORY_SLOTS \in Nat /\ DIRECTORY_SLOTS > 4
      /\ TABLE_ENTRIES \in Nat /\ TABLE_ENTRIES >= 2 /\ MAX_DYNAMIC_TABLES \in Nat
      /\ DIRECTORY_SLOTS - INITIAL_PAGE_TABLES <= MAX_DYNAMIC_TABLES
  BY PagingAssumption, TestsAssumption
<1> QED BY <1>1 DEF PageTables, Slots, Indexes, DynamicTables, Tables, None

LEMMA TestFrames ==
  /\ {<<0, 0>>, <<0, 1>>, <<4, 0>>, <<8, 0>>} \subseteq Frames
  /\ TestPages \cup {<<1, 0>>, <<1, 1>>, <<2, 0>>} \subseteq Pages
BY TestDomains DEF Frames, Pages, TestPages, Indexes

LEMMA CallTyped ==
  ASSUME NEW op \in Changes \cup {"mapped", "frame", "writable"}, NEW page \in Pages,
         NEW frame \in Frames, NEW flags \in SUBSET Rights, NEW expect \in BOOLEAN \cup Frames
  PROVE  LET call == Call(op, page, frame, flags, expect)
         IN  /\ call \in AllCalls /\ call.op = op /\ call.page = page /\ call.frame = frame
             /\ call.flags = flags /\ call.expect = expect
             /\ page \in TestPages /\ "user" \notin flags /\ (op \in Changes => expect = TRUE)
                  => call \in TestCalls
BY DEF Call, AllCalls, TestCalls

LEMMA CallKinds ==
  /\ \A page \in TestPages, frame \in Frames, flags \in SUBSET {"writable"} :
       Map(page, frame, flags) \in TestCalls
  /\ \A page \in TestPages, flags \in SUBSET {"writable"} : Protect(page, flags) \in TestCalls
  /\ \A page \in TestPages : Unmap(page) \in TestCalls
  /\ \A page \in TestPages, b \in BOOLEAN :
       Mapped(page, b) \in TestCalls /\ Writable(page, b) \in TestCalls
  /\ \A page \in TestPages, frame \in Frames : TranslatesTo(page, frame) \in TestCalls
<1>1. TestPages \subseteq Pages /\ <<0, 0>> \in Frames /\ {} \in SUBSET Rights
        /\ SUBSET {"writable"} \subseteq SUBSET Rights
        /\ \A flags \in SUBSET {"writable"} : "user" \notin flags
  BY TestFrames DEF Rights
<1>2. TRUE \in BOOLEAN \cup Frames /\ Frames \subseteq BOOLEAN \cup Frames
  OBVIOUS
<1> QED BY <1>1, <1>2, CallTyped DEF Map, Protect, Unmap, Mapped, Writable, TranslatesTo, Changes

LEMMA TestsTyped == Tests \subseteq Seq(TestCalls)
<1>1. \A page \in {<<3, 1>>, <<4, 0>>, <<4, 1>>} : page \in TestPages
  BY DEF TestPages
<1>2. \A frame \in {<<0, 1>>, <<4, 0>>, <<8, 0>>} : frame \in Frames
  BY TestFrames
<1>3. {"writable"} \in SUBSET {"writable"} /\ {} \in SUBSET {"writable"}
  OBVIOUS
<1>4. ASSUME NEW a \in TestCalls, NEW b \in TestCalls, NEW c \in TestCalls, NEW d \in TestCalls,
             NEW e \in TestCalls, NEW f \in TestCalls
      PROVE  <<a, b, c, d>> \in Seq(TestCalls) /\ <<a, b, c, d, e, f>> \in Seq(TestCalls)
  OBVIOUS
<1>5. ptest \in Seq(TestCalls)
  BY <1>1, <1>2, <1>3, <1>4, CallKinds DEF ptest
<1>6. dptest \in Seq(TestCalls)
  BY <1>1, <1>2, <1>3, <1>4, CallKinds DEF dptest
<1>7. vmtest \in Seq(TestCalls)
  BY <1>1, <1>2, <1>3, <1>4, CallKinds DEF vmtest
<1>8. vmaptest \in Seq(TestCalls)
  BY <1>1, <1>2, <1>3, <1>4, CallKinds DEF vmaptest
<1> QED BY <1>5, <1>6, <1>7, <1>8 DEF Tests

(* The boot's calls.                                                       *)
LEMMA BootCalls ==
  /\ \A n \in 1..3 :
       /\ user_mode_init[n] \in AllCalls /\ user_mode_init[n].op = "map"
       /\ user_mode_init[n].expect = TRUE /\ "user" \in user_mode_init[n].flags
       /\ user_mode_init[n].flags \subseteq Rights
       /\ user_mode_init[n].page[1] \in {1, 2} /\ user_mode_init[n].page[2] \in Indexes
       /\ Rest(n) # <<>> /\ Head(Rest(n)) = user_mode_init[n] /\ Tail(Rest(n)) = Rest(n + 1)
       /\ Rest(n) \in Seq(AllCalls)
  /\ Rest(4) = <<>>
  /\ \A m, n \in 1..3 : user_mode_init[m].page = user_mode_init[n].page => m = n
  /\ \A m, n \in 1..4 : Rest(m) = Rest(n) => m = n
  /\ UserPages = {<<1, 0>>, <<1, 1>>, <<2, 0>>}
  /\ user_mode_init[1].page = <<1, 0>> /\ user_mode_init[2].page = <<1, 1>>
  /\ user_mode_init[3].page = <<2, 0>>
<1> DEFINE a == Map(<<1, 0>>, <<0, 0>>, {"user"})
           b == Map(<<1, 1>>, <<0, 1>>, {"user"})
           c == Map(<<2, 0>>, <<0, 1>>, {"writable", "user"})
<1>1. {"user"} \in SUBSET Rights /\ {"writable", "user"} \in SUBSET Rights
        /\ <<0, 0>> \in Frames /\ <<0, 1>> \in Frames
        /\ <<1, 0>> \in Pages /\ <<1, 1>> \in Pages /\ <<2, 0>> \in Pages
  BY TestFrames DEF Rights
<1>2. /\ a \in AllCalls /\ a.op = "map" /\ a.expect = TRUE /\ a.flags = {"user"}
      /\ a.page = <<1, 0>>
  BY <1>1 DEF Map, Call, AllCalls, Changes
<1>3. /\ b \in AllCalls /\ b.op = "map" /\ b.expect = TRUE /\ b.flags = {"user"}
      /\ b.page = <<1, 1>>
  BY <1>1 DEF Map, Call, AllCalls, Changes
<1>4. /\ c \in AllCalls /\ c.op = "map" /\ c.expect = TRUE /\ c.flags = {"writable", "user"}
      /\ c.page = <<2, 0>>
  BY <1>1 DEF Map, Call, AllCalls, Changes
<1>5. user_mode_init = <<a, b, c>>
  BY DEF user_mode_init
<1> HIDE DEF a, b, c
<1>6. /\ Rest(1) = <<a, b, c>> /\ Rest(2) = <<b, c>> /\ Rest(3) = <<c>> /\ Rest(4) = <<>>
      /\ Tail(Rest(1)) = Rest(2) /\ Tail(Rest(2)) = Rest(3) /\ Tail(Rest(3)) = Rest(4)
  BY <1>5 DEF Rest
<1>7. user_mode_init[1] = a /\ user_mode_init[2] = b /\ user_mode_init[3] = c
        /\ DOMAIN user_mode_init = 1..3
  BY <1>5
<1>8. UserPages = {<<1, 0>>, <<1, 1>>, <<2, 0>>}
  BY <1>2, <1>3, <1>4, <1>7 DEF UserPages
<1>9. \A m, n \in 1..4 : Rest(m) = Rest(n) => m = n
  <2>1. Len(Rest(1)) = 3 /\ Len(Rest(2)) = 2 /\ Len(Rest(3)) = 1 /\ Len(Rest(4)) = 0
    BY <1>6
  <2>2. \A m \in 1..4 : m = 1 \/ m = 2 \/ m = 3 \/ m = 4
    OBVIOUS
  <2> QED BY <2>1, <2>2
<1>10. \A n \in 1..3 : /\ Rest(n) # <<>> /\ Head(Rest(n)) = user_mode_init[n]
                       /\ Tail(Rest(n)) = Rest(n + 1) /\ Rest(n) \in Seq(AllCalls)
  <2>1. Rest(1) # <<>> /\ Head(Rest(1)) = a /\ Rest(1) \in Seq(AllCalls)
    BY <1>2, <1>3, <1>4, <1>6
  <2>2. Rest(2) # <<>> /\ Head(Rest(2)) = b /\ Rest(2) \in Seq(AllCalls)
    BY <1>2, <1>3, <1>4, <1>6
  <2>3. Rest(3) # <<>> /\ Head(Rest(3)) = c /\ Rest(3) \in Seq(AllCalls)
    BY <1>2, <1>3, <1>4, <1>6
  <2> QED BY <1>6, <1>7, <2>1, <2>2, <2>3
<1>11. \A n \in 1..3 : n = 1 \/ n = 2 \/ n = 3
  OBVIOUS
<1>12. \A n \in 1..3 :
         /\ user_mode_init[n] \in AllCalls /\ user_mode_init[n].op = "map"
         /\ user_mode_init[n].expect = TRUE /\ "user" \in user_mode_init[n].flags
         /\ user_mode_init[n].flags \subseteq Rights
         /\ user_mode_init[n].page[1] \in {1, 2} /\ user_mode_init[n].page[2] \in Indexes
  <2>1. 0 \in Indexes /\ 1 \in Indexes
    BY TestDomains
  <2>2. ASSUME NEW call \in {a, b, c}
        PROVE  /\ call \in AllCalls /\ call.op = "map" /\ call.expect = TRUE
               /\ "user" \in call.flags /\ call.flags \subseteq Rights
               /\ call.page[1] \in {1, 2} /\ call.page[2] \in Indexes
    BY <1>1, <1>2, <1>3, <1>4, <2>1
  <2>3. \A n \in 1..3 : user_mode_init[n] \in {a, b, c}
    BY <1>7, <1>11
  <2> QED BY <2>2, <2>3
<1>13. \A m, n \in 1..3 : user_mode_init[m].page = user_mode_init[n].page => m = n
  BY <1>2, <1>3, <1>4, <1>7, <1>11
<1> QED BY <1>2, <1>3, <1>4, <1>6, <1>7, <1>8, <1>9, <1>10, <1>12, <1>13

(* How far the boot has come is told by what is left of it.                *)
LEMMA RestTells == \A m, n \in 1..4 : Rest(m) = Rest(n) => m = n
BY BootCalls

LEMMA RestHead ==
  \A n \in 1..3 : /\ Rest(n) # <<>> /\ Head(Rest(n)) = user_mode_init[n]
                  /\ Tail(Rest(n)) = Rest(n + 1) /\ user_mode_init[n].op = "map"
BY BootCalls

-----------------------------------------------------------------------------
(* What a context calls.                                                   *)
LEMMA HeadTyped ==
  ASSUME TestsTypeOK, NEW c \in Contexts, script[c] # <<>>
  PROVE  /\ This(c) \in AllCalls /\ Tail(script[c]) \in Seq(AllCalls)
         /\ Page(c) \in Pages /\ Page(c)[1] \in Slots /\ Page(c)[2] \in Indexes
         /\ This(c).frame \in Frames /\ Masked(This(c).flags) = This(c).flags
         /\ This(c).flags \in SUBSET Rights
<1>1. script[c] \in Seq(AllCalls)
  BY DEF TestsTypeOK
<1>2. Head(script[c]) \in AllCalls /\ Tail(script[c]) \in Seq(AllCalls)
  BY <1>1
<1> QED BY <1>2 DEF This, Page, AllCalls, Pages, Masked

LEMMA TestHead ==
  ASSUME ScriptInv, Booted, NEW c \in Contexts, script[c] # <<>>
  PROVE  /\ This(c) \in TestCalls /\ Tail(script[c]) \in Seq(TestCalls)
         /\ Page(c) \in TestPages /\ "user" \notin This(c).flags
         /\ \/ Page(c)[1] = 3 /\ Page(c)[2] = 1
            \/ Page(c)[1] = 4 /\ Page(c)[2] \in {0, 1}
<1>1. script[c] \in Seq(TestCalls)
  BY DEF ScriptInv
<1>2. Head(script[c]) \in TestCalls /\ Tail(script[c]) \in Seq(TestCalls)
  BY <1>1
<1>3. /\ <<3, 1>>[1] = 3 /\ <<3, 1>>[2] = 1 /\ <<4, 0>>[1] = 4 /\ <<4, 0>>[2] = 0
      /\ <<4, 1>>[1] = 4 /\ <<4, 1>>[2] = 1
  OBVIOUS
<1> QED BY <1>2, <1>3 DEF This, Page, TestCalls, TestPages

(* A test is a sequence of calls.                                          *)
LEMMA TestIsScript ==
  /\ \A s \in Seq(TestCalls) : s \in Seq(AllCalls)
  /\ <<>> \in Seq(TestCalls)
<1>1. TestCalls \subseteq AllCalls
  BY DEF TestCalls
<1> QED BY <1>1

LEMMA TestsBegin == TestInit => BaseInv
<1> SUFFICES ASSUME TestInit PROVE BaseInv
  OBVIOUS
<1>0. Init /\ PagingInv
  BY PagingInit DEF TestInit
<1>1. /\ pc[0] = "call" /\ pc[1] = "off" /\ script[0] = Rest(1) /\ script[1] = <<>>
      /\ ~Booted
  BY DEF TestInit, Contexts, Rest, Booted
<1>2. /\ \A s \in Slots : page_directory[s] = IF s \in PageTables
           THEN [present |-> TRUE, table |-> s, user |-> FALSE] ELSE NoTable
      /\ \A t \in Tables, i \in Indexes :
           tables[t][i] = IF t \in PageTables THEN Entry(<<t, i>>, {"writable"}) ELSE NoEntry
  BY <1>0 DEF Init
<1>3. \A t \in Tables, i \in Indexes :
        "user" \notin tables[t][i].flags /\ (tables[t][i].present \/ tables[t][i] = NoEntry)
  <2> SUFFICES ASSUME NEW t \in Tables, NEW i \in Indexes
               PROVE  "user" \notin tables[t][i].flags /\ (tables[t][i].present \/ tables[t][i] = NoEntry)
    OBVIOUS
  <2>1. CASE t \in PageTables
    <3>1. tables[t][i] = Entry(<<t, i>>, {"writable"})
      BY <1>2, <2>1
    <3> QED BY <3>1 DEF Entry
  <2>2. CASE t \notin PageTables
    <3>1. tables[t][i] = NoEntry
      BY <1>2, <2>2
    <3> QED BY <3>1 DEF NoEntry
  <2> QED BY <2>1, <2>2
<1>4. TestsTypeOK
  <2>1. pc \in [Contexts -> PcLabels] /\ found \in [Contexts -> Tables \cup {None}]
    BY DEF TestInit, PcLabels
  <2>2. cursor \in [Contexts -> Indexes] /\ loaded \in [Contexts -> Entries]
    BY TestDomains, EntryTypes DEF TestInit
  <2>3. script \in [Contexts -> Seq(AllCalls)]
    <3>1. \A c \in Contexts : script[c] \in Seq(AllCalls)
      BY <1>1, BootCalls, TestIsScript DEF Contexts
    <3> QED BY <3>1 DEF TestInit
  <2>5. /\ page_directory \in [Slots -> [present : BOOLEAN, table : Tables, user : BOOLEAN]]
        /\ tables \in [Tables -> [Indexes -> Entries]]
    BY <1>0 DEF PagingInv, TypeOK, Entries
  <2> QED BY <1>0, <1>3, <2>1, <2>2, <2>3, <2>5 DEF TestsTypeOK, Init, TestInit
<1>5. ScriptInv
  BY <1>1, BootCalls DEF ScriptInv, Contexts
<1>6. DirectoryInv
  <2>1. \A s \in PageTables : page_directory[s] = [present |-> TRUE, table |-> s, user |-> FALSE]
    BY <1>2, Domains
  <2>2. \A s \in Slots \ PageTables : page_directory[s] = NoTable
    BY <1>2
  <2>3. \A s \in PageTables : /\ page_directory[s].present /\ page_directory[s].table = s
                              /\ ~page_directory[s].user
    <3> SUFFICES ASSUME NEW s \in PageTables
                 PROVE  /\ page_directory[s].present /\ page_directory[s].table = s
                        /\ ~page_directory[s].user
      OBVIOUS
    <3>1. page_directory[s] = [present |-> TRUE, table |-> s, user |-> FALSE]
      BY <2>1
    <3> QED BY <3>1
  <2>4. \A s \in Slots \ PageTables : ~page_directory[s].present /\ ~page_directory[s].user
    <3>1. ~NoTable.present /\ ~NoTable.user
      BY DEF NoTable
    <3> QED BY <2>2, <3>1
  <2> QED BY <2>3, <2>4 DEF DirectoryInv
<1>7. BootInv
  <2>1. \A m \in 1..3 : ~Opened(m) /\ ~Entered(m)
    <3>1. \A n \in 1..4 : script[0] = Rest(n) => n = 1
      BY <1>1, BootCalls
    <3> QED BY <1>1, <3>1 DEF Opened, Entered
  <2> QED BY <2>1 DEF BootInv
<1>8. EntriesInv
  BY <1>2, <1>3, Domains DEF EntriesInv
<1>9. HoldInv
  BY <1>1 DEF HoldInv, Making, Creating, Holding, Contexts
<1> QED BY <1>4, <1>5, <1>6, <1>7, <1>8, <1>9 DEF BaseInv

-----------------------------------------------------------------------------
(* One context moves on in its call, or returns from it.                   *)
LEMMA ScriptStep ==
  ASSUME TestsTypeOK, ScriptInv, Booted, NEW c \in Contexts, NEW l \in PcLabels \ {"off"},
         pc' = [pc EXCEPT ![c] = l],
         \/ /\ script' = script /\ script[c] # <<>>
            /\ l \in Making \cup {"fetch", "store"} => This(c).op = "map"
            /\ l = "unmap" => This(c).op = "unmap"
            /\ l \in {"protect", "load", "change"} => This(c).op = "protect"
            /\ l = "invlpg" => This(c).op \in Changes
         \/ l \in {"call", "poll"} /\ \E s \in Seq(TestCalls) : script' = [script EXCEPT ![c] = s]
  PROVE  /\ ScriptInv' /\ Booted' /\ pc' \in [Contexts -> PcLabels]
         /\ script' \in [Contexts -> Seq(AllCalls)]
         /\ \A d \in Contexts \ {c} : pc'[d] = pc[d] /\ script'[d] = script[d]
<1>1. pc \in [Contexts -> PcLabels] /\ script \in [Contexts -> Seq(AllCalls)]
  BY DEF TestsTypeOK
<1>2. /\ pc' \in [Contexts -> PcLabels] /\ pc'[c] = l
      /\ \A d \in Contexts \ {c} : pc'[d] = pc[d] /\ script'[d] = script[d]
  BY <1>1
<1>3. Booted' /\ pc'[0] # "off"
  BY <1>2 DEF Booted, Contexts, ScriptInv
<1>4. \A d \in Contexts : script'[d] \in Seq(TestCalls)
  BY <1>1, <1>2 DEF ScriptInv
<1>5. script' \in [Contexts -> Seq(AllCalls)]
  BY <1>1, <1>4, TestIsScript
<1>6. \A d \in Contexts : pc'[d] \notin {"off", "poll", "call"} =>
        /\ script'[d] # <<>>
        /\ pc'[d] \in Making \cup {"fetch", "store"} => This(d)'.op = "map"
        /\ pc'[d] = "unmap" => This(d)'.op = "unmap"
        /\ pc'[d] \in {"protect", "load", "change"} => This(d)'.op = "protect"
        /\ pc'[d] = "invlpg" => This(d)'.op \in Changes
  <2> SUFFICES ASSUME NEW d \in Contexts, pc'[d] \notin {"off", "poll", "call"}
               PROVE  /\ script'[d] # <<>>
                      /\ pc'[d] \in Making \cup {"fetch", "store"} => This(d)'.op = "map"
                      /\ pc'[d] = "unmap" => This(d)'.op = "unmap"
                      /\ pc'[d] \in {"protect", "load", "change"} => This(d)'.op = "protect"
                      /\ pc'[d] = "invlpg" => This(d)'.op \in Changes
    OBVIOUS
  <2>1. CASE d = c
    <3>1. script' = script /\ pc'[d] = l
      BY <1>2, <2>1
    <3> QED BY <2>1, <3>1 DEF This
  <2>2. CASE d # c
    <3>1. pc'[d] = pc[d] /\ script'[d] = script[d]
      BY <1>2, <2>2
    <3> QED BY <3>1 DEF ScriptInv, This
  <2> QED BY <2>1, <2>2
<1> QED BY <1>2, <1>3, <1>4, <1>5, <1>6 DEF ScriptInv

(* One entry of a table is stored.                                         *)
LEMMA StoreTyped ==
  ASSUME TestsTypeOK, NEW t \in Tables, NEW i \in Indexes, NEW e \in Stored,
         tables' = [tables EXCEPT ![t][i] = e]
  PROVE  /\ tables' \in [Tables -> [Indexes -> Entries]]
         /\ \A u \in Tables, j \in Indexes :
              tables'[u][j] = IF u = t /\ j = i THEN e ELSE tables[u][j]
         /\ \A u \in Tables, j \in Indexes : tables'[u][j].present \/ tables'[u][j] = NoEntry
<1>1. tables \in [Tables -> [Indexes -> Entries]] /\ e \in Entries /\ (e.present \/ e = NoEntry)
  BY EntryTypes DEF TestsTypeOK, Stored, Entry
<1>2. \A u \in Tables, j \in Indexes :
        tables'[u][j] = IF u = t /\ j = i THEN e ELSE tables[u][j]
  BY <1>1
<1>3. tables' \in [Tables -> [Indexes -> Entries]]
  BY <1>1
<1> QED BY <1>1, <1>2, <1>3 DEF TestsTypeOK

(* The directory and the tables, of all that BaseInv says.                 *)
MapOK ==
  /\ page_directory \in [Slots -> [present : BOOLEAN, table : Tables, user : BOOLEAN]]
  /\ tables \in [Tables -> [Indexes -> Entries]]
  /\ \A t \in Tables, i \in Indexes : tables[t][i].present \/ tables[t][i] = NoEntry
  /\ DirectoryInv /\ BootInv /\ EntriesInv

LEMMA MapKept ==
  ASSUME BaseInv, Booted, Booted', UNCHANGED <<page_directory, tables>>
  PROVE  MapOK'
BY DEF BaseInv, TestsTypeOK, MapOK, DirectoryInv, BootInv, EntriesInv, Opened, Entered

(* A test stores an entry, closed to user programs, in a page of its own.  *)
LEMMA MapStored ==
  ASSUME BaseInv, Booted, Booted', NEW t \in Tables, NEW i \in Indexes, NEW e \in Stored,
         "user" \notin e.flags, (t = 3 /\ i = 1) \/ t \in DynamicTables,
         page_directory' = page_directory, tables' = [tables EXCEPT ![t][i] = e]
  PROVE  MapOK'
<1>1. /\ tables' \in [Tables -> [Indexes -> Entries]]
      /\ \A u \in Tables, j \in Indexes :
           tables'[u][j] = IF u = t /\ j = i THEN e ELSE tables[u][j]
      /\ \A u \in Tables, j \in Indexes : tables'[u][j].present \/ tables'[u][j] = NoEntry
  BY StoreTyped DEF BaseInv
<1>2. DirectoryInv'
  BY DEF BaseInv, DirectoryInv
<1>3. \A u \in {1, 2}, j \in Indexes : u \in Tables /\ tables'[u][j] = tables[u][j]
  BY <1>1, TestDomains
<1>4. BootInv'
  <2>1. \A m \in 1..3 : Opened(m) /\ Entered(m)
    BY DEF Opened, Entered
  <2>2. \A m \in 1..3 : user_mode_init[m].page[1] \in {1, 2} /\ user_mode_init[m].page[2] \in Indexes
    BY BootCalls
  <2> QED BY <1>3, <2>1, <2>2 DEF BootInv, BaseInv
<1>5. EntriesInv'
  <2>1. \A u \in PageTables, j \in Indexes :
          <<u, j>> \in UserPages \cup {<<3, 1>>} \/ tables'[u][j] = Entry(<<u, j>>, {"writable"})
    <3> SUFFICES ASSUME NEW u \in PageTables, NEW j \in Indexes,
                        <<u, j>> \notin UserPages \cup {<<3, 1>>}
                 PROVE  tables'[u][j] = Entry(<<u, j>>, {"writable"})
      OBVIOUS
    <3>1. ~(u = t /\ j = i) /\ u \in Tables
      BY TestDomains
    <3>2. tables[u][j] = Entry(<<u, j>>, {"writable"})
      BY DEF BaseInv, EntriesInv
    <3> QED BY <1>1, <3>1, <3>2
  <2>2. \A u \in Tables, j \in Indexes : "user" \in tables'[u][j].flags =>
          <<u, j>> \in UserPages /\ page_directory'[u].user
    BY <1>1 DEF BaseInv, EntriesInv
  <2> QED BY <2>1, <2>2 DEF EntriesInv
<1> QED BY <1>1, <1>2, <1>4, <1>5 DEF MapOK, BaseInv, TestsTypeOK

(* The fifth slot is given a table of the pool.                            *)
LEMMA MapInstalled ==
  ASSUME BaseInv, Booted, Booted', NEW t \in DynamicTables, UNCHANGED tables,
         page_directory' = [page_directory EXCEPT ![4] =
                              [present |-> TRUE, table |-> t, user |-> FALSE]]
  PROVE  MapOK' /\ \A s \in Slots : page_directory[s].present => page_directory'[s].present
<1> DEFINE new == [present |-> TRUE, table |-> t, user |-> FALSE]
<1>1. /\ new \in [present : BOOLEAN, table : Tables, user : BOOLEAN]
      /\ new.present /\ new.table = t /\ ~new.user
  BY TestDomains
<1>2. page_directory \in [Slots -> [present : BOOLEAN, table : Tables, user : BOOLEAN]]
  BY DEF BaseInv, TestsTypeOK
<1> HIDE DEF new
<1>3. /\ page_directory' \in [Slots -> [present : BOOLEAN, table : Tables, user : BOOLEAN]]
      /\ \A s \in Slots : page_directory'[s] = IF s = 4 THEN new ELSE page_directory[s]
  BY <1>1, <1>2, TestDomains DEF new
<1>4. DirectoryInv'
  BY <1>1, <1>3, TestDomains DEF BaseInv, DirectoryInv
<1>5. \A s \in {1, 2} : page_directory'[s] = page_directory[s]
  BY <1>3, TestDomains
<1>6. BootInv'
  <2>1. \A m \in 1..3 : Opened(m) /\ Entered(m)
    BY DEF Opened, Entered
  <2>2. \A m \in 1..3 : user_mode_init[m].page[1] \in {1, 2}
    BY BootCalls
  <2> QED BY <1>5, <2>1, <2>2 DEF BootInv, BaseInv
<1>7. EntriesInv'
  <2>1. \A u \in Tables, j \in Indexes : <<u, j>> \in UserPages => u \in {1, 2}
    BY BootCalls
  <2> QED BY <1>5, <2>1 DEF EntriesInv, BaseInv
<1> QED BY <1>1, <1>3, <1>4, <1>6, <1>7 DEF MapOK, BaseInv, TestsTypeOK

(* What a step of a test must see to, for the map to stay as it is.        *)
LEMMA BootedFrame ==
  ASSUME BaseInv, Booted, NEW c \in Contexts, NEW l \in PcLabels \ {"off"},
         pc' = [pc EXCEPT ![c] = l],
         \/ /\ script' = script /\ script[c] # <<>>
            /\ l \in Making \cup {"fetch", "store"} => This(c).op = "map"
            /\ l = "unmap" => This(c).op = "unmap"
            /\ l \in {"protect", "load", "change"} => This(c).op = "protect"
            /\ l = "invlpg" => This(c).op \in Changes
         \/ l \in {"call", "poll"} /\ \E s \in Seq(TestCalls) : script' = [script EXCEPT ![c] = s],
         Booted' => MapOK',
         \A s \in Slots : page_directory[s].present => page_directory'[s].present,
         dynamic_table_used' \subseteq DynamicTables, tlb' \subseteq tlb,
         NEW t \in Tables \cup {None}, found' = [found EXCEPT ![c] = t],
         l \in Making => Page(c)[1] = 4,
         l \in Creating => t \in DynamicTables,
         l \in Holding \cup {"fetch"} => page_directory'[Page(c)[1]].present,
         l \in Holding => IF Page(c)[1] \in PageTables THEN t = Page(c)[1] ELSE t \in DynamicTables,
         cursor' \in [Contexts -> Indexes], loaded' \in [Contexts -> Entries],
         failed' \subseteq Contexts, disturbed' \subseteq Contexts, raced' \in BOOLEAN
  PROVE  BaseInv' /\ Booted'
<1>1. /\ ScriptInv' /\ Booted' /\ pc' \in [Contexts -> PcLabels]
      /\ script' \in [Contexts -> Seq(AllCalls)]
      /\ \A d \in Contexts \ {c} : pc'[d] = pc[d] /\ script'[d] = script[d]
  BY ScriptStep DEF BaseInv
<1>2. MapOK'
  BY <1>1
<1>3. /\ found' \in [Contexts -> Tables \cup {None}] /\ found'[c] = t
      /\ \A d \in Contexts \ {c} : found'[d] = found[d]
  BY DEF BaseInv, TestsTypeOK
<1>4. pc'[c] = l
  BY DEF BaseInv, TestsTypeOK
<1>5. TestsTypeOK'
  BY <1>1, <1>2, <1>3 DEF BaseInv, TestsTypeOK, MapOK
<1>6. HoldInv'
  <2> SUFFICES ASSUME NEW d \in Contexts
               PROVE  /\ pc'[d] \in Making => Page(d)'[1] = 4
                      /\ pc'[d] \in Creating => found'[d] \in DynamicTables
                      /\ pc'[d] \in Holding \cup {"fetch"} => page_directory'[Page(d)'[1]].present
                      /\ pc'[d] \in Holding => IF Page(d)'[1] \in PageTables
                                               THEN found'[d] = Page(d)'[1]
                                               ELSE found'[d] \in DynamicTables
    BY DEF HoldInv
  <2>1. CASE d # c
    <3>1. pc'[d] = pc[d] /\ Page(d)' = Page(d) /\ found'[d] = found[d]
      BY <1>1, <1>3, <2>1 DEF Page, This
    <3>2. pc[d] \in Holding \cup {"fetch"} => Page(d)[1] \in Slots
      <4>1. pc[d] \in Holding \cup {"fetch"} => script[d] # <<>>
        BY DEF BaseInv, ScriptInv, Holding
      <4> QED BY <4>1, HeadTyped DEF BaseInv
    <3> QED BY <3>1, <3>2 DEF BaseInv, HoldInv
  <2>2. CASE d = c /\ l \notin {"call", "poll"}
    <3>1. Page(c)' = Page(c)
      BY <2>2 DEF Page, This
    <3> QED BY <1>3, <1>4, <2>2, <3>1
  <2>3. CASE d = c /\ l \in {"call", "poll"}
    BY <1>4, <2>3 DEF Making, Creating, Holding
  <2> QED BY <2>1, <2>2, <2>3
<1> QED BY <1>1, <1>2, <1>5, <1>6 DEF BaseInv, MapOK

(* The steps of a test, one at a time.                                     *)
LEMMA ReturnsTest ==
  ASSUME BaseInv, Booted, NEW c \in Contexts, script[c] # <<>>, NEW answer, Returns(c, answer)
  PROVE  /\ pc' = [pc EXCEPT ![c] = "call"] /\ failed' \subseteq Contexts
         /\ \E s \in Seq(TestCalls) : script' = [script EXCEPT ![c] = s]
<1>1. Tail(script[c]) \in Seq(TestCalls) /\ c \in DOMAIN script
  BY TestHead DEF BaseInv, TestsTypeOK
<1> QED BY <1>1 DEF Returns, Goto, BaseInv, TestsTypeOK

LEMMA EnterTest ==
  ASSUME BaseInv, NEW c \in Contexts, Enter(c)
  PROVE  BaseInv' /\ Booted'
<1>1. pc[c] = "poll" /\ Booted
  BY DEF Enter, Booted, BaseInv, ScriptInv, Contexts
<1>2. PICK test \in Tests : script' = [script EXCEPT ![c] = test]
  BY DEF Enter, Tests
<1>3. test \in Seq(TestCalls)
  BY <1>2, TestsTyped
<1>4. /\ pc' = [pc EXCEPT ![c] = "call"] /\ found' = [found EXCEPT ![c] = found[c]]
      /\ found[c] \in Tables \cup {None} /\ UNCHANGED <<shared, cursor, loaded, failed, raced>>
      /\ disturbed' \subseteq Contexts
  BY DEF Enter, Goto, BaseInv, TestsTypeOK
<1>5. Booted' => MapOK'
  BY <1>1, <1>4, MapKept DEF shared
<1>6. "call" \in PcLabels \ {"off"} /\ "call" \notin Making \cup {"fetch"} \cup Holding
        /\ "call" \notin Creating
  BY DEF PcLabels, Making, Holding, Creating
<1> QED BY <1>1, <1>3, <1>2, <1>4, <1>5, <1>6, BootedFrame DEF shared, BaseInv, TestsTypeOK

LEMMA FinishTest ==
  ASSUME BaseInv, Booted, NEW c \in Contexts, Finish(c)
  PROVE  BaseInv' /\ Booted'
<1>1. /\ \A d \in Contexts : pc[d] # "off"
      /\ pc \in [Contexts -> PcLabels] /\ script \in [Contexts -> Seq(AllCalls)]
  BY DEF BaseInv, ScriptInv, Booted, Contexts, TestsTypeOK
<1>2. pc' = [pc EXCEPT ![c] = "poll"]
  BY <1>1 DEF Finish
<1>3. /\ script' = [script EXCEPT ![c] = script[c]] /\ script[c] \in Seq(TestCalls)
      /\ found' = [found EXCEPT ![c] = found[c]] /\ found[c] \in Tables \cup {None}
      /\ UNCHANGED <<shared, cursor, loaded, raced>>
      /\ failed' \subseteq Contexts /\ disturbed' \subseteq Contexts
  BY <1>1 DEF Finish, BaseInv, ScriptInv, TestsTypeOK
<1>4. Booted' => MapOK'
  BY <1>3, MapKept DEF shared
<1>5. "poll" \in PcLabels \ {"off"} /\ "poll" \notin Making \cup {"fetch"} \cup Holding
        /\ "poll" \notin Creating
  BY DEF PcLabels, Making, Holding, Creating
<1> QED BY <1>2, <1>3, <1>4, <1>5, BootedFrame DEF shared, BaseInv, TestsTypeOK

LEMMA MapCheckTest ==
  ASSUME BaseInv, Booted, NEW c \in Contexts, MapCheck(c)
  PROVE  BaseInv' /\ Booted'
<1>1. /\ script[c] # <<>> /\ This(c).op = "map" /\ Page(c)[1] \in {3, 4}
      /\ script' = script
  BY TestHead DEF MapCheck, Calls, BaseInv
<1>2. /\ found' = [found EXCEPT ![c] = found[c]] /\ found[c] \in Tables \cup {None}
      /\ UNCHANGED <<shared, cursor, loaded, failed, disturbed>> /\ raced' \in BOOLEAN
  BY DEF MapCheck, BaseInv, TestsTypeOK
<1>3. Booted' => MapOK'
  BY <1>2, MapKept DEF shared
<1>4. CASE page_directory[Page(c)[1]].present /\ Goto(c, "fetch")
  <2>1. "fetch" \in PcLabels \ {"off"} /\ "fetch" \notin Making \cup Holding \cup Creating
    BY DEF PcLabels, Making, Holding, Creating
  <2> QED BY <1>1, <1>2, <1>3, <1>4, <2>1, BootedFrame DEF shared, BaseInv, TestsTypeOK, Goto
<1>5. CASE ~page_directory[Page(c)[1]].present /\ Goto(c, "find")
  <2>1. "find" \in PcLabels \ {"off"} /\ "find" \notin {"fetch"} \cup Holding \cup Creating
          /\ "find" \notin {"unmap", "protect", "load", "change", "invlpg"}
    BY DEF PcLabels, Holding, Creating
  <2>2. Page(c)[1] = 4
    BY <1>1, <1>5, TestDomains DEF BaseInv, DirectoryInv
  <2> QED BY <1>1, <1>2, <1>3, <1>5, <2>1, <2>2, BootedFrame DEF shared, BaseInv, TestsTypeOK, Goto
<1> QED BY <1>4, <1>5 DEF MapCheck

LEMMA MapFindTest ==
  ASSUME BaseInv, Booted, NEW c \in Contexts, MapFind(c)
  PROVE  BaseInv' /\ Booted'
<1>1. script[c] # <<>> /\ This(c).op = "map" /\ Page(c)[1] = 4
  BY DEF MapFind, BaseInv, ScriptInv, HoldInv, Making
<1>2. UNCHANGED <<shared, cursor, loaded, history>> /\ found[c] \in Tables \cup {None}
  BY DEF MapFind, BaseInv, TestsTypeOK
<1>3. Booted' => MapOK'
  BY <1>2, MapKept DEF shared
<1>4. CASE Returns(c, FALSE) /\ UNCHANGED found
  <2>1. "call" \in PcLabels \ {"off"} /\ "call" \notin Making \cup {"fetch"} \cup Holding
          /\ "call" \notin Creating
    BY DEF PcLabels, Making, Holding, Creating
  <2>2. found' = [found EXCEPT ![c] = found[c]]
    BY <1>4 DEF BaseInv, TestsTypeOK
  <2>3. /\ pc' = [pc EXCEPT ![c] = "call"] /\ failed' \subseteq Contexts
        /\ \E s \in Seq(TestCalls) : script' = [script EXCEPT ![c] = s]
    BY <1>1, <1>4, ReturnsTest
  <2> QED BY <1>2, <1>3, <2>1, <2>2, <2>3, BootedFrame DEF shared, history, BaseInv, TestsTypeOK
<1>5. ASSUME NEW t \in DynamicTables, found' = [found EXCEPT ![c] = t], Goto(c, "claim"),
             UNCHANGED <<script, failed>>
      PROVE  BaseInv' /\ Booted'
  <2>1. "claim" \in PcLabels \ {"off"} /\ "claim" \notin {"fetch"} \cup Holding
          /\ "claim" \notin {"unmap", "protect", "load", "change", "invlpg"}
    BY DEF PcLabels, Holding
  <2>2. t \in Tables \cup {None}
    BY TestDomains
  <2> QED BY <1>1, <1>2, <1>3, <1>5, <2>1, <2>2, BootedFrame
          DEF shared, history, BaseInv, TestsTypeOK, Goto
<1> QED BY <1>4, <1>5 DEF MapFind, Allocatable

LEMMA MapClaimTest ==
  ASSUME BaseInv, Booted, NEW c \in Contexts, MapClaim(c)
  PROVE  BaseInv' /\ Booted'
<1>1. /\ script[c] # <<>> /\ This(c).op = "map" /\ Page(c)[1] = 4 /\ found[c] \in DynamicTables
      /\ script' = script
  BY DEF MapClaim, BaseInv, ScriptInv, HoldInv, Making, Creating
<1>2. /\ UNCHANGED <<page_directory, tables, tlb, loaded, failed, history>>
      /\ found' = [found EXCEPT ![c] = found[c]] /\ found[c] \in Tables \cup {None}
      /\ cursor' \in [Contexts -> Indexes] /\ dynamic_table_used' \subseteq DynamicTables
      /\ pc' = [pc EXCEPT ![c] = "clear"]
  BY <1>1, TestDomains DEF MapClaim, BaseInv, TestsTypeOK, Taken, Goto
<1>3. Booted' => MapOK'
  BY <1>2, MapKept
<1>4. "clear" \in PcLabels \ {"off"} /\ "clear" \notin {"fetch"} \cup Holding
        /\ "clear" \notin {"unmap", "protect", "load", "change", "invlpg"}
  BY DEF PcLabels, Holding
<1> QED BY <1>1, <1>2, <1>3, <1>4, BootedFrame DEF history, BaseInv, TestsTypeOK

LEMMA MapClearTest ==
  ASSUME BaseInv, Booted, NEW c \in Contexts, MapClear(c)
  PROVE  BaseInv' /\ Booted'
<1>1. /\ script[c] # <<>> /\ This(c).op = "map" /\ Page(c)[1] = 4 /\ found[c] \in DynamicTables
      /\ script' = script
  BY DEF MapClear, BaseInv, ScriptInv, HoldInv, Making, Creating
<1>2. cursor[c] \in Indexes /\ (cursor[c] + 1) % TABLE_ENTRIES \in Indexes
  <2>1. cursor[c] \in Indexes /\ TABLE_ENTRIES \in Nat \ {0}
    BY PagingAssumption DEF BaseInv, TestsTypeOK
  <2> QED BY <2>1 DEF Indexes
<1>3. /\ UNCHANGED <<page_directory, dynamic_table_used, tlb, loaded, failed, history>>
      /\ tables' = [tables EXCEPT ![found[c]][cursor[c]] = NoEntry]
      /\ found' = [found EXCEPT ![c] = found[c]] /\ found[c] \in Tables \cup {None}
      /\ cursor' \in [Contexts -> Indexes]
  BY <1>1, <1>2, TestDomains DEF MapClear, BaseInv, TestsTypeOK
<1>4. Booted' => MapOK'
  <2>1. NoEntry \in Stored /\ "user" \notin NoEntry.flags
    BY DEF NoEntry, Stored
  <2> QED BY <1>1, <1>2, <1>3, <2>1, MapStored, TestDomains
<1>5. {"clear", "install"} \subseteq PcLabels \ {"off"}
        /\ \A l \in {"clear", "install"} : l \notin {"fetch"} \cup Holding
              /\ l \notin {"unmap", "protect", "load", "change", "invlpg"}
  BY DEF PcLabels, Holding
<1>6. PICK l \in {"clear", "install"} : pc' = [pc EXCEPT ![c] = l]
  BY DEF MapClear, Goto
<1> QED BY <1>1, <1>3, <1>4, <1>5, <1>6, BootedFrame DEF history, BaseInv, TestsTypeOK

LEMMA MapInstallTest ==
  ASSUME BaseInv, Booted, NEW c \in Contexts, MapInstall(c)
  PROVE  BaseInv' /\ Booted'
<1>1. /\ script[c] # <<>> /\ This(c).op = "map" /\ Page(c)[1] = 4 /\ found[c] \in DynamicTables
      /\ script' = script
  BY DEF MapInstall, BaseInv, ScriptInv, HoldInv, Making, Creating
<1>2. /\ UNCHANGED <<tables, dynamic_table_used, tlb, cursor, loaded, failed, history>>
      /\ found' = [found EXCEPT ![c] = found[c]] /\ found[c] \in Tables \cup {None}
      /\ page_directory' = [page_directory EXCEPT ![4] =
                              [present |-> TRUE, table |-> found[c], user |-> FALSE]]
      /\ pc' = [pc EXCEPT ![c] = "fetch"]
  BY <1>1, TestDomains DEF MapInstall, BaseInv, TestsTypeOK, Goto
<1>3. Booted' => MapOK'
  BY <1>1, <1>2, MapInstalled
<1>4. /\ \A s \in Slots : page_directory[s].present => page_directory'[s].present
      /\ page_directory'[4].present
  <2> DEFINE new == [present |-> TRUE, table |-> found[c], user |-> FALSE]
  <2>1. new.present
    OBVIOUS
  <2> HIDE DEF new
  <2>2. page_directory' = [page_directory EXCEPT ![4] = new]
    BY <1>2 DEF new
  <2> QED BY <2>1, <2>2, TestDomains DEF BaseInv, TestsTypeOK
<1>5. "fetch" \in PcLabels \ {"off"} /\ "fetch" \notin Making \cup Holding \cup Creating
        /\ "fetch" \notin {"unmap", "protect", "load", "change", "invlpg"}
  BY DEF PcLabels, Making, Holding, Creating
<1> QED BY <1>1, <1>2, <1>3, <1>4, <1>5, BootedFrame DEF history, BaseInv, TestsTypeOK

(* A slot whose user bit is not asked for stays as it is.                  *)
LEMMA PromotedKept ==
  ASSUME BaseInv, NEW s \in Slots, NEW flags, "user" \notin flags,
         page_directory' = [page_directory EXCEPT ![s] = Promoted(@, flags)]
  PROVE  page_directory' = page_directory
<1>1. page_directory \in [Slots -> [present : BOOLEAN, table : Tables, user : BOOLEAN]]
  BY DEF BaseInv, TestsTypeOK
<1>2. ASSUME NEW d \in [present : BOOLEAN, table : Tables, user : BOOLEAN]
      PROVE  Promoted(d, flags) = d
  BY DEF Promoted
<1>3. Promoted(page_directory[s], flags) = page_directory[s]
  BY <1>1, <1>2
<1> QED BY <1>1, <1>3

LEMMA MapFetchTest ==
  ASSUME BaseInv, Booted, NEW c \in Contexts, MapFetch(c)
  PROVE  BaseInv' /\ Booted'
<1>1. /\ script[c] # <<>> /\ This(c).op = "map" /\ page_directory[Page(c)[1]].present
      /\ script' = script
  BY DEF MapFetch, BaseInv, ScriptInv, HoldInv
<1>2. Page(c)[1] \in Slots /\ Page(c)[1] \in {3, 4} /\ "user" \notin This(c).flags
  BY <1>1, TestHead, HeadTyped DEF BaseInv
<1>3. page_directory' = page_directory
  BY <1>2, PromotedKept DEF MapFetch
<1>4. /\ UNCHANGED <<tables, dynamic_table_used, tlb, cursor, loaded, failed, history>>
      /\ found' = [found EXCEPT ![c] = page_directory[Page(c)[1]].table]
      /\ page_directory[Page(c)[1]].table \in Tables
      /\ pc' = [pc EXCEPT ![c] = "store"]
  BY <1>2 DEF MapFetch, BaseInv, TestsTypeOK, Goto
<1>5. IF Page(c)[1] \in PageTables THEN page_directory[Page(c)[1]].table = Page(c)[1]
      ELSE page_directory[Page(c)[1]].table \in DynamicTables
  BY <1>1, <1>2 DEF BaseInv, DirectoryInv
<1>6. Booted' => MapOK'
  BY <1>3, <1>4, MapKept
<1>7. "store" \in PcLabels \ {"off"} /\ "store" \notin Making \cup Creating
        /\ "store" \notin {"unmap", "protect", "load", "change", "invlpg"}
  BY DEF PcLabels, Making, Creating
<1> QED BY <1>1, <1>3, <1>4, <1>5, <1>6, <1>7, BootedFrame DEF history, BaseInv, TestsTypeOK

(* The entry a test stores reaches a page of its own.                      *)
LEMMA TestStores ==
  ASSUME BaseInv, Booted, Booted', NEW c \in Contexts, pc[c] \in Holding, NEW e \in Stored,
         e.flags \subseteq This(c).flags, page_directory' = page_directory,
         tables' = [tables EXCEPT ![found[c]][Page(c)[2]] = e]
  PROVE  MapOK'
<1>1. script[c] # <<>>
  BY DEF BaseInv, ScriptInv, Holding
<1>2. /\ "user" \notin This(c).flags /\ Page(c)[2] \in Indexes
      /\ (Page(c)[1] = 3 /\ Page(c)[2] = 1) \/ Page(c)[1] = 4
  BY <1>1, TestHead, HeadTyped DEF BaseInv
<1>3. found[c] \in Tables /\ ((found[c] = 3 /\ Page(c)[2] = 1) \/ found[c] \in DynamicTables)
  BY <1>2, TestDomains DEF BaseInv, HoldInv
<1> QED BY <1>2, <1>3, MapStored

LEMMA StoredCall ==
  ASSUME BaseInv, NEW c \in Contexts, script[c] # <<>>, NEW f \in Frames
  PROVE  /\ Entry(f, Masked(This(c).flags)) \in Stored /\ Masked(This(c).flags) \in SUBSET Rights
         /\ Entry(f, Masked(This(c).flags)).flags \subseteq This(c).flags
         /\ NoEntry \in Stored /\ NoEntry.flags \subseteq This(c).flags
<1>1. Masked(This(c).flags) = This(c).flags /\ This(c).flags \in SUBSET Rights
  BY HeadTyped DEF BaseInv
<1>2. \A r : Entry(f, r).flags = r
  BY DEF Entry
<1>3. NoEntry.flags = {}
  BY DEF NoEntry
<1> QED BY <1>1, <1>2, <1>3 DEF Stored

LEMMA MapStoreTest ==
  ASSUME BaseInv, Booted, NEW c \in Contexts, MapStore(c)
  PROVE  BaseInv' /\ Booted'
<1>1. /\ script[c] # <<>> /\ This(c).op = "map" /\ script' = script /\ pc[c] \in Holding
  BY DEF MapStore, BaseInv, ScriptInv, Holding
<1>2. /\ UNCHANGED <<page_directory, dynamic_table_used, tlb, cursor, loaded, failed, history>>
      /\ found' = [found EXCEPT ![c] = found[c]] /\ found[c] \in Tables \cup {None}
      /\ pc' = [pc EXCEPT ![c] = "invlpg"]
  BY DEF MapStore, BaseInv, TestsTypeOK, Goto
<1>3. Booted' => MapOK'
  <2>1. This(c).frame \in Frames
    BY <1>1, HeadTyped DEF BaseInv
  <2> QED BY <1>1, <1>2, <2>1, StoredCall, TestStores DEF MapStore
<1>4. "invlpg" \in PcLabels \ {"off"} /\ "invlpg" \notin Making \cup Creating
        /\ "invlpg" \notin {"unmap", "protect", "load", "change", "fetch"} \cup Holding
  BY DEF PcLabels, Making, Creating, Holding
<1> QED BY <1>1, <1>2, <1>3, <1>4, BootedFrame DEF history, BaseInv, TestsTypeOK, Changes

LEMMA InvalidateTest ==
  ASSUME BaseInv, Booted, NEW c \in Contexts, Invalidate(c)
  PROVE  BaseInv' /\ Booted'
<1>1. script[c] # <<>>
  BY DEF Invalidate, BaseInv, ScriptInv
<1>2. /\ UNCHANGED <<page_directory, tables, dynamic_table_used, cursor, loaded, history>>
      /\ tlb' \subseteq tlb
      /\ found' = [found EXCEPT ![c] = found[c]] /\ found[c] \in Tables \cup {None}
      /\ pc' = [pc EXCEPT ![c] = "call"] /\ failed' \subseteq Contexts
      /\ \E s \in Seq(TestCalls) : script' = [script EXCEPT ![c] = s]
  BY <1>1, ReturnsTest DEF Invalidate, BaseInv, TestsTypeOK, invalidate_page
<1>3. Booted' => MapOK'
  BY <1>2, MapKept
<1>4. "call" \in PcLabels \ {"off"} /\ "call" \notin Making \cup {"fetch"} \cup Holding
        /\ "call" \notin Creating
  BY DEF PcLabels, Making, Holding, Creating
<1> QED BY <1>1, <1>2, <1>3, <1>4, BootedFrame DEF history, BaseInv, TestsTypeOK

(* A call that ends without a change.                                      *)
LEMMA AnswersTest ==
  ASSUME BaseInv, Booted, NEW c \in Contexts, script[c] # <<>>, NEW answer, Returns(c, answer),
         UNCHANGED <<shared, found, cursor, loaded, history>>
  PROVE  BaseInv' /\ Booted'
<1>1. /\ found' = [found EXCEPT ![c] = found[c]] /\ found[c] \in Tables \cup {None}
      /\ pc' = [pc EXCEPT ![c] = "call"] /\ failed' \subseteq Contexts
      /\ \E s \in Seq(TestCalls) : script' = [script EXCEPT ![c] = s]
  BY ReturnsTest DEF BaseInv, TestsTypeOK
<1>2. Booted' => MapOK'
  BY MapKept DEF shared
<1>3. "call" \in PcLabels \ {"off"} /\ "call" \notin Making \cup {"fetch"} \cup Holding
        /\ "call" \notin Creating
  BY DEF PcLabels, Making, Holding, Creating
<1> QED BY <1>1, <1>2, <1>3, BootedFrame DEF history, shared, BaseInv, TestsTypeOK

LEMMA FetchTableTest ==
  ASSUME BaseInv, Booted, NEW c \in Contexts, FetchTable(c)
  PROVE  BaseInv' /\ Booted'
<1>1. script[c] # <<>> /\ This(c).op \in {"unmap", "protect"}
  BY DEF FetchTable, Calls
<1>2. CASE Returns(c, FALSE) /\ UNCHANGED found
  BY <1>1, <1>2, AnswersTest DEF FetchTable, history
<1>3. CASE /\ page_directory[Page(c)[1]].present
           /\ found' = [found EXCEPT ![c] = page_directory[Page(c)[1]].table]
           /\ Goto(c, This(c).op) /\ UNCHANGED <<script, failed>>
  <2>1. Page(c)[1] \in Slots /\ Page(c)[1] \in {3, 4}
    BY <1>1, TestHead, HeadTyped DEF BaseInv
  <2>2. IF Page(c)[1] \in PageTables THEN page_directory[Page(c)[1]].table = Page(c)[1]
        ELSE page_directory[Page(c)[1]].table \in DynamicTables
    BY <1>3, <2>1 DEF BaseInv, DirectoryInv
  <2>3. /\ UNCHANGED <<shared, cursor, loaded, history>>
        /\ page_directory[Page(c)[1]].table \in Tables \cup {None}
        /\ pc' = [pc EXCEPT ![c] = This(c).op]
    BY <1>3, <2>1 DEF FetchTable, BaseInv, TestsTypeOK, Goto
  <2>4. Booted' => MapOK'
    BY <2>3, MapKept DEF shared
  <2>5. This(c).op \in PcLabels \ {"off"} /\ This(c).op \notin Making \cup Creating
          /\ This(c).op \notin {"load", "change", "invlpg", "fetch", "store"}
          /\ (This(c).op = "unmap" => This(c).op # "protect")
    BY <1>1 DEF PcLabels, Making, Creating
  <2> QED BY <1>1, <1>3, <2>2, <2>3, <2>4, <2>5, BootedFrame DEF shared, history, BaseInv, TestsTypeOK
<1> QED BY <1>2, <1>3 DEF FetchTable

LEMMA ClearEntryTest ==
  ASSUME BaseInv, Booted, NEW c \in Contexts, ClearEntry(c)
  PROVE  BaseInv' /\ Booted'
<1>1. /\ script[c] # <<>> /\ This(c).op = "unmap" /\ script' = script /\ pc[c] \in Holding
  BY DEF ClearEntry, BaseInv, ScriptInv, Holding
<1>2. /\ UNCHANGED <<page_directory, dynamic_table_used, tlb, cursor, loaded, failed, history>>
      /\ found' = [found EXCEPT ![c] = found[c]] /\ found[c] \in Tables \cup {None}
      /\ pc' = [pc EXCEPT ![c] = "invlpg"]
  BY DEF ClearEntry, BaseInv, TestsTypeOK, Goto
<1>3. Booted' => MapOK'
  <2>1. This(c).frame \in Frames
    BY <1>1, HeadTyped DEF BaseInv
  <2> QED BY <1>1, <1>2, <2>1, StoredCall, TestStores DEF ClearEntry
<1>4. "invlpg" \in PcLabels \ {"off"} /\ "invlpg" \notin Making \cup Creating
        /\ "invlpg" \notin {"unmap", "protect", "load", "change", "fetch"} \cup Holding
  BY DEF PcLabels, Making, Creating, Holding
<1> QED BY <1>1, <1>2, <1>3, <1>4, BootedFrame DEF history, BaseInv, TestsTypeOK, Changes

LEMMA CheckEntryTest ==
  ASSUME BaseInv, Booted, NEW c \in Contexts, CheckEntry(c)
  PROVE  BaseInv' /\ Booted'
<1>1. /\ script[c] # <<>> /\ This(c).op = "protect" /\ pc[c] \in Holding
  BY DEF CheckEntry, BaseInv, ScriptInv, Holding
<1>2. CASE Returns(c, FALSE)
  BY <1>1, <1>2, AnswersTest DEF CheckEntry
<1>3. CASE Goto(c, "load") /\ UNCHANGED <<script, failed>>
  <2>1. /\ UNCHANGED <<shared, cursor, loaded, history>>
        /\ found' = [found EXCEPT ![c] = found[c]] /\ found[c] \in Tables \cup {None}
        /\ pc' = [pc EXCEPT ![c] = "load"]
    BY <1>3 DEF CheckEntry, BaseInv, TestsTypeOK, Goto
  <2>2. Booted' => MapOK'
    BY <2>1, MapKept DEF shared
  <2>3. "load" \in PcLabels \ {"off"} /\ "load" \notin Making \cup Creating
          /\ "load" \notin {"unmap", "invlpg", "fetch", "store"}
    BY DEF PcLabels, Making, Creating
  <2>4. page_directory[Page(c)[1]].present /\
        IF Page(c)[1] \in PageTables THEN found[c] = Page(c)[1] ELSE found[c] \in DynamicTables
    BY <1>1 DEF BaseInv, HoldInv
  <2> QED BY <1>1, <1>3, <2>1, <2>2, <2>3, <2>4, BootedFrame DEF shared, history, BaseInv, TestsTypeOK
<1> QED BY <1>2, <1>3 DEF CheckEntry

LEMMA LoadEntryTest ==
  ASSUME BaseInv, Booted, NEW c \in Contexts, LoadEntry(c)
  PROVE  BaseInv' /\ Booted'
<1>1. /\ script[c] # <<>> /\ This(c).op = "protect" /\ script' = script /\ pc[c] \in Holding
  BY DEF LoadEntry, BaseInv, ScriptInv, Holding
<1>2. /\ Page(c)[1] \in Slots /\ Page(c)[1] \in {3, 4} /\ Page(c)[2] \in Indexes
      /\ "user" \notin This(c).flags
  BY <1>1, TestHead, HeadTyped DEF BaseInv
<1>3. page_directory' = page_directory
  BY <1>2, PromotedKept DEF LoadEntry
<1>4. page_directory[Page(c)[1]].present /\
      IF Page(c)[1] \in PageTables THEN found[c] = Page(c)[1] ELSE found[c] \in DynamicTables
  BY <1>1 DEF BaseInv, HoldInv
<1>5. FoundEntry(c) \in Entries
  BY <1>2, <1>4, TestDomains DEF FoundEntry, BaseInv, TestsTypeOK
<1>6. /\ UNCHANGED <<tables, dynamic_table_used, tlb, cursor, failed, history>>
      /\ found' = [found EXCEPT ![c] = found[c]] /\ found[c] \in Tables \cup {None}
      /\ pc' = [pc EXCEPT ![c] = "change"] /\ loaded' \in [Contexts -> Entries]
  BY <1>5 DEF LoadEntry, BaseInv, TestsTypeOK, Goto
<1>7. Booted' => MapOK'
  BY <1>3, <1>6, MapKept
<1>8. "change" \in PcLabels \ {"off"} /\ "change" \notin Making \cup Creating
        /\ "change" \notin {"unmap", "invlpg", "fetch", "store"}
  BY DEF PcLabels, Making, Creating
<1> QED BY <1>1, <1>3, <1>4, <1>6, <1>7, <1>8, BootedFrame DEF history, BaseInv, TestsTypeOK

LEMMA ChangeFlagsTest ==
  ASSUME BaseInv, Booted, NEW c \in Contexts, ChangeFlags(c)
  PROVE  BaseInv' /\ Booted'
<1>1. /\ script[c] # <<>> /\ This(c).op = "protect" /\ script' = script /\ pc[c] \in Holding
  BY DEF ChangeFlags, BaseInv, ScriptInv, Holding
<1>2. loaded[c].frame \in Frames
  BY DEF BaseInv, TestsTypeOK, Entries
<1>3. /\ UNCHANGED <<page_directory, dynamic_table_used, tlb, cursor, failed, history>>
      /\ found' = [found EXCEPT ![c] = found[c]] /\ found[c] \in Tables \cup {None}
      /\ pc' = [pc EXCEPT ![c] = "invlpg"] /\ loaded' \in [Contexts -> Entries]
  BY EntryTypes DEF ChangeFlags, BaseInv, TestsTypeOK, Goto
<1>4. Booted' => MapOK'
  BY <1>1, <1>2, <1>3, StoredCall, TestStores DEF ChangeFlags
<1>5. "invlpg" \in PcLabels \ {"off"} /\ "invlpg" \notin Making \cup Creating
        /\ "invlpg" \notin {"unmap", "protect", "load", "change", "fetch"} \cup Holding
  BY DEF PcLabels, Making, Creating, Holding
<1> QED BY <1>1, <1>3, <1>4, <1>5, BootedFrame DEF history, BaseInv, TestsTypeOK, Changes

LEMMA ReadTest ==
  ASSUME BaseInv, Booted, NEW c \in Contexts, Read(c)
  PROVE  BaseInv' /\ Booted'
<1>1. script[c] # <<>> /\ UNCHANGED <<shared, found, cursor, loaded, history>>
        /\ \E answer : Returns(c, answer)
  BY DEF Read, Calls
<1> QED BY <1>1, AnswersTest

LEMMA StepBooted ==
  ASSUME BaseInv, Booted, NEW c \in Contexts, Enter(c) \/ KernelStep(c)
  PROVE  BaseInv' /\ Booted'
BY EnterTest, FinishTest, MapCheckTest, MapFindTest, MapClaimTest, MapClearTest, MapInstallTest,
   MapFetchTest, MapStoreTest, InvalidateTest, FetchTableTest, ClearEntryTest, CheckEntryTest,
   LoadEntryTest, ChangeFlagsTest, ReadTest
   DEF KernelStep

-----------------------------------------------------------------------------
(* The boot.                                                               *)
OpenTo(l, n)  == IF l \in {"store", "invlpg"} THEN n ELSE n - 1
EnterTo(l, n) == IF l = "invlpg" THEN n ELSE n - 1

LEMMA BootLabels ==
  ASSUME NEW n \in 1..4
  PROVE  /\ OpenTo("call", n) = n - 1 /\ EnterTo("call", n) = n - 1
         /\ OpenTo("fetch", n) = n - 1 /\ EnterTo("fetch", n) = n - 1
         /\ OpenTo("store", n) = n /\ EnterTo("store", n) = n - 1
         /\ OpenTo("invlpg", n) = n /\ EnterTo("invlpg", n) = n
BY DEF OpenTo, EnterTo

LEMMA BootAt ==
  ASSUME BaseInv, ~Booted, NEW n \in 1..4, script[0] = Rest(n)
  PROVE  /\ \A m \in 1..3 : /\ Opened(m) <=> m <= OpenTo(pc[0], n)
                            /\ Entered(m) <=> m <= EnterTo(pc[0], n)
         /\ n = 4 => script[0] = <<>>
         /\ n # 4 => /\ script[0] # <<>> /\ Head(script[0]) = user_mode_init[n]
                     /\ Tail(script[0]) = Rest(n + 1)
<1>1. \A k \in 1..4 : script[0] = Rest(k) => k = n
  BY RestTells
<1>2. \A m \in 1..3 : /\ Opened(m) <=> m <= OpenTo(pc[0], n)
                      /\ Entered(m) <=> m <= EnterTo(pc[0], n)
  BY <1>1 DEF Opened, Entered, OpenTo, EnterTo
<1>3. n = 4 => script[0] = <<>>
  BY BootCalls
<1>4. n # 4 => /\ script[0] # <<>> /\ Head(script[0]) = user_mode_init[n]
               /\ Tail(script[0]) = Rest(n + 1)
  <2>1. n # 4 => n \in 1..3
    OBVIOUS
  <2> QED BY <2>1, RestHead
<1> QED BY <1>2, <1>3, <1>4

(* What a step of the boot must see to.                                    *)
LEMMA BootFrame ==
  ASSUME BaseInv, ~Booted, NEW k \in 1..4, script' = [script EXCEPT ![0] = Rest(k)],
         NEW l \in {"call", "fetch", "store", "invlpg"}, pc' = [pc EXCEPT ![0] = l],
         l # "call" => k \in 1..3,
         found' \in [Contexts -> Tables \cup {None}],
         l = "store" => found'[0] = user_mode_init[k].page[1],
         page_directory' \in [Slots -> [present : BOOLEAN, table : Tables, user : BOOLEAN]],
         tables' \in [Tables -> [Indexes -> Entries]],
         \A u \in Tables, i \in Indexes : tables'[u][i].present \/ tables'[u][i] = NoEntry,
         DirectoryInv', EntriesInv',
         \A m \in 1..3 : m <= OpenTo(l, k) => page_directory'[user_mode_init[m].page[1]].user,
         \A m \in 1..3 : m <= EnterTo(l, k) =>
           tables'[user_mode_init[m].page[1]][user_mode_init[m].page[2]]
             = Entry(user_mode_init[m].frame, user_mode_init[m].flags),
         tlb' \subseteq tlb, failed' \subseteq Contexts,
         UNCHANGED <<dynamic_table_used, cursor, loaded, disturbed, raced>>
  PROVE  BaseInv'
<1>1. pc \in [Contexts -> PcLabels] /\ script \in [Contexts -> Seq(AllCalls)]
        /\ 0 \in Contexts /\ 1 \in Contexts
  BY DEF BaseInv, TestsTypeOK, Contexts
<1>2. /\ pc'[0] = l /\ pc'[1] = pc[1] /\ script'[0] = Rest(k) /\ script'[1] = script[1]
      /\ pc[1] = "off" /\ ~Booted'
  BY <1>1 DEF Booted
<1>3. \A c \in Contexts : c = 0 \/ c = 1
  BY DEF Contexts
<1>4. \A j \in 1..4 : script'[0] = Rest(j) => j = k
  BY <1>2, RestTells
<1>5. TestsTypeOK'
  <2>1. Rest(k) \in Seq(AllCalls)
    <3>1. k = 4 \/ k \in 1..3
      OBVIOUS
    <3> QED BY <3>1, BootCalls
  <2>2. script' \in [Contexts -> Seq(AllCalls)]
    BY <1>1, <2>1
  <2>3. pc' \in [Contexts -> PcLabels]
    BY <1>1 DEF PcLabels
  <2> QED BY <2>2, <2>3 DEF BaseInv, TestsTypeOK
<1>6. l # "call" => script'[0] # <<>> /\ This(0)' = user_mode_init[k] /\ This(0)'.op = "map"
  <2> SUFFICES ASSUME l # "call"
               PROVE  script'[0] # <<>> /\ Head(script'[0]) = user_mode_init[k]
                        /\ Head(script'[0]).op = "map"
    BY DEF This
  <2>1. Rest(k) # <<>> /\ Head(Rest(k)) = user_mode_init[k] /\ user_mode_init[k].op = "map"
    BY RestHead
  <2> QED BY <1>2, <2>1
<1>7. ScriptInv'
  BY <1>2, <1>3, <1>6 DEF BaseInv, ScriptInv, Making, Changes
<1>8. BootInv'
  <2>1. \A m \in 1..3 : /\ Opened(m)' => m <= OpenTo(l, k)
                        /\ Entered(m)' => m <= EnterTo(l, k)
    BY <1>2, <1>4 DEF Opened, Entered, OpenTo, EnterTo
  <2> QED BY <2>1 DEF BootInv
<1>9. HoldInv'
  <2> SUFFICES ASSUME NEW c \in Contexts
               PROVE  /\ pc'[c] \in Making => Page(c)'[1] = 4
                      /\ pc'[c] \in Creating => found'[c] \in DynamicTables
                      /\ pc'[c] \in Holding \cup {"fetch"} => page_directory'[Page(c)'[1]].present
                      /\ pc'[c] \in Holding => IF Page(c)'[1] \in PageTables
                                               THEN found'[c] = Page(c)'[1]
                                               ELSE found'[c] \in DynamicTables
    BY DEF HoldInv
  <2>1. CASE c = 1
    BY <1>2, <2>1 DEF Making, Creating, Holding
  <2>2. CASE c = 0 /\ l = "call"
    BY <1>2, <2>2 DEF Making, Creating, Holding
  <2>3. CASE c = 0 /\ l # "call"
    <3>1. Page(c)' = user_mode_init[k].page /\ k \in 1..3
      BY <1>6, <2>3 DEF Page
    <3>2. Page(c)'[1] \in PageTables
      BY <3>1, BootCalls, TestDomains
    <3>3. page_directory'[Page(c)'[1]].present
      BY <3>2 DEF DirectoryInv
    <3> QED BY <1>2, <2>3, <3>1, <3>2, <3>3 DEF Making, Creating, Holding
  <2> QED BY <1>3, <2>1, <2>2, <2>3
<1> QED BY <1>5, <1>7, <1>8, <1>9 DEF BaseInv

LEMMA StepBoot ==
  ASSUME BaseInv, ~Booted, NEW c \in Contexts, Enter(c) \/ KernelStep(c)
  PROVE  BaseInv'
<1>1. /\ pc[1] = "off" /\ script[1] = <<>> /\ pc[0] \in {"call", "fetch", "store", "invlpg"}
      /\ (c = 0 \/ c = 1)
  BY DEF Booted, BaseInv, ScriptInv, Contexts
<1>2. PICK n \in 1..4 : script[0] = Rest(n)
  BY DEF BaseInv, ScriptInv
<1>3. /\ \A m \in 1..3 :
           /\ Opened(m) <=> m <= OpenTo(pc[0], n)
           /\ Entered(m) <=> m <= EnterTo(pc[0], n)
      /\ n = 4 => script[0] = <<>>
      /\ n # 4 => /\ script[0] # <<>> /\ Head(script[0]) = user_mode_init[n]
                  /\ Tail(script[0]) = Rest(n + 1)
  BY <1>2, BootAt
<1>4. script[0] # <<>> =>
        /\ n \in 1..3 /\ n + 1 \in 1..4 /\ This(0) = user_mode_init[n] /\ This(0).op = "map"
        /\ Page(0) = user_mode_init[n].page /\ Page(0)[1] \in {1, 2} /\ Page(0)[2] \in Indexes
        /\ Page(0)[1] \in PageTables /\ page_directory[Page(0)[1]].present
        /\ page_directory[Page(0)[1]].table = Page(0)[1]
        /\ This(0).expect = TRUE
  <2>1. script[0] # <<>> => n \in 1..3 /\ n + 1 \in 1..4
    BY <1>3
  <2> SUFFICES ASSUME script[0] # <<>>
               PROVE  /\ This(0) = user_mode_init[n] /\ This(0).op = "map"
                      /\ Page(0) = user_mode_init[n].page /\ Page(0)[1] \in {1, 2}
                      /\ Page(0)[2] \in Indexes /\ Page(0)[1] \in PageTables
                      /\ page_directory[Page(0)[1]].present
                      /\ page_directory[Page(0)[1]].table = Page(0)[1]
                      /\ This(0).expect = TRUE
    BY <2>1
  <2>2. This(0) = user_mode_init[n] /\ Page(0) = user_mode_init[n].page
    BY <1>3, <2>1 DEF This, Page
  <2>3. /\ user_mode_init[n].op = "map" /\ user_mode_init[n].expect = TRUE
        /\ user_mode_init[n].page[1] \in {1, 2} /\ user_mode_init[n].page[2] \in Indexes
    BY <2>1, BootCalls
  <2>4. {1, 2} \subseteq PageTables
    BY TestDomains
  <2> QED BY <2>2, <2>3, <2>4 DEF BaseInv, DirectoryInv
<1>5. pc[0] # "call" => script[0] # <<>>
  BY <1>1 DEF BaseInv, ScriptInv, Contexts
<1>6. /\ pc \in [Contexts -> PcLabels] /\ script \in [Contexts -> Seq(AllCalls)]
      /\ found \in [Contexts -> Tables \cup {None}] /\ 0 \in Contexts
      /\ page_directory \in [Slots -> [present : BOOLEAN, table : Tables, user : BOOLEAN]]
      /\ tables \in [Tables -> [Indexes -> Entries]]
      /\ \A t \in Tables, i \in Indexes : tables[t][i].present \/ tables[t][i] = NoEntry
      /\ failed \subseteq Contexts
  BY DEF BaseInv, TestsTypeOK, Contexts
<1>7. script = [script EXCEPT ![0] = Rest(n)]
  BY <1>2, <1>6
<1>8. /\ \A m \in 1..3 : m <= OpenTo(pc[0], n) =>
           page_directory[user_mode_init[m].page[1]].user
      /\ \A m \in 1..3 : m <= EnterTo(pc[0], n) =>
           tables[user_mode_init[m].page[1]][user_mode_init[m].page[2]]
             = Entry(user_mode_init[m].frame, user_mode_init[m].flags)
      /\ DirectoryInv /\ EntriesInv
  BY <1>3 DEF BaseInv, BootInv
<1>9. CASE Finish(c)
  <2>1. c = 0 /\ script[0] = <<>> /\ n = 4
    BY <1>1, <1>3, <1>9 DEF Finish
  <2>2. pc'[0] = "poll" /\ pc'[1] = "poll" /\ Booted'
    BY <1>1, <1>9, <2>1 DEF Finish, Contexts, Booted
  <2>3. \A d \in Contexts : pc'[d] = "poll" /\ script'[d] = <<>>
    BY <1>1, <1>9, <2>1, <2>2 DEF Finish, Contexts
  <2>4. UNCHANGED <<shared, script, found, cursor, loaded, raced>>
          /\ failed' \subseteq Contexts /\ disturbed' \subseteq Contexts
    BY <1>9, <1>6 DEF Finish, BaseInv, TestsTypeOK
  <2>5. TestsTypeOK'
    <3>1. pc' \in [Contexts -> PcLabels]
      BY <1>9 DEF Finish, BaseInv, TestsTypeOK, PcLabels
    <3> QED BY <2>4, <3>1 DEF BaseInv, TestsTypeOK, shared
  <2>6. ScriptInv'
    BY <2>2, <2>3, TestIsScript DEF ScriptInv, Contexts
  <2>7. BootInv'
    BY <1>8, <2>1, <2>4, <1>1 DEF BootInv, shared, OpenTo, EnterTo
  <2>8. DirectoryInv' /\ EntriesInv'
    BY <1>8, <2>4 DEF shared, DirectoryInv, EntriesInv
  <2>9. HoldInv'
    BY <2>3 DEF HoldInv, Making, Creating, Holding
  <2> QED BY <2>5, <2>6, <2>7, <2>8, <2>9 DEF BaseInv
<1>10. CASE MapCheck(c)
  <2>1. /\ c = 0 /\ pc[0] = "call" /\ script[0] # <<>>
        /\ pc' = [pc EXCEPT ![0] = "fetch"] /\ raced' = raced
    BY <1>1, <1>4, <1>10 DEF MapCheck, Calls, Goto
  <2>2. UNCHANGED <<shared, script, found, cursor, loaded, failed, disturbed>>
    BY <1>10 DEF MapCheck
  <2>3. found' \in [Contexts -> Tables \cup {None}]
    BY <1>6, <2>2
  <2>4. DirectoryInv' /\ EntriesInv'
    BY <1>8, <2>2 DEF shared, DirectoryInv, EntriesInv
  <2>5. /\ \A m \in 1..3 : m <= OpenTo("fetch", n) => page_directory'[user_mode_init[m].page[1]].user
        /\ \A m \in 1..3 : m <= EnterTo("fetch", n) =>
             tables'[user_mode_init[m].page[1]][user_mode_init[m].page[2]]
               = Entry(user_mode_init[m].frame, user_mode_init[m].flags)
    BY <1>4, <1>8, <2>1, <2>2, BootLabels DEF shared
  <2>6. /\ script' = [script EXCEPT ![0] = Rest(n)] /\ n \in 1..3
        /\ page_directory' \in [Slots -> [present : BOOLEAN, table : Tables, user : BOOLEAN]]
        /\ tables' \in [Tables -> [Indexes -> Entries]]
        /\ \A u \in Tables, i \in Indexes : tables'[u][i].present \/ tables'[u][i] = NoEntry
        /\ tlb' \subseteq tlb /\ failed' \subseteq Contexts
        /\ UNCHANGED <<dynamic_table_used, cursor, loaded, disturbed, raced>>
        /\ "fetch" \in {"call", "fetch", "store", "invlpg"}
    BY <1>4, <1>6, <1>7, <2>1, <2>2 DEF shared
  <2> QED BY <2>1, <2>3, <2>4, <2>5, <2>6, BootFrame
<1>11. CASE MapFetch(c)
  <2>1. c = 0 /\ pc[0] = "fetch" /\ script[0] # <<>>
    BY <1>1, <1>5, <1>11 DEF MapFetch
  <2>2. "user" \in This(0).flags /\ This(0).flags \subseteq Rights
    BY <1>4, <2>1, BootCalls
  <2>3. /\ UNCHANGED <<tables, dynamic_table_used, tlb, script, cursor, loaded, failed, history>>
        /\ found' \in [Contexts -> Tables \cup {None}] /\ found'[0] = Page(0)[1]
        /\ pc' = [pc EXCEPT ![0] = "store"]
    BY <1>4, <1>6, <1>11, <2>1, TestDomains DEF MapFetch, Goto
  <2>4. /\ \A s \in Slots : page_directory'[s] =
             IF s = Page(0)[1] THEN Promoted(page_directory[s], This(0).flags)
             ELSE page_directory[s]
        /\ DOMAIN page_directory' = Slots
    BY <1>6, <1>11, <2>1 DEF MapFetch
  <2>5. ASSUME NEW d \in [present : BOOLEAN, table : Tables, user : BOOLEAN]
        PROVE  /\ Promoted(d, This(0).flags).present = d.present
               /\ Promoted(d, This(0).flags).table = d.table
               /\ Promoted(d, This(0).flags).user
               /\ Promoted(d, This(0).flags) \in [present : BOOLEAN, table : Tables, user : BOOLEAN]
    BY <2>2 DEF Promoted
  <2>6. /\ \A s \in Slots : /\ page_directory'[s].present = page_directory[s].present
                            /\ page_directory'[s].table = page_directory[s].table
                            /\ page_directory[s].user => page_directory'[s].user
                            /\ page_directory'[s].user =>
                                 page_directory[s].user \/ s = Page(0)[1]
                            /\ page_directory'[s] \in
                                 [present : BOOLEAN, table : Tables, user : BOOLEAN]
        /\ page_directory'[Page(0)[1]].user
    <3>1. Page(0)[1] \in Slots
      BY <1>4, <2>1, TestDomains
    <3> QED BY <1>6, <2>4, <2>5, <3>1
  <2>7. page_directory' \in [Slots -> [present : BOOLEAN, table : Tables, user : BOOLEAN]]
    <3>1. page_directory' = [s \in Slots |-> page_directory'[s]]
      BY <1>6, <1>11 DEF MapFetch
    <3> QED BY <2>6, <3>1
  <2>8. DirectoryInv'
    <3>1. \A s \in Slots : page_directory'[s].user => page_directory[s].user \/ s \in {1, 2}
      BY <1>4, <2>1, <2>6
    <3> QED BY <1>8, <2>6, <3>1, TestDomains DEF DirectoryInv
  <2>9. EntriesInv'
    <3>1. \A t \in Tables, i \in Indexes : <<t, i>> \in UserPages => t \in Slots
      BY BootCalls, TestDomains
    <3> QED BY <1>8, <2>3, <2>6, <3>1 DEF EntriesInv
  <2>10. \A m \in 1..3 : m <= n => page_directory'[user_mode_init[m].page[1]].user
    <3>1. \A m \in 1..3 : user_mode_init[m].page[1] \in Slots
      BY BootCalls, TestDomains
    <3> QED BY <1>4, <1>8, <2>1, <2>6, <3>1, BootLabels
  <2>11. /\ \A m \in 1..3 : m <= OpenTo("store", n) => page_directory'[user_mode_init[m].page[1]].user
         /\ \A m \in 1..3 : m <= EnterTo("store", n) =>
              tables'[user_mode_init[m].page[1]][user_mode_init[m].page[2]]
                = Entry(user_mode_init[m].frame, user_mode_init[m].flags)
    BY <1>4, <1>8, <2>1, <2>3, <2>10, BootLabels
  <2>12. /\ script' = [script EXCEPT ![0] = Rest(n)] /\ n \in 1..3
         /\ page_directory' \in [Slots -> [present : BOOLEAN, table : Tables, user : BOOLEAN]]
         /\ tables' \in [Tables -> [Indexes -> Entries]]
         /\ \A u \in Tables, i \in Indexes : tables'[u][i].present \/ tables'[u][i] = NoEntry
         /\ tlb' \subseteq tlb /\ failed' \subseteq Contexts
         /\ UNCHANGED <<dynamic_table_used, cursor, loaded, disturbed, raced>>
         /\ "store" \in {"call", "fetch", "store", "invlpg"} /\ pc' = [pc EXCEPT ![0] = "store"]
         /\ found'[0] = user_mode_init[n].page[1] /\ found' \in [Contexts -> Tables \cup {None}]
    BY <1>4, <1>6, <1>7, <2>1, <2>3, <2>7 DEF history
  <2> QED BY <2>8, <2>9, <2>11, <2>12, BootFrame
<1>12. CASE MapStore(c)
  <2>1. c = 0 /\ pc[0] = "store" /\ script[0] # <<>>
    BY <1>1, <1>5, <1>12 DEF MapStore
  <2>2. /\ found[0] = Page(0)[1] /\ Page(0)[1] \in Tables /\ This(0).frame \in Frames
        /\ Masked(This(0).flags) = This(0).flags /\ This(0).flags \in SUBSET Rights
    BY <1>4, <1>6, <2>1, HeadTyped, TestDomains DEF BaseInv, HoldInv, Holding
  <2>3. /\ UNCHANGED <<page_directory, dynamic_table_used, tlb, script, cursor, loaded, failed, history>>
        /\ tables' = [tables EXCEPT ![Page(0)[1]][Page(0)[2]] = Entry(This(0).frame, This(0).flags)]
        /\ found' \in [Contexts -> Tables \cup {None}] /\ pc' = [pc EXCEPT ![0] = "invlpg"]
    BY <1>6, <1>12, <2>1, <2>2 DEF MapStore, Goto
  <2>4. Entry(This(0).frame, This(0).flags) \in Stored
    BY <2>2 DEF Stored
  <2>5. /\ tables' \in [Tables -> [Indexes -> Entries]]
        /\ \A u \in Tables, j \in Indexes : tables'[u][j] =
             IF u = Page(0)[1] /\ j = Page(0)[2] THEN Entry(This(0).frame, This(0).flags)
             ELSE tables[u][j]
        /\ \A u \in Tables, j \in Indexes : tables'[u][j].present \/ tables'[u][j] = NoEntry
    BY <1>4, <2>1, <2>2, <2>3, <2>4, StoreTyped DEF BaseInv
  <2>6. /\ \A m \in 1..3 : /\ user_mode_init[m].page[1] \in Tables
                           /\ user_mode_init[m].page[2] \in Indexes
                           /\ user_mode_init[m].page = <<user_mode_init[m].page[1],
                                                         user_mode_init[m].page[2]>>
        /\ <<Page(0)[1], Page(0)[2]>> = Page(0) /\ Page(0) \in UserPages
        /\ \A m \in 1..3 : user_mode_init[m].page = Page(0) => m = n
    <3>1. ASSUME NEW m \in 1..3
          PROVE  /\ user_mode_init[m].page[1] \in Tables /\ user_mode_init[m].page[2] \in Indexes
                 /\ user_mode_init[m].page = <<user_mode_init[m].page[1], user_mode_init[m].page[2]>>
      <4>1. user_mode_init[m].page \in UserPages
        <5>1. m = 1 \/ m = 2 \/ m = 3
          OBVIOUS
        <5> QED BY <5>1, BootCalls
      <4>2. \A p \in UserPages : p = <<p[1], p[2]>> /\ p[1] \in {1, 2}
        BY BootCalls
      <4>3. {1, 2} \subseteq Tables
        BY TestDomains
      <4> QED BY <4>1, <4>2, <4>3, BootCalls
    <3>2. Page(0) = user_mode_init[n].page /\ n \in 1..3
      BY <1>4, <2>1
    <3>3. Page(0) \in UserPages
      <4>1. n = 1 \/ n = 2 \/ n = 3
        BY <3>2
      <4> QED BY <3>2, <4>1, BootCalls
    <3> QED BY <3>1, <3>2, <3>3, BootCalls
  <2>7. \A m \in 1..3 : m <= n =>
          tables'[user_mode_init[m].page[1]][user_mode_init[m].page[2]]
            = Entry(user_mode_init[m].frame, user_mode_init[m].flags)
    <3> SUFFICES ASSUME NEW m \in 1..3, m <= n
                 PROVE  tables'[user_mode_init[m].page[1]][user_mode_init[m].page[2]]
                          = Entry(user_mode_init[m].frame, user_mode_init[m].flags)
      OBVIOUS
    <3>1. CASE m = n
      BY <1>4, <2>1, <2>5, <2>6, <3>1
    <3>2. CASE m # n
      <4>1. m <= EnterTo(pc[0], n)
        BY <2>1, <3>2, BootLabels
      <4>2. ~(user_mode_init[m].page[1] = Page(0)[1] /\ user_mode_init[m].page[2] = Page(0)[2])
        BY <2>6, <3>2
      <4> QED BY <1>8, <2>5, <2>6, <4>1, <4>2
    <3> QED BY <3>1, <3>2
  <2>8. DirectoryInv'
    BY <1>8, <2>3 DEF DirectoryInv
  <2>9. EntriesInv'
    <3>1. page_directory[Page(0)[1]].user
      BY <1>4, <1>8, <2>1, BootLabels
    <3>2. \A u \in PageTables, j \in Indexes :
            <<u, j>> \in UserPages \cup {<<3, 1>>} \/ tables'[u][j] = Entry(<<u, j>>, {"writable"})
      <4> SUFFICES ASSUME NEW u \in PageTables, NEW j \in Indexes,
                          <<u, j>> \notin UserPages \cup {<<3, 1>>}
                   PROVE  tables'[u][j] = Entry(<<u, j>>, {"writable"})
        OBVIOUS
      <4>1. tables'[u][j] = tables[u][j]
        BY <2>5, <2>6, TestDomains
      <4> QED BY <1>8, <4>1 DEF EntriesInv
    <3>3. \A u \in Tables, j \in Indexes : "user" \in tables'[u][j].flags =>
            <<u, j>> \in UserPages /\ page_directory'[u].user
      <4> SUFFICES ASSUME NEW u \in Tables, NEW j \in Indexes, "user" \in tables'[u][j].flags
                   PROVE  <<u, j>> \in UserPages /\ page_directory[u].user
        BY <2>3
      <4>1. CASE u = Page(0)[1] /\ j = Page(0)[2]
        BY <2>6, <3>1, <4>1
      <4>2. CASE ~(u = Page(0)[1] /\ j = Page(0)[2])
        BY <1>8, <2>5, <4>2 DEF EntriesInv
      <4> QED BY <4>1, <4>2
    <3> QED BY <3>2, <3>3 DEF EntriesInv
  <2>10. /\ \A m \in 1..3 : m <= OpenTo("invlpg", n) => page_directory'[user_mode_init[m].page[1]].user
         /\ \A m \in 1..3 : m <= EnterTo("invlpg", n) =>
              tables'[user_mode_init[m].page[1]][user_mode_init[m].page[2]]
                = Entry(user_mode_init[m].frame, user_mode_init[m].flags)
    BY <1>4, <1>8, <2>1, <2>3, <2>7, BootLabels
  <2>11. /\ script' = [script EXCEPT ![0] = Rest(n)] /\ n \in 1..3
         /\ page_directory' \in [Slots -> [present : BOOLEAN, table : Tables, user : BOOLEAN]]
         /\ tables' \in [Tables -> [Indexes -> Entries]]
         /\ \A u \in Tables, i \in Indexes : tables'[u][i].present \/ tables'[u][i] = NoEntry
         /\ tlb' \subseteq tlb /\ failed' \subseteq Contexts
         /\ UNCHANGED <<dynamic_table_used, cursor, loaded, disturbed, raced>>
         /\ "invlpg" \in {"call", "fetch", "store", "invlpg"} /\ pc' = [pc EXCEPT ![0] = "invlpg"]
         /\ found' \in [Contexts -> Tables \cup {None}]
    BY <1>4, <1>6, <1>7, <2>1, <2>3, <2>5 DEF history
  <2> QED BY <2>8, <2>9, <2>10, <2>11, BootFrame
<1>13. CASE Invalidate(c)
  <2>1. c = 0 /\ pc[0] = "invlpg" /\ script[0] # <<>>
    BY <1>1, <1>5, <1>13 DEF Invalidate
  <2>2. /\ UNCHANGED <<page_directory, tables, dynamic_table_used, found, cursor, loaded, history>>
        /\ tlb' \subseteq tlb /\ failed' \subseteq Contexts
        /\ script' = [script EXCEPT ![0] = Rest(n + 1)] /\ pc' = [pc EXCEPT ![0] = "call"]
    BY <1>3, <1>4, <1>6, <1>13, <2>1 DEF Invalidate, Returns, Goto, invalidate_page
  <2>3. found' \in [Contexts -> Tables \cup {None}]
    BY <1>6, <2>2
  <2>4. DirectoryInv' /\ EntriesInv'
    BY <1>8, <2>2 DEF DirectoryInv, EntriesInv
  <2>5. (n + 1) - 1 = n /\ n \in 0..3 /\ n + 1 \in 1..4
    BY <1>4, <2>1
  <2>6. /\ \A m \in 1..3 : m <= OpenTo("call", n + 1) => page_directory'[user_mode_init[m].page[1]].user
        /\ \A m \in 1..3 : m <= EnterTo("call", n + 1) =>
             tables'[user_mode_init[m].page[1]][user_mode_init[m].page[2]]
               = Entry(user_mode_init[m].frame, user_mode_init[m].flags)
    BY <1>4, <1>8, <2>1, <2>2, <2>5, BootLabels
  <2>7. /\ script' = [script EXCEPT ![0] = Rest(n + 1)] /\ n + 1 \in 1..4
        /\ page_directory' \in [Slots -> [present : BOOLEAN, table : Tables, user : BOOLEAN]]
        /\ tables' \in [Tables -> [Indexes -> Entries]]
        /\ \A u \in Tables, i \in Indexes : tables'[u][i].present \/ tables'[u][i] = NoEntry
        /\ tlb' \subseteq tlb /\ failed' \subseteq Contexts
        /\ UNCHANGED <<dynamic_table_used, cursor, loaded, disturbed, raced>>
        /\ "call" \in {"call", "fetch", "store", "invlpg"}
    BY <1>6, <2>2, <2>5 DEF history
  <2> QED BY <2>2, <2>3, <2>4, <2>6, <2>7, BootFrame
<1> QED
  <2>1. ~FetchTable(c) /\ ~Read(c)
    BY <1>1, <1>4 DEF FetchTable, Read, Calls
  <2>2. /\ ~Enter(c) /\ ~MapFind(c) /\ ~MapClaim(c) /\ ~MapClear(c) /\ ~MapInstall(c)
        /\ ~ClearEntry(c) /\ ~CheckEntry(c) /\ ~LoadEntry(c) /\ ~ChangeFlags(c)
    BY <1>1 DEF Enter, MapFind, MapClaim, MapClear, MapInstall, ClearEntry, CheckEntry, LoadEntry,
                ChangeFlags
  <2> QED BY <1>9, <1>10, <1>11, <1>12, <1>13, <2>1, <2>2 DEF KernelStep

-----------------------------------------------------------------------------
LEMMA HardwareStep ==
  ASSUME BaseInv, Hardware, UNCHANGED locals
  PROVE  BaseInv'
<1>1. UNCHANGED <<page_directory, tables, dynamic_table_used>>
  BY DEF Hardware, TlbFill, TlbEvict
<1>2. \A e \in tlb' : e.page \in Pages
  <2>1. ASSUME NEW p \in Pages, TlbFill(p)
        PROVE  \A e \in tlb' : e.page \in Pages
    BY <2>1 DEF TlbFill, BaseInv, TestsTypeOK
  <2>2. ASSUME NEW e \in tlb, TlbEvict(e)
        PROVE  \A f \in tlb' : f.page \in Pages
    BY <2>2 DEF TlbEvict, BaseInv, TestsTypeOK
  <2> QED BY <2>1, <2>2 DEF Hardware
<1>3. TestsTypeOK'
  BY <1>1, <1>2 DEF locals, BaseInv, TestsTypeOK
<1> QED
  BY <1>1, <1>3 DEF locals, BaseInv, ScriptInv, DirectoryInv, BootInv, EntriesInv, HoldInv,
     Opened, Entered, Booted, This, Page

LEMMA StillBase == BaseInv /\ UNCHANGED allvars => BaseInv'
BY DEF allvars, shared, locals, BaseInv, TestsTypeOK, ScriptInv, DirectoryInv, BootInv,
       EntriesInv, HoldInv, Opened, Entered, Booted, This, Page

LEMMA BaseInductive == TestSpec => []BaseInv
<1>1. BaseInv /\ [TestNext]_allvars => BaseInv'
  <2> SUFFICES ASSUME BaseInv, [TestNext]_allvars PROVE BaseInv'
    OBVIOUS
  <2> QED BY StepBooted, StepBoot, HardwareStep, StillBase DEF TestNext
<1> QED BY <1>1, TestsBegin, PTL DEF TestSpec

(* The pages the boot has mapped keep their frames and rights, user        *)
(* programs reach no other, and the kernel's memory stays where it was,    *)
(* however the tests and the two contexts interleave.                      *)
THEOREM TestsLeaveMapAlone == TestSpec => []MapAsBooted
<1>1. BaseInv => UserSeesOnlyItsPages
  <2> SUFFICES ASSUME BaseInv, Booted
               PROVE  /\ \A p \in Pages : "user" \in Walk(p).flags <=> p \in UserPages
                      /\ \A n \in DOMAIN user_mode_init :
                           Walk(user_mode_init[n].page) =
                             Entry(user_mode_init[n].frame, user_mode_init[n].flags)
    BY DEF UserSeesOnlyItsPages
  <2>1. \A n \in 1..3 : Walk(user_mode_init[n].page) =
                          Entry(user_mode_init[n].frame, user_mode_init[n].flags)
    <3> SUFFICES ASSUME NEW n \in 1..3
                 PROVE  Walk(user_mode_init[n].page) =
                          Entry(user_mode_init[n].frame, user_mode_init[n].flags)
      OBVIOUS
    <3> DEFINE s == user_mode_init[n].page[1]
               i == user_mode_init[n].page[2]
               e == Entry(user_mode_init[n].frame, user_mode_init[n].flags)
    <3>1. /\ page_directory[s].user /\ tables[s][i] = e
          /\ page_directory[s].present /\ page_directory[s].table = s
      BY BootCalls, TestDomains DEF BaseInv, BootInv, DirectoryInv, Opened, Entered
    <3>2. e.present /\ Entry(e.frame, e.flags) = e
      BY DEF Entry
    <3> QED BY <3>1, <3>2 DEF Walk
  <2>2. DOMAIN user_mode_init = 1..3
    BY DEF user_mode_init
  <2>3. ASSUME NEW p \in Pages, "user" \in Walk(p).flags
        PROVE  p \in UserPages
    <3>1. /\ page_directory[p[1]].present /\ page_directory[p[1]].user
          /\ "user" \in tables[page_directory[p[1]].table][p[2]].flags
      BY <2>3 DEF Walk, Entry, NoEntry
    <3>2. p[1] \in Slots /\ p[2] \in Indexes /\ p = <<p[1], p[2]>>
      BY DEF Pages
    <3>3. p[1] \in PageTables
      BY <3>1, <3>2, TestDomains DEF BaseInv, DirectoryInv
    <3>4. page_directory[p[1]].table = p[1] /\ p[1] \in Tables
      BY <3>3, TestDomains DEF BaseInv, DirectoryInv
    <3> QED BY <3>1, <3>2, <3>4 DEF BaseInv, EntriesInv
  <2>4. ASSUME NEW p \in UserPages
        PROVE  "user" \in Walk(p).flags
    <3>1. PICK n \in 1..3 : p = user_mode_init[n].page
      BY <2>2 DEF UserPages
    <3>2. Walk(p) = Entry(user_mode_init[n].frame, user_mode_init[n].flags)
      BY <2>1, <3>1
    <3>3. Walk(p).flags = user_mode_init[n].flags
      BY <3>2 DEF Entry
    <3> QED BY <3>3, BootCalls
  <2> QED BY <2>1, <2>2, <2>3, <2>4
<1>2. BaseInv => KernelStaysMapped
  <2> SUFFICES ASSUME BaseInv, NEW s \in PageTables, NEW i \in Indexes,
                      <<s, i>> \notin UserPages \cup {ptest[1].page}
               PROVE  Walk(<<s, i>>) = Entry(<<s, i>>, {"writable"})
    BY DEF KernelStaysMapped
  <2>1. ptest[1].page = <<3, 1>>
    BY DEF ptest, Map, Call
  <2>2. tables[s][i] = Entry(<<s, i>>, {"writable"})
    BY <2>1 DEF BaseInv, EntriesInv
  <2>3. page_directory[s].present /\ page_directory[s].table = s
    BY DEF BaseInv, DirectoryInv
  <2>4. {"writable"} \ {"user"} = {"writable"}
    OBVIOUS
  <2>5. /\ Entry(<<s, i>>, {"writable"}).present
        /\ Entry(<<s, i>>, {"writable"}).frame = <<s, i>>
        /\ Entry(<<s, i>>, {"writable"}).flags = {"writable"}
    BY DEF Entry
  <2> QED BY <2>2, <2>3, <2>4, <2>5 DEF Walk
<1> QED BY <1>1, <1>2, BaseInductive, PTL DEF MapAsBooted

-----------------------------------------------------------------------------
(* The pool.                                                               *)
LEMMA OthersStay ==
  ASSUME BaseInv, NEW c \in Contexts, Enter(c) \/ KernelStep(c), ~Finish(c)
  PROVE  /\ \A d \in Contexts \ {c} :
              /\ pc'[d] = pc[d] /\ script'[d] = script[d] /\ found'[d] = found[d]
              /\ cursor'[d] = cursor[d] /\ loaded'[d] = loaded[d] /\ Page(d)' = Page(d)
         /\ pc' = [pc EXCEPT ![c] = pc'[c]]
<1>1. /\ pc \in [Contexts -> PcLabels] /\ found \in [Contexts -> Tables \cup {None}]
      /\ cursor \in [Contexts -> Indexes] /\ loaded \in [Contexts -> Entries]
      /\ script \in [Contexts -> Seq(AllCalls)]
  BY DEF BaseInv, TestsTypeOK
<1>2. (\E l : pc' = [pc EXCEPT ![c] = l]) /\ (\E s : script' = [script EXCEPT ![c] = s])
        /\ (\E t : found' = [found EXCEPT ![c] = t]) /\ (\E k : cursor' = [cursor EXCEPT ![c] = k])
        /\ (\E e : loaded' = [loaded EXCEPT ![c] = e])
  <2>1. /\ script = [script EXCEPT ![c] = script[c]] /\ found = [found EXCEPT ![c] = found[c]]
        /\ cursor = [cursor EXCEPT ![c] = cursor[c]] /\ loaded = [loaded EXCEPT ![c] = loaded[c]]
    BY <1>1
  <2>2. \A answer : Returns(c, answer) =>
          (\E l : pc' = [pc EXCEPT ![c] = l]) /\ (\E s : script' = [script EXCEPT ![c] = s])
    BY DEF Returns, Goto
  <2>3. \A l : Goto(c, l) => \E k : pc' = [pc EXCEPT ![c] = k]
    BY DEF Goto
  <2> QED
    BY <2>1, <2>2, <2>3 DEF KernelStep, Enter, MapCheck, MapFind, MapClaim, MapClear, MapInstall,
       MapFetch, MapStore, Invalidate, FetchTable, ClearEntry, CheckEntry, LoadEntry, ChangeFlags,
       Read, history
<1>3. \A d \in Contexts \ {c} :
        /\ pc'[d] = pc[d] /\ script'[d] = script[d] /\ found'[d] = found[d]
        /\ cursor'[d] = cursor[d] /\ loaded'[d] = loaded[d]
  BY <1>1, <1>2
<1> QED BY <1>1, <1>2, <1>3 DEF Page, This

(* A step that keeps clear of the making of tables.                        *)
LEMMA PoolKept ==
  ASSUME BaseInv, PoolInv, NEW c \in Contexts,
         \A d \in Contexts \ {c} :
           /\ pc'[d] = pc[d] /\ found'[d] = found[d] /\ cursor'[d] = cursor[d]
           /\ Page(d)' = Page(d)
           /\ ~raced /\ pc[d] \in {"clear", "install"} =>
                \A i \in Indexes : tables'[found[d]][i] = tables[found[d]][i],
         pc[c] \notin Making, pc'[c] \notin Making,
         ~raced /\ pc'[c] \in Holding => found'[c] = page_directory'[Page(c)'[1]].table,
         \A s \in Slots : /\ page_directory'[s].present = page_directory[s].present
                          /\ page_directory'[s].table = page_directory[s].table,
         UNCHANGED <<dynamic_table_used, raced>>
  PROVE  PoolInv'
<1>1. /\ "clear" \in Making /\ "install" \in Making /\ 4 \in Slots
      /\ "clear" \notin Holding /\ "install" \notin Holding
  BY TestDomains DEF Making, Holding
<1>2. Claimed' = Claimed
  BY <1>1 DEF Claimed
<1>3. \A d \in Contexts : pc'[d] \in Making <=> pc[d] \in Making
  OBVIOUS
<1>4. /\ page_directory'[4].present = page_directory[4].present
      /\ page_directory'[4].table = page_directory[4].table
  BY <1>1
<1>5. ~raced => \A d \in Contexts :
        /\ pc'[d] = "clear" => \A i \in Indexes : i < cursor'[d] => tables'[found'[d]][i] = NoEntry
        /\ pc'[d] = "install" => \A i \in Indexes : tables'[found'[d]][i] = NoEntry
  BY <1>1 DEF PoolInv
<1>6. ~raced => \A d \in Contexts :
        pc'[d] \in Holding => found'[d] = page_directory'[Page(d)'[1]].table
  <2> SUFFICES ASSUME ~raced, NEW d \in Contexts, d # c, pc'[d] \in Holding
               PROVE  found'[d] = page_directory'[Page(d)'[1]].table
    OBVIOUS
  <2>1. pc[d] \in Holding /\ found'[d] = found[d] /\ Page(d)' = Page(d)
    OBVIOUS
  <2>2. Page(d)[1] \in Slots
    BY <2>1, HeadTyped DEF BaseInv, ScriptInv, Holding
  <2> QED BY <2>1, <2>2 DEF PoolInv
<1> QED BY <1>2, <1>3, <1>4, <1>5, <1>6 DEF PoolInv

(* While one table is made and nobody else makes one, the slot has none,   *)
(* so that whoever stores an entry stores it elsewhere.                    *)
LEMMA StoreElsewhere ==
  ASSUME BaseInv, PoolInv, ~raced, NEW c \in Contexts, pc[c] \in Holding,
         NEW d \in Contexts, pc[d] \in {"clear", "install"}
  PROVE  found[c] \in PageTables /\ found[d] \in DynamicTables /\ ~page_directory[4].present
<1>1. pc[d] \in Making /\ pc[d] \in Creating
  BY DEF Making, Creating
<1>2. ~page_directory[4].present /\ found[d] \in DynamicTables
  BY <1>1 DEF PoolInv, BaseInv, HoldInv
<1>3. page_directory[Page(c)[1]].present /\ Page(c)[1] \in Slots
  BY HeadTyped DEF BaseInv, HoldInv, ScriptInv, Holding
<1>4. Page(c)[1] \in PageTables
  BY <1>2, <1>3 DEF BaseInv, DirectoryInv
<1> QED BY <1>2, <1>4 DEF BaseInv, HoldInv

LEMMA PromotedTable ==
  ASSUME BaseInv, NEW s \in Slots, NEW flags,
         page_directory' = [page_directory EXCEPT ![s] = Promoted(@, flags)]
  PROVE  \A r \in Slots : /\ page_directory'[r].present = page_directory[r].present
                          /\ page_directory'[r].table = page_directory[r].table
<1>1. page_directory \in [Slots -> [present : BOOLEAN, table : Tables, user : BOOLEAN]]
  BY DEF BaseInv, TestsTypeOK
<1>2. ASSUME NEW d \in [present : BOOLEAN, table : Tables, user : BOOLEAN]
      PROVE  Promoted(d, flags).present = d.present /\ Promoted(d, flags).table = d.table
  BY DEF Promoted
<1> QED BY <1>1, <1>2

LEMMA QuietPool ==
  ASSUME BaseInv, PoolInv, NEW c \in Contexts,
         \/ Enter(c) \/ MapFetch(c) \/ MapStore(c) \/ Invalidate(c) \/ FetchTable(c)
         \/ ClearEntry(c) \/ CheckEntry(c) \/ LoadEntry(c) \/ ChangeFlags(c) \/ Read(c)
         \/ MapCheck(c) /\ page_directory[Page(c)[1]].present
  PROVE  PoolInv'
<1>1. Enter(c) \/ KernelStep(c)
  BY DEF KernelStep
<1>2. pc[c] \notin Making /\ ~Finish(c)
  BY DEF Enter, MapFetch, MapStore, Invalidate, FetchTable, ClearEntry, CheckEntry, LoadEntry,
         ChangeFlags, Read, MapCheck, Calls, Making, Finish
<1>3. /\ \A d \in Contexts \ {c} :
           /\ pc'[d] = pc[d] /\ found'[d] = found[d] /\ cursor'[d] = cursor[d]
           /\ Page(d)' = Page(d)
      /\ c \in DOMAIN pc /\ c \in DOMAIN found
  BY <1>1, <1>2, OthersStay DEF BaseInv, TestsTypeOK
<1>4. pc[c] \in Holding \cup {"fetch"} => Page(c)[1] \in Slots
  BY HeadTyped DEF BaseInv, ScriptInv, Holding
<1>5. ~raced /\ pc[c] \in Holding => found[c] = page_directory[Page(c)[1]].table
  BY DEF PoolInv
<1>6. UNCHANGED <<dynamic_table_used, raced>>
  BY DEF Enter, MapFetch, MapStore, Invalidate, FetchTable, ClearEntry, CheckEntry, LoadEntry,
         ChangeFlags, Read, MapCheck, shared, history, Goto
<1>7. \A s \in Slots : /\ page_directory'[s].present = page_directory[s].present
                       /\ page_directory'[s].table = page_directory[s].table
  <2>1. CASE MapFetch(c)
    BY <1>4, <2>1, PromotedTable DEF MapFetch
  <2>2. CASE LoadEntry(c)
    BY <1>4, <2>2, PromotedTable DEF LoadEntry, Holding
  <2>3. CASE ~MapFetch(c) /\ ~LoadEntry(c)
    BY <2>3 DEF Enter, MapStore, Invalidate, FetchTable, ClearEntry, CheckEntry, ChangeFlags, Read,
                MapCheck, shared
  <2> QED BY <2>1, <2>2, <2>3
<1>8. ASSUME NEW d \in Contexts \ {c}, ~raced, pc[d] \in {"clear", "install"}
      PROVE  \A i \in Indexes : tables'[found[d]][i] = tables[found[d]][i]
  <2>1. CASE MapStore(c) \/ ClearEntry(c) \/ ChangeFlags(c)
    <3>1. pc[c] \in Holding
      BY <2>1 DEF MapStore, ClearEntry, ChangeFlags, Holding
    <3>2. found[c] # found[d] /\ found[d] \in Tables
      BY <1>8, <3>1, StoreElsewhere, TestDomains
    <3>3. tables'[found[d]] = tables[found[d]]
      BY <2>1, <3>2 DEF MapStore, ClearEntry, ChangeFlags, BaseInv, TestsTypeOK
    <3> QED BY <3>3
  <2>2. CASE ~MapStore(c) /\ ~ClearEntry(c) /\ ~ChangeFlags(c)
    BY <2>2 DEF Enter, MapFetch, Invalidate, FetchTable, CheckEntry, LoadEntry, Read, MapCheck, shared
  <2> QED BY <2>1, <2>2
<1>9. /\ pc'[c] \notin Making
      /\ ~raced /\ pc'[c] \in Holding => found'[c] = page_directory'[Page(c)'[1]].table
  <2>1. CASE \E answer : Returns(c, answer)
    BY <1>3, <2>1 DEF Returns, Goto, Making, Holding
  <2>2. CASE \/ Enter(c) \/ MapStore(c) \/ ClearEntry(c) \/ ChangeFlags(c)
             \/ MapCheck(c) /\ page_directory[Page(c)[1]].present
    <3>1. pc'[c] \in {"call", "fetch", "invlpg"}
      BY <1>3, <2>2 DEF Enter, MapStore, ClearEntry, ChangeFlags, MapCheck, Goto, Calls
    <3> QED BY <3>1 DEF Making, Holding
  <2>3. CASE MapFetch(c)
    <3>1. pc'[c] = "store" /\ Page(c)' = Page(c)
            /\ found'[c] = page_directory[Page(c)[1]].table /\ Page(c)[1] \in Slots
      BY <1>3, <1>4, <2>3 DEF MapFetch, Goto, Page, This
    <3> QED BY <1>7, <3>1 DEF Making
  <2>4. CASE /\ FetchTable(c) /\ found' = [found EXCEPT ![c] = page_directory[Page(c)[1]].table]
             /\ Goto(c, This(c).op) /\ UNCHANGED script
    <3>1. script[c] # <<>> /\ This(c).op \in {"unmap", "protect"}
      BY <2>4 DEF FetchTable, Calls
    <3>2. /\ pc'[c] \in {"unmap", "protect"} /\ Page(c)' = Page(c)
          /\ found'[c] = page_directory[Page(c)[1]].table /\ Page(c)[1] \in Slots
      BY <1>3, <2>4, <3>1, HeadTyped DEF Goto, Page, This, BaseInv
    <3> QED BY <1>7, <3>2 DEF Making
  <2>5. CASE CheckEntry(c) /\ pc'[c] # "call"
    <3>1. /\ pc'[c] = "load" /\ Page(c)' = Page(c) /\ found'[c] = found[c] /\ Page(c)[1] \in Slots
          /\ pc[c] \in Holding
      BY <1>3, <1>4, <2>5 DEF CheckEntry, Goto, Page, This, Returns, Holding
    <3> QED BY <1>5, <1>7, <3>1 DEF Making
  <2>6. CASE LoadEntry(c)
    <3>1. /\ pc'[c] = "change" /\ Page(c)' = Page(c) /\ found'[c] = found[c] /\ Page(c)[1] \in Slots
          /\ pc[c] \in Holding
      BY <1>3, <1>4, <2>6 DEF LoadEntry, Goto, Page, This, Holding
    <3> QED BY <1>5, <1>7, <3>1 DEF Making
  <2>7. CASE pc'[c] = "call"
    BY <2>7 DEF Making, Holding
  <2>8. FetchTable(c) =>
          \/ \E answer : Returns(c, answer)
          \/ /\ found' = [found EXCEPT ![c] = page_directory[Page(c)[1]].table]
             /\ Goto(c, This(c).op) /\ UNCHANGED script
    BY DEF FetchTable
  <2>9. Read(c) \/ Invalidate(c) => \E answer : Returns(c, answer)
    BY DEF Read, Invalidate
  <2> QED BY <2>1, <2>2, <2>3, <2>4, <2>5, <2>6, <2>7, <2>8, <2>9
<1> QED BY <1>2, <1>3, <1>6, <1>7, <1>8, <1>9, PoolKept

(* The steps of whoever makes a table.                                     *)
LEMMA Labels ==
  /\ Making = {"find"} \cup Creating /\ Creating \subseteq Making
  /\ \A l \in Making : l \notin Holding
  /\ "clear" \in Creating /\ "install" \in Creating /\ "claim" \in Creating
  /\ "find" \in Making /\ "call" \notin Making /\ "fetch" \notin Making /\ "poll" \notin Making
  /\ "call" \notin Holding /\ "fetch" \notin Holding /\ "poll" \notin Holding /\ "off" \notin Making
BY DEF Making, Creating, Holding

LEMMA MakerStep ==
  ASSUME BaseInv, PoolInv, NEW c \in Contexts,
         MapFind(c) \/ MapClaim(c) \/ MapClear(c) \/ MapInstall(c)
  PROVE  /\ pc[c] \in Making /\ Page(c)[1] = 4
         /\ \A d \in Contexts \ {c} :
              /\ pc'[d] = pc[d] /\ found'[d] = found[d] /\ cursor'[d] = cursor[d]
              /\ Page(d)' = Page(d) /\ (page_directory[4].present \/ ~raced => pc[d] \notin Making)
         /\ page_directory[4].present => raced
         /\ c \in DOMAIN pc /\ c \in DOMAIN found /\ c \in DOMAIN cursor
<1>1. pc[c] \in Making /\ ~Finish(c) /\ KernelStep(c)
  BY DEF MapFind, MapClaim, MapClear, MapInstall, Making, Finish, KernelStep
<1>2. \A d \in Contexts : d # c => \A e \in Contexts : e = c \/ e = d
  BY DEF Contexts
<1>3. \A d \in Contexts \ {c} : page_directory[4].present \/ ~raced => pc[d] \notin Making
  BY <1>1, <1>2 DEF PoolInv
<1>4. page_directory[4].present => raced
  BY <1>1 DEF PoolInv
<1> QED BY <1>1, <1>3, <1>4, OthersStay DEF BaseInv, HoldInv, TestsTypeOK

(* The tables a maker has claimed, when the other context makes none.      *)
LEMMA ClaimedBy ==
  ASSUME NEW c \in Contexts, \A d \in Contexts \ {c} : pc[d] \notin Making
  PROVE  Claimed = IF pc[c] \in {"clear", "install"} THEN {found[c]} ELSE {}
BY Labels DEF Claimed

LEMMA CheckPool ==
  ASSUME BaseInv, PoolInv, NEW c \in Contexts, MapCheck(c), ~page_directory[Page(c)[1]].present
  PROVE  PoolInv'
<1>1. /\ pc[c] = "call" /\ pc' = [pc EXCEPT ![c] = "find"] /\ c \in DOMAIN pc
      /\ raced' = (raced \/ \E d \in Contexts : pc[d] \in Making)
      /\ UNCHANGED <<page_directory, tables, dynamic_table_used, script, found, cursor>>
  BY Labels DEF MapCheck, Calls, Goto, shared, BaseInv, TestsTypeOK
<1>2. ~page_directory[4].present
  <2>1. BaseInv'
    BY StepBooted, StepBoot DEF KernelStep
  <2>2. Page(c)[1] = 4
    BY <1>1, <2>1, Labels DEF BaseInv, HoldInv, Page, This
  <2> QED BY <2>2
<1>3. Claimed' = Claimed
  BY <1>1 DEF Claimed
<1>4. \A d \in Contexts : d # c => pc'[d] = pc[d] /\ Page(d)' = Page(d)
  BY <1>1 DEF Page, This
<1>5. pc'[c] = "find" /\ Page(c)' = Page(c)
  BY <1>1 DEF Page, This
<1> QED BY <1>1, <1>2, <1>3, <1>4, <1>5, Labels DEF PoolInv

LEMMA FindPool ==
  ASSUME BaseInv, PoolInv, NEW c \in Contexts, MapFind(c)
  PROVE  PoolInv'
<1>1. /\ pc[c] = "find" /\ pc'[c] \in {"call", "claim"}
      /\ UNCHANGED <<page_directory, tables, dynamic_table_used, cursor, raced>>
  BY MakerStep DEF MapFind, Goto, Returns, shared, history
<1>2. Claimed' = Claimed
  BY <1>1, MakerStep DEF Claimed
<1>3. page_directory[4].present => Claimed = {}
  BY <1>1, ClaimedBy, MakerStep
<1>4. page_directory[4].present => dynamic_table_used \subseteq {page_directory[4].table}
  BY <1>1, <1>3, Labels DEF PoolInv
<1>5. \E t : t \in Tables
  BY TestDomains
<1>6. \A d \in Contexts : pc'[d] \in Making => pc[d] \in Making
  BY <1>1, MakerStep, Labels
<1> QED BY <1>1, <1>2, <1>3, <1>4, <1>5, <1>6, MakerStep, Labels DEF PoolInv

LEMMA ClaimPool ==
  ASSUME BaseInv, PoolInv, NEW c \in Contexts, MapClaim(c)
  PROVE  PoolInv'
<1>1. /\ pc[c] = "claim" /\ pc'[c] = "clear" /\ cursor'[c] = 0 /\ found' = found
      /\ dynamic_table_used' = dynamic_table_used \cup {found[c]}
      /\ UNCHANGED <<page_directory, tables, raced>>
  BY MakerStep DEF MapClaim, Goto, history, Taken
<1>2. Claimed' = Claimed \cup {found[c]}
  BY <1>1, MakerStep DEF Claimed
<1>3. \A d \in Contexts : pc'[d] \in Making <=> pc[d] \in Making
  BY <1>1, MakerStep, Labels
<1>4. \A i \in Indexes : ~(i < cursor'[c])
  BY <1>1, PagingAssumption DEF Indexes
<1> QED BY <1>1, <1>2, <1>3, <1>4, MakerStep, Labels DEF PoolInv

LEMMA ClearPool ==
  ASSUME BaseInv, PoolInv, NEW c \in Contexts, MapClear(c)
  PROVE  PoolInv'
<1>1. /\ pc[c] = "clear" /\ pc'[c] \in {"clear", "install"} /\ found' = found
      /\ tables' = [tables EXCEPT ![found[c]][cursor[c]] = NoEntry]
      /\ cursor'[c] = (cursor[c] + 1) % TABLE_ENTRIES
      /\ pc'[c] = (IF cursor[c] = TABLE_ENTRIES - 1 THEN "install" ELSE "clear")
      /\ UNCHANGED <<page_directory, dynamic_table_used, raced>>
  BY MakerStep DEF MapClear, Goto, history
<1>2. Claimed' = Claimed
  BY <1>1, MakerStep DEF Claimed
<1>3. \A d \in Contexts : pc'[d] \in Making <=> pc[d] \in Making
  BY <1>1, MakerStep, Labels
<1>4. /\ cursor[c] \in Indexes /\ found[c] \in Tables /\ TABLE_ENTRIES \in Nat \ {0}
      /\ tables \in [Tables -> [Indexes -> Entries]]
  BY <1>1, Labels, TestDomains, PagingAssumption DEF BaseInv, TestsTypeOK, HoldInv
<1>5. \A i \in Indexes : tables'[found[c]][i] = IF i = cursor[c] THEN NoEntry ELSE tables[found[c]][i]
  BY <1>1, <1>4
<1>6. ~raced => \A i \in Indexes : i < cursor[c] => tables[found[c]][i] = NoEntry
  BY <1>1 DEF PoolInv
<1>7. CASE cursor[c] = TABLE_ENTRIES - 1
  <2>1. pc'[c] = "install"
    BY <1>1, <1>7
  <2>2. \A i \in Indexes : i < cursor[c] \/ i = cursor[c]
    BY <1>4, <1>7 DEF Indexes
  <2>3. ~raced => \A i \in Indexes : tables'[found[c]][i] = NoEntry
    BY <1>5, <1>6, <2>2
  <2> QED BY <1>1, <1>2, <1>3, <2>1, <2>3, MakerStep, Labels DEF PoolInv
<1>8. CASE cursor[c] # TABLE_ENTRIES - 1
  <2>1. pc'[c] = "clear"
    BY <1>1, <1>8
  <2>2. cursor'[c] = cursor[c] + 1
    <3>1. \A m \in Nat \ {0} : \A n \in 0..(m - 1) : n # m - 1 => (n + 1) % m = n + 1
      OBVIOUS
    <3>2. TABLE_ENTRIES \in Nat \ {0} /\ cursor[c] \in 0..(TABLE_ENTRIES - 1)
      BY <1>4 DEF Indexes
    <3>3. (cursor[c] + 1) % TABLE_ENTRIES = cursor[c] + 1
      BY <1>8, <3>1, <3>2
    <3> QED BY <1>1, <3>3
  <2>3. \A i \in Indexes : i < cursor'[c] => i < cursor[c] \/ i = cursor[c]
    BY <1>4, <2>2 DEF Indexes
  <2>4. ~raced => \A i \in Indexes : i < cursor'[c] => tables'[found[c]][i] = NoEntry
    BY <1>5, <1>6, <2>3
  <2> QED BY <1>1, <1>2, <1>3, <2>1, <2>4, MakerStep, Labels DEF PoolInv
<1> QED BY <1>7, <1>8

LEMMA InstallPool ==
  ASSUME BaseInv, PoolInv, NEW c \in Contexts, MapInstall(c)
  PROVE  PoolInv'
<1> DEFINE new == [present |-> TRUE, table |-> found[c], user |-> FALSE]
<1>1. /\ pc[c] = "install" /\ pc'[c] = "fetch" /\ found' = found
      /\ page_directory' = [page_directory EXCEPT ![4] = new]
      /\ UNCHANGED <<tables, dynamic_table_used, raced>>
  BY MakerStep DEF MapInstall, Goto, history
<1>2. new.present /\ new.table = found[c]
  OBVIOUS
<1> HIDE DEF new
<1>3. /\ page_directory'[4].present /\ page_directory'[4].table = found[c]
      /\ \A s \in Slots \ {4} : page_directory'[s] = page_directory[s]
  BY <1>1, <1>2, TestDomains DEF BaseInv, TestsTypeOK
<1>4. Claimed \subseteq Claimed' \cup {found[c]} /\ Claimed' \subseteq Claimed
  BY <1>1, MakerStep DEF Claimed
<1>5. \A d \in Contexts : d # c => (pc'[d] \in Making <=> pc[d] \in Making)
  BY MakerStep
<1>6. CASE page_directory[4].present
  <2>1. raced /\ dynamic_table_used \subseteq Claimed \cup {page_directory[4].table}
    BY <1>1, <1>6, Labels DEF PoolInv
  <2>2. Claimed \subseteq {found[c]}
    BY <1>6, ClaimedBy, MakerStep
  <2>3. page_directory[4].table \in Tables /\ raced'
    BY <1>1, <2>1, TestDomains DEF BaseInv, TestsTypeOK
  <2>4. \A d \in Contexts : pc'[d] \notin Making
    BY <1>1, <1>6, MakerStep, Labels
  <2>5. dynamic_table_used' \subseteq {page_directory'[4].table, page_directory[4].table}
    BY <1>1, <1>3, <2>1, <2>2
  <2> QED BY <1>3, <2>3, <2>4, <2>5 DEF PoolInv
<1>7. CASE ~page_directory[4].present
  <2>1. dynamic_table_used' \subseteq Claimed' \cup {page_directory'[4].table}
    BY <1>1, <1>3, <1>4, <1>7 DEF PoolInv
  <2>2. (\E d \in Contexts : pc'[d] \in Making) => raced'
    BY <1>1, <1>5, MakerStep, Labels
  <2>3. (\A d \in Contexts : pc'[d] \notin Making) => Claimed' = {}
    BY Labels DEF Claimed
  <2>4. page_directory'[4].table \in Tables /\ pc'[c] \notin Making
    BY <1>1, <1>3, Labels, TestDomains DEF BaseInv, HoldInv
  <2>5. ASSUME ~raced'
        PROVE  /\ \A d, e \in Contexts : pc'[d] \in Making /\ pc'[e] \in Making => d = e
               /\ dynamic_table_used' \subseteq {page_directory'[4].table}
               /\ \A d \in Contexts : pc'[d] \notin Making
    BY <1>1, <2>1, <2>2, <2>3, <2>5, Labels
  <2>6. ASSUME ~raced', NEW d \in Contexts, pc'[d] \in Holding
        PROVE  found'[d] = page_directory'[Page(d)'[1]].table
    <3>1. d # c /\ pc[d] \in Holding /\ found'[d] = found[d] /\ Page(d)' = Page(d)
      BY <1>1, <2>6, MakerStep, Labels
    <3>2. Page(d)[1] \in Slots /\ page_directory[Page(d)[1]].present
      BY <3>1, HeadTyped DEF BaseInv, ScriptInv, Holding, HoldInv
    <3>3. page_directory'[Page(d)[1]] = page_directory[Page(d)[1]]
      BY <1>3, <1>7, <3>2
    <3>4. found[d] = page_directory[Page(d)[1]].table
      BY <1>1, <2>6, <3>1 DEF PoolInv
    <3> QED BY <3>1, <3>3, <3>4
  <2> QED BY <1>3, <2>1, <2>2, <2>3, <2>4, <2>5, <2>6, Labels DEF PoolInv
<1> QED BY <1>6, <1>7

LEMMA FinishPool ==
  ASSUME BaseInv, PoolInv, NEW c \in Contexts, Finish(c)
  PROVE  PoolInv'
<1>1. /\ pc[c] = "call" /\ c \in DOMAIN pc
      /\ \A d \in Contexts : pc'[d] = IF d = c \/ pc[d] = "off" THEN "poll" ELSE pc[d]
      /\ UNCHANGED <<page_directory, tables, dynamic_table_used, script, found, cursor, raced>>
  BY DEF Finish, shared, BaseInv, TestsTypeOK
<1>2. \A d \in Contexts : pc'[d] = pc[d] \/ (pc[d] \in {"call", "off"} /\ pc'[d] = "poll")
  BY <1>1
<1>3. Claimed' = Claimed
  BY <1>1, <1>2 DEF Claimed
<1>4. \A d \in Contexts : pc'[d] \in Making <=> pc[d] \in Making
  BY <1>2, Labels
<1>5. \A d \in Contexts : pc'[d] \in Holding \cup {"clear", "install"} => pc'[d] = pc[d]
  BY <1>2, Labels
<1>6. \A d \in Contexts : Page(d)' = Page(d)
  BY <1>1 DEF Page, This
<1> QED BY <1>1, <1>3, <1>4, <1>5, <1>6 DEF PoolInv

LEMMA PoolStep ==
  ASSUME BaseInv, PoolInv, NEW c \in Contexts, Enter(c) \/ KernelStep(c)
  PROVE  PoolInv'
BY QuietPool, CheckPool, FindPool, ClaimPool, ClearPool, InstallPool, FinishPool DEF KernelStep

LEMMA PoolIdle ==
  ASSUME PoolInv, UNCHANGED <<page_directory, tables, dynamic_table_used, locals>>
  PROVE  PoolInv'
BY DEF PoolInv, Claimed, locals, Page, This

LEMMA PoolInductive == TestSpec => [](BaseInv /\ PoolInv)
<1>1. TestInit => PoolInv
  <2> SUFFICES ASSUME TestInit PROVE PoolInv
    OBVIOUS
  <2>1. \A c \in Contexts : pc[c] \in {"call", "off"}
    BY DEF TestInit
  <2>2. dynamic_table_used = {} /\ page_directory[4] = NoTable
    BY TestDomains DEF TestInit, Init
  <2>3. ~page_directory[4].present
    BY <2>2 DEF NoTable
  <2> QED BY <2>1, <2>2, <2>3 DEF PoolInv, Making, Holding
<1>2. BaseInv /\ PoolInv /\ [TestNext]_allvars => PoolInv'
  <2> SUFFICES ASSUME BaseInv, PoolInv, [TestNext]_allvars PROVE PoolInv'
    OBVIOUS
  <2>1. Hardware => UNCHANGED <<page_directory, tables, dynamic_table_used>>
    BY DEF Hardware, TlbFill, TlbEvict
  <2>2. CASE UNCHANGED allvars
    BY <2>2, PoolIdle DEF allvars, shared
  <2> QED BY <2>1, <2>2, PoolStep, PoolIdle DEF TestNext
<1> QED BY <1>1, <1>2, BaseInductive, PTL DEF TestSpec

(* Two contexts that race for the table of a slot lose one, and never a    *)
(* second, however often they race: for every size of the pool.            *)
THEOREM TestsLoseOneTable == TestSpec => []LeakBounded
<1>1. BaseInv /\ PoolInv => LeakBounded
  <2> SUFFICES ASSUME BaseInv, PoolInv PROVE LeakBounded
    OBVIOUS
  <2>1. \A t \in LostTables : t \in dynamic_table_used /\ t \notin Claimed
    BY Labels DEF LostTables, Claimed
  <2>2. \A t \in LostTables : page_directory[4].present => t # page_directory[4].table
    BY TestDomains DEF LostTables
  <2>3. ASSUME LostTables # {}
        PROVE  raced /\ \E t \in Tables : LostTables \subseteq {t}
    <3>1. page_directory[4].present /\ raced
      BY <2>1, <2>2, <2>3 DEF PoolInv
    <3>2. \A c \in Contexts : pc[c] \notin Making
      BY <2>1, <2>2, <2>3, <3>1 DEF PoolInv
    <3>3. PICK t \in Tables : dynamic_table_used \subseteq {page_directory[4].table, t}
      BY <3>1, <3>2 DEF PoolInv
    <3>4. LostTables \subseteq {t}
      BY <2>1, <2>2, <3>1, <3>3
    <3> QED BY <3>1, <3>4
  <2>4. CASE LostTables = {}
    BY <2>4, FS_EmptySet DEF LeakBounded
  <2>5. CASE LostTables # {}
    <3>1. PICK t \in Tables : LostTables \subseteq {t}
      BY <2>3, <2>5
    <3>2. LostTables = {t}
      BY <2>5, <3>1
    <3>3. Cardinality(LostTables) = 1
      BY <3>2, FS_Singleton
    <3> QED BY <2>3, <2>5, <3>3 DEF LeakBounded
  <2> QED BY <2>4, <2>5
<1> QED BY <1>1, PoolInductive, PTL

-----------------------------------------------------------------------------
(* Which translations a step changes.                                      *)
LEMMA TableOf ==
  ASSUME BaseInv, NEW s \in Slots, page_directory[s].present
  PROVE  /\ s \in PageTables => page_directory[s].table = s
         /\ s \notin PageTables => s = 4 /\ page_directory[s].table \in DynamicTables
         /\ page_directory[s].table \in Tables
BY DEF BaseInv, DirectoryInv, TestsTypeOK

LEMMA PromotedWalk ==
  ASSUME BaseInv, NEW s \in Slots, NEW flags, UNCHANGED tables, NEW p \in Pages,
         page_directory' = [page_directory EXCEPT ![s] = Promoted(@, flags)]
  PROVE  Walk(p)' = Walk(p)
<1>1. p[1] \in Slots /\ p[2] \in Indexes
  BY DEF Pages
<1>2. page_directory \in [Slots -> [present : BOOLEAN, table : Tables, user : BOOLEAN]]
  BY DEF BaseInv, TestsTypeOK
<1>3. /\ page_directory'[p[1]].present = page_directory[p[1]].present
      /\ page_directory'[p[1]].table = page_directory[p[1]].table
  BY <1>1, PromotedTable
<1>4. page_directory[p[1]].user => page_directory'[p[1]].user = page_directory[p[1]].user
  <2>1. ASSUME NEW d \in [present : BOOLEAN, table : Tables, user : BOOLEAN], d.user
        PROVE  Promoted(d, flags).user = d.user
    BY <2>1 DEF Promoted
  <2> QED BY <1>1, <1>2, <2>1
<1>5. ASSUME page_directory[p[1]].present, ~page_directory[p[1]].user
      PROVE  "user" \notin tables[page_directory[p[1]].table][p[2]].flags
  <2>1. CASE p[1] \in PageTables
    BY <1>1, <1>5, <2>1, TableOf, TestDomains DEF BaseInv, EntriesInv
  <2>2. CASE p[1] \notin PageTables
    <3>1. page_directory[p[1]].table \in Tables \ {1, 2}
      <4>1. page_directory[p[1]].table \in DynamicTables
        BY <1>1, <1>5, <2>2, TableOf
      <4>2. 1 \in PageTables /\ 2 \in PageTables
        BY TestDomains
      <4> QED BY <4>1, <4>2, TestDomains
    <3>2. \A t \in Tables, i \in Indexes : <<t, i>> \in UserPages => t \in {1, 2}
      BY BootCalls
    <3> QED BY <1>1, <3>1, <3>2 DEF BaseInv, EntriesInv
  <2> QED BY <2>1, <2>2
<1> QED BY <1>3, <1>4, <1>5, SameWalk

(* An entry is stored in the table of its slot, but for the race.          *)
LEMMA StoredElsewhere ==
  ASSUME BaseInv, PoolInv, NEW c \in Contexts, pc[c] \in Holding, NEW e,
         UNCHANGED page_directory, tables' = [tables EXCEPT ![found[c]][Page(c)[2]] = e],
         NEW p \in Pages, p # Page(c), raced => p[1] \in PageTables
  PROVE  Walk(p)' = Walk(p)
<1>1. p[1] \in Slots /\ p[2] \in Indexes /\ p = <<p[1], p[2]>>
  BY DEF Pages
<1>2. /\ Page(c) \in Pages /\ Page(c)[1] \in Slots /\ Page(c)[2] \in Indexes
      /\ Page(c) = <<Page(c)[1], Page(c)[2]>> /\ page_directory[Page(c)[1]].present
  BY HeadTyped DEF BaseInv, ScriptInv, HoldInv, Holding, Pages
<1>3. tables \in [Tables -> [Indexes -> Entries]]
  BY DEF BaseInv, TestsTypeOK
<1>4. ASSUME page_directory[p[1]].present
      PROVE  tables'[page_directory[p[1]].table][p[2]] = tables[page_directory[p[1]].table][p[2]]
  <2> DEFINE t == page_directory[p[1]].table
  <2>1. t \in Tables
    BY <1>1, <1>4, TableOf
  <2>2. ~(t = found[c] /\ p[2] = Page(c)[2])
    <3> SUFFICES ASSUME t = found[c], p[2] = Page(c)[2] PROVE p[1] = Page(c)[1]
      BY <1>1, <1>2
    <3>1. CASE p[1] \in PageTables
      BY <1>1, <1>2, <1>4, <3>1, TableOf, TestDomains DEF BaseInv, HoldInv
    <3>2. CASE p[1] \notin PageTables
      <4>1. t \in DynamicTables /\ p[1] = 4 /\ ~raced
        BY <1>1, <1>4, <3>2, TableOf
      <4>2. found[c] = page_directory[Page(c)[1]].table
        BY <4>1 DEF PoolInv
      <4> QED BY <1>2, <4>1, <4>2, TableOf, TestDomains
    <3> QED BY <3>1, <3>2
  <2> HIDE DEF t
  <2>3. tables'[t][p[2]] = tables[t][p[2]]
    <3>1. CASE t = found[c]
      <4>1. tables'[t] = [tables[t] EXCEPT ![Page(c)[2]] = e]
        BY <1>3, <2>1, <3>1
      <4> QED BY <1>1, <1>3, <2>1, <2>2, <3>1, <4>1
    <3>2. CASE t # found[c]
      BY <1>3, <2>1, <3>2
    <3> QED BY <3>1, <3>2
  <2> QED BY <2>3 DEF t
<1> QED BY <1>4, SameWalk

LEMMA MakerWalk ==
  ASSUME BaseInv, PoolInv, NEW c \in Contexts, MapClear(c) \/ MapInstall(c),
         NEW p \in Pages, raced => p[1] \in PageTables
  PROVE  Walk(p)' = Walk(p)
<1>1. p[1] \in Slots /\ p[2] \in Indexes /\ p = <<p[1], p[2]>>
  BY DEF Pages
<1>2. found[c] \in DynamicTables /\ Page(c)[1] = 4 /\ (page_directory[4].present => raced)
  <2>1. pc[c] \in Creating
    BY Labels DEF MapClear, MapInstall
  <2> QED BY <2>1, MakerStep DEF BaseInv, HoldInv
<1>3. page_directory[p[1]].present => page_directory[p[1]].table \in PageTables
  BY <1>1, <1>2, TableOf
<1>4. CASE MapClear(c)
  <2>1. /\ UNCHANGED page_directory
        /\ page_directory[p[1]].present =>
             tables'[page_directory[p[1]].table] = tables[page_directory[p[1]].table]
    BY <1>2, <1>3, <1>4, TestDomains DEF MapClear, BaseInv, TestsTypeOK
  <2> QED BY <2>1, SameWalk
<1>5. CASE MapInstall(c) /\ p[1] # 4
  <2>1. UNCHANGED tables /\ page_directory'[p[1]] = page_directory[p[1]]
    BY <1>1, <1>2, <1>5 DEF MapInstall, BaseInv, TestsTypeOK
  <2> QED BY <2>1, SameWalk
<1>6. CASE MapInstall(c) /\ p[1] = 4
  <2>1. ~raced /\ ~page_directory[4].present
    BY <1>2, <1>6, TestDomains
  <2>2. Walk(p) = NoEntry
    BY <1>6, <2>1 DEF Walk
  <2>3. tables[found[c]][p[2]] = NoEntry
    BY <1>1, <1>6, <2>1 DEF MapInstall, PoolInv
  <2> DEFINE new == [present |-> TRUE, table |-> found[c], user |-> FALSE]
  <2>4. new.table = found[c]
    OBVIOUS
  <2> HIDE DEF new
  <2>5. tables' = tables /\ page_directory'[4] = new
    BY <1>2, <1>6, TestDomains DEF MapInstall, BaseInv, TestsTypeOK, new
  <2>6. ~NoEntry.present
    BY DEF NoEntry
  <2>7. Walk(p)' = NoEntry
    BY <1>6, <2>3, <2>4, <2>5, <2>6 DEF Walk
  <2> QED BY <2>2, <2>7
<1> QED BY <1>4, <1>5, <1>6

LEMMA WalkStep ==
  ASSUME BaseInv, PoolInv, NEW c \in Contexts, Enter(c) \/ KernelStep(c), NEW p \in Pages
  PROVE  \/ Walk(p)' = Walk(p)
         \/ p = Page(c) /\ pc'[c] = "invlpg" /\ Page(c)' = Page(c)
         \/ raced /\ p[1] \notin PageTables
<1>1. CASE MapClear(c) \/ MapInstall(c)
  BY <1>1, MakerWalk
<1>2. CASE MapFetch(c) \/ LoadEntry(c)
  <2>1. Page(c)[1] \in Slots
    BY <1>2, HeadTyped DEF BaseInv, ScriptInv, MapFetch, LoadEntry
  <2> QED BY <1>2, <2>1, PromotedWalk DEF MapFetch, LoadEntry
<1>3. CASE MapStore(c) \/ ClearEntry(c) \/ ChangeFlags(c)
  <2>1. /\ pc[c] \in Holding /\ UNCHANGED <<page_directory, script>>
        /\ \E e : tables' = [tables EXCEPT ![found[c]][Page(c)[2]] = e]
        /\ pc'[c] = "invlpg"
    BY <1>3 DEF MapStore, ClearEntry, ChangeFlags, Goto, Holding, BaseInv, TestsTypeOK
  <2>2. Page(c)' = Page(c)
    BY <2>1 DEF Page, This
  <2> QED BY <2>1, <2>2, StoredElsewhere
<1>4. CASE UNCHANGED <<page_directory, tables>>
  BY <1>4 DEF Walk
<1> QED
  BY <1>1, <1>2, <1>3, <1>4 DEF KernelStep, Enter, Finish, MapCheck, MapFind, MapClaim, Invalidate,
     FetchTable, CheckEntry, Read, shared

(* No cached translation outlives its change: one invlpg is enough for     *)
(* every store, and promoting a slot or giving it a cleared table changes  *)
(* no translation at all; but for a race for the table.                    *)
THEOREM TestsKeepTlbFresh == TestSpec => []TlbFresh
<1>1. TestInit => TlbFresh
  BY DEF TestInit, Init, TlbFresh
<1>2. BaseInv /\ PoolInv /\ TlbFresh /\ [TestNext]_allvars => TlbFresh'
  <2> SUFFICES ASSUME BaseInv, PoolInv, TlbFresh, [TestNext]_allvars PROVE TlbFresh'
    OBVIOUS
  <2>1. CASE UNCHANGED allvars
    BY <2>1 DEF allvars, shared, locals, TlbFresh, Walk, Page, This
  <2>2. CASE Hardware /\ UNCHANGED locals
    <3>1. UNCHANGED <<page_directory, tables>>
      BY <2>2 DEF Hardware, TlbFill, TlbEvict
    <3>2. \A p : Walk(p)' = Walk(p) /\ \A c \in Contexts : Page(c)' = Page(c)
      BY <2>2, <3>1 DEF Walk, locals, Page, This
    <3>3. \A e \in tlb' : e \in tlb \/ e.entry = Walk(e.page)
      BY <2>2 DEF Hardware, TlbFill, TlbEvict
    <3> QED BY <2>2, <3>2, <3>3 DEF TlbFresh, locals
  <2>3. ASSUME NEW c \in Contexts, Enter(c) \/ KernelStep(c)
        PROVE  TlbFresh'
    <3> SUFFICES ASSUME NEW e \in tlb'
                 PROVE  \/ e.entry = Walk(e.page)'
                        \/ \E d \in Contexts : pc'[d] = "invlpg" /\ Page(d)' = e.page
                        \/ raced' /\ e.page[1] \notin PageTables
      BY DEF TlbFresh
    <3>1. tlb' \subseteq tlb /\ (Invalidate(c) => e.page # Page(c)) /\ (raced => raced')
      <4>1. CASE Invalidate(c)
        BY <4>1 DEF Invalidate, history, invalidate_page
      <4>2. CASE MapCheck(c)
        <5>1. raced => raced'
          BY <4>2 DEF MapCheck, BaseInv, TestsTypeOK
        <5>2. tlb' = tlb /\ ~Invalidate(c)
          BY <4>2 DEF MapCheck, Calls, shared, Invalidate
        <5> QED BY <5>1, <5>2
      <4>3. CASE ~Invalidate(c) /\ ~MapCheck(c)
        <5>1. raced' = raced
          BY <2>3, <4>3 DEF KernelStep, Enter, Finish, MapFind, MapClaim, MapClear, MapInstall,
             MapFetch, MapStore, FetchTable, ClearEntry, CheckEntry, LoadEntry, ChangeFlags, Read, history
        <5>2. tlb' = tlb
          BY <2>3, <4>3 DEF KernelStep, Enter, Finish, MapFind, MapClaim, MapClear, MapInstall,
             MapFetch, MapStore, FetchTable, ClearEntry, CheckEntry, LoadEntry, ChangeFlags, Read, shared
        <5> QED BY <4>3, <5>1, <5>2
      <4> QED BY <4>1, <4>2, <4>3
    <3>2. e \in tlb /\ e.page \in Pages
      BY <3>1 DEF BaseInv, TestsTypeOK
    <3>3. CASE raced /\ e.page[1] \notin PageTables
      BY <3>1, <3>3
    <3>4. ASSUME NEW d \in Contexts, pc[d] = "invlpg", Page(d) = e.page
          PROVE  \E b \in Contexts : pc'[b] = "invlpg" /\ Page(b)' = e.page
      <4>1. d # c
        <5>1. pc[c] = "invlpg" => Invalidate(c)
          BY <2>3 DEF KernelStep, Enter, Finish, MapCheck, MapFind, MapClaim, MapClear, MapInstall,
             MapFetch, MapStore, FetchTable, ClearEntry, CheckEntry, LoadEntry, ChangeFlags, Read, Calls
        <5> QED BY <3>1, <3>4, <5>1
      <4>2. pc'[d] = "invlpg" /\ Page(d)' = Page(d)
        <5>1. CASE Finish(c)
          BY <3>4, <5>1 DEF Finish, Page, This
        <5>2. CASE ~Finish(c)
          BY <2>3, <3>4, <4>1, <5>2, OthersStay
        <5> QED BY <5>1, <5>2
      <4> QED BY <3>4, <4>2
    <3>5. CASE e.entry = Walk(e.page)
      BY <2>3, <3>1, <3>2, <3>5, WalkStep
    <3> QED BY <3>2, <3>3, <3>4, <3>5 DEF TlbFresh
  <2> QED BY <2>1, <2>2, <2>3 DEF TestNext
<1> QED BY <1>1, <1>2, PoolInductive, PTL DEF TestSpec

-----------------------------------------------------------------------------
(* The tests, call by call: each expectation is met by the entry the page  *)
(* has when the test comes to it, and the next by the one it leaves.       *)
Told(s, e) ==
  LET call == Head(s)
  IN  /\ s # <<>> /\ call.op # "map"
      /\ call.op = "mapped" => e.present = call.expect /\ Follows(s, e)
      /\ call.op = "frame" => e.present /\ e.frame = call.expect /\ Follows(s, e)
      /\ call.op = "writable" => ("writable" \in e.flags <=> call.expect) /\ Follows(s, e)
                                   /\ call.expect \in BOOLEAN
      /\ call.op = "unmap" => e.present /\ Follows(s, NoEntry)
      /\ call.op = "protect" => e.present /\ Follows(s, Entry(e.frame, call.flags))

LEMMA Suffixes4 ==
  ASSUME NEW a, NEW b, NEW c, NEW d, NEW s, s = <<a, b, c, d>>
  PROVE  /\ s # <<>> /\ Head(s) = a
         /\ Second(s) # <<>> /\ Head(Second(s)) = b
         /\ Third(s) # <<>> /\ Head(Third(s)) = c
         /\ Fourth(s) # <<>> /\ Head(Fourth(s)) = d
         /\ Tail(Fourth(s)) = <<>>
<1>1. s # <<>> /\ Head(s) = a
  OBVIOUS
<1>2. Second(s) # <<>> /\ Head(Second(s)) = b
  BY DEF Second
<1>3. Third(s) # <<>> /\ Head(Third(s)) = c
  BY DEF Second, Third
<1>4. Fourth(s) # <<>> /\ Head(Fourth(s)) = d
  BY DEF Second, Third, Fourth
<1>5. Tail(Fourth(s)) = <<>>
  BY DEF Second, Third, Fourth
<1> QED BY <1>1, <1>2, <1>3, <1>4, <1>5

LEMMA Suffixes6 ==
  ASSUME NEW a, NEW b, NEW c, NEW d, NEW e, NEW f, NEW s, s = <<a, b, c, d, e, f>>
  PROVE  /\ s # <<>> /\ Head(s) = a
         /\ Second(s) # <<>> /\ Head(Second(s)) = b
         /\ Third(s) # <<>> /\ Head(Third(s)) = c
         /\ Fourth(s) # <<>> /\ Head(Fourth(s)) = d
         /\ Fifth(s) # <<>> /\ Head(Fifth(s)) = e
         /\ Sixth(s) # <<>> /\ Head(Sixth(s)) = f
         /\ Tail(Sixth(s)) = <<>>
<1>1. s # <<>> /\ Head(s) = a
  OBVIOUS
<1>2. Second(s) # <<>> /\ Head(Second(s)) = b
  BY DEF Second
<1>3. Third(s) # <<>> /\ Head(Third(s)) = c
  BY DEF Second, Third
<1>4. Fourth(s) # <<>> /\ Head(Fourth(s)) = d
  BY DEF Second, Third, Fourth
<1>5. Fifth(s) # <<>> /\ Head(Fifth(s)) = e
  BY DEF Second, Third, Fourth, Fifth
<1>6. Sixth(s) # <<>> /\ Head(Sixth(s)) = f
  BY DEF Second, Third, Fourth, Fifth, Sixth
<1>7. Tail(Sixth(s)) = <<>>
  BY DEF Second, Third, Fourth, Fifth, Sixth
<1> QED BY <1>1, <1>2, <1>3, <1>4, <1>5, <1>6, <1>7

(* The steps of a test, by kind of call.                                   *)
LEMMA ToldMapped ==
  ASSUME NEW page, NEW s, NEW e, s # <<>>, NEW b \in BOOLEAN, Head(s) = Mapped(page, b),
         e.present = b, Follows(s, e)
  PROVE  Told(s, e)
<1>1. Head(s).op = "mapped" /\ Head(s).expect = b
  BY DEF Mapped, Call
<1> QED BY <1>1 DEF Told

LEMMA ToldFrame ==
  ASSUME NEW page, NEW s, NEW e, s # <<>>, NEW f, Head(s) = TranslatesTo(page, f),
         e.present, e.frame = f, Follows(s, e)
  PROVE  Told(s, e)
<1>1. Head(s).op = "frame" /\ Head(s).expect = f
  BY DEF TranslatesTo, Call
<1> QED BY <1>1 DEF Told

LEMMA ToldWritable ==
  ASSUME NEW page, NEW s, NEW e, s # <<>>, NEW b \in BOOLEAN, Head(s) = Writable(page, b),
         "writable" \in e.flags <=> b, Follows(s, e)
  PROVE  Told(s, e)
<1>1. Head(s).op = "writable" /\ Head(s).expect = b
  BY DEF Writable, Call
<1> QED BY <1>1 DEF Told

LEMMA ToldUnmap ==
  ASSUME NEW page, NEW s, NEW e, s # <<>>, Head(s) = Unmap(page), e.present, Follows(s, NoEntry)
  PROVE  Told(s, e)
<1>1. Head(s).op = "unmap"
  BY DEF Unmap, Call
<1> QED BY <1>1 DEF Told

LEMMA ToldProtect ==
  ASSUME NEW page, NEW s, NEW e, s # <<>>, NEW r, Head(s) = Protect(page, r), e.present,
         Follows(s, Entry(e.frame, r))
  PROVE  Told(s, e)
<1>1. Head(s).op = "protect" /\ Head(s).flags = r
  BY DEF Protect, Call
<1> QED BY <1>1 DEF Told

LEMMA CallPages ==
  ASSUME NEW page, NEW frame, NEW flags, NEW b
  PROVE  /\ Map(page, frame, flags).page = page /\ Map(page, frame, flags).op = "map"
         /\ Map(page, frame, flags).frame = frame /\ Map(page, frame, flags).flags = flags
         /\ Mapped(page, b).page = page /\ Writable(page, b).page = page
         /\ TranslatesTo(page, b).page = page /\ Unmap(page).page = page
         /\ Protect(page, flags).page = page
<1>1. /\ Map(page, frame, flags).page = page /\ Map(page, frame, flags).op = "map"
      /\ Map(page, frame, flags).frame = frame /\ Map(page, frame, flags).flags = flags
  BY DEF Map, Call
<1>2. Mapped(page, b).page = page
  BY DEF Mapped, Call
<1>3. Writable(page, b).page = page
  BY DEF Writable, Call
<1>4. TranslatesTo(page, b).page = page
  BY DEF TranslatesTo, Call
<1>5. Unmap(page).page = page
  BY DEF Unmap, Call
<1>6. Protect(page, flags).page = page
  BY DEF Protect, Call
<1> QED BY <1>1, <1>2, <1>3, <1>4, <1>5, <1>6
-----------------------------------------------------------------------------
LEMMA PtestTold ==
  LET frame == <<0, 1>>
      w == Entry(frame, {"writable"})
  IN  /\ ptest # <<>> /\ Head(ptest) = Map(<<3, 1>>, frame, {"writable"}) /\ Follows(ptest, w)
      /\ Told(Second(ptest), w) /\ Told(Third(ptest), w) /\ Told(Fourth(ptest), NoEntry)
<1> DEFINE page == <<3, 1>>
           frame == <<0, 1>>
           w == Entry(frame, {"writable"})
           a == Map(page, frame, {"writable"})
           b == Mapped(page, TRUE)
           c == Unmap(page)
           d == Mapped(page, FALSE)
<1>1. ptest = <<a, b, c, d>>
  BY DEF ptest
<1>2. a \in TestCalls /\ b \in TestCalls /\ c \in TestCalls
        /\ d \in TestCalls
  <2>1. page \in TestPages /\ frame \in Frames /\ {"writable"} \in SUBSET {"writable"}
          /\ {} \in SUBSET {"writable"}
    BY TestFrames DEF TestPages
  <2> HIDE DEF page, frame
  <2> QED BY <2>1, CallKinds
<1>3. a.page = page /\ b.page = page /\ c.page = page /\ d.page = page
  BY DEF Map, Mapped, TranslatesTo, Writable, Unmap, Protect, Call
<1>4. w.present /\ w.frame = frame /\ w.flags = {"writable"} /\ NoEntry.present = FALSE
        /\ Entry(frame, {}).present /\ Entry(frame, {}).flags = {}
  BY DEF Entry, NoEntry
<1>5. /\ <<Second(ptest), w>> \in SoloCalls
      /\ <<Third(ptest), w>> \in SoloCalls
      /\ <<Fourth(ptest), NoEntry>> \in SoloCalls
  BY DEF SoloCalls
<1> HIDE DEF page, frame, w, a, b, c, d
<1>6. /\ ptest # <<>> /\ Head(ptest) = a /\ Tail(ptest) = Second(ptest)
      /\ Second(ptest) # <<>> /\ Head(Second(ptest)) = b /\ Tail(Second(ptest)) = Third(ptest)
      /\ Third(ptest) # <<>> /\ Head(Third(ptest)) = c /\ Tail(Third(ptest)) = Fourth(ptest)
      /\ Fourth(ptest) # <<>> /\ Head(Fourth(ptest)) = d /\ Tail(Fourth(ptest)) = <<>>
  <2>1. /\ ptest # <<>> /\ Head(ptest) = a
        /\ Second(ptest) # <<>> /\ Head(Second(ptest)) = b
        /\ Third(ptest) # <<>> /\ Head(Third(ptest)) = c
        /\ Fourth(ptest) # <<>> /\ Head(Fourth(ptest)) = d
        /\ Tail(Fourth(ptest)) = <<>>
    BY <1>1, <1>2, Suffixes4
  <2> QED BY <2>1 DEF Second, Third, Fourth
<1>7. Told(Fourth(ptest), NoEntry)
  <2>1. Follows(Fourth(ptest), NoEntry)
    BY <1>3, <1>4, <1>5, <1>6 DEF Follows
  <2> QED BY <2>1, <1>4, <1>6, ToldMapped DEF d
<1>8. Told(Third(ptest), w)
  <2>1. Follows(Third(ptest), NoEntry)
    BY <1>3, <1>4, <1>5, <1>6 DEF Follows
  <2> QED BY <2>1, <1>4, <1>6, ToldUnmap DEF c
<1>9. Told(Second(ptest), w)
  <2>1. Follows(Second(ptest), w)
    BY <1>3, <1>4, <1>5, <1>6 DEF Follows
  <2> QED BY <2>1, <1>4, <1>6, ToldMapped DEF b
<1>10. Follows(ptest, w)
  BY <1>3, <1>5, <1>6 DEF Follows
<1> QED BY <1>6, <1>7, <1>8, <1>9, <1>10 DEF a, page, frame, w

LEMMA DptestTold ==
  LET frame == <<4, 0>>
      w == Entry(frame, {"writable"})
  IN  /\ dptest # <<>> /\ Head(dptest) = Map(<<4, 0>>, frame, {"writable"}) /\ Follows(dptest, w)
      /\ Told(Second(dptest), w) /\ Told(Third(dptest), w) /\ Told(Fourth(dptest), NoEntry)
<1> DEFINE page == <<4, 0>>
           frame == <<4, 0>>
           w == Entry(frame, {"writable"})
           a == Map(page, frame, {"writable"})
           b == Mapped(page, TRUE)
           c == Unmap(page)
           d == Mapped(page, FALSE)
<1>1. dptest = <<a, b, c, d>>
  BY DEF dptest
<1>2. a \in TestCalls /\ b \in TestCalls /\ c \in TestCalls
        /\ d \in TestCalls
  <2>1. page \in TestPages /\ frame \in Frames /\ {"writable"} \in SUBSET {"writable"}
          /\ {} \in SUBSET {"writable"}
    BY TestFrames DEF TestPages
  <2> HIDE DEF page, frame
  <2> QED BY <2>1, CallKinds
<1>3. a.page = page /\ b.page = page /\ c.page = page /\ d.page = page
  BY DEF Map, Mapped, TranslatesTo, Writable, Unmap, Protect, Call
<1>4. w.present /\ w.frame = frame /\ w.flags = {"writable"} /\ NoEntry.present = FALSE
        /\ Entry(frame, {}).present /\ Entry(frame, {}).flags = {}
  BY DEF Entry, NoEntry
<1>5. /\ <<Second(dptest), w>> \in SoloCalls
      /\ <<Third(dptest), w>> \in SoloCalls
      /\ <<Fourth(dptest), NoEntry>> \in SoloCalls
  BY DEF SoloCalls
<1> HIDE DEF page, frame, w, a, b, c, d
<1>6. /\ dptest # <<>> /\ Head(dptest) = a /\ Tail(dptest) = Second(dptest)
      /\ Second(dptest) # <<>> /\ Head(Second(dptest)) = b /\ Tail(Second(dptest)) = Third(dptest)
      /\ Third(dptest) # <<>> /\ Head(Third(dptest)) = c /\ Tail(Third(dptest)) = Fourth(dptest)
      /\ Fourth(dptest) # <<>> /\ Head(Fourth(dptest)) = d /\ Tail(Fourth(dptest)) = <<>>
  <2>1. /\ dptest # <<>> /\ Head(dptest) = a
        /\ Second(dptest) # <<>> /\ Head(Second(dptest)) = b
        /\ Third(dptest) # <<>> /\ Head(Third(dptest)) = c
        /\ Fourth(dptest) # <<>> /\ Head(Fourth(dptest)) = d
        /\ Tail(Fourth(dptest)) = <<>>
    BY <1>1, <1>2, Suffixes4
  <2> QED BY <2>1 DEF Second, Third, Fourth
<1>7. Told(Fourth(dptest), NoEntry)
  <2>1. Follows(Fourth(dptest), NoEntry)
    BY <1>3, <1>4, <1>5, <1>6 DEF Follows
  <2> QED BY <2>1, <1>4, <1>6, ToldMapped DEF d
<1>8. Told(Third(dptest), w)
  <2>1. Follows(Third(dptest), NoEntry)
    BY <1>3, <1>4, <1>5, <1>6 DEF Follows
  <2> QED BY <2>1, <1>4, <1>6, ToldUnmap DEF c
<1>9. Told(Second(dptest), w)
  <2>1. Follows(Second(dptest), w)
    BY <1>3, <1>4, <1>5, <1>6 DEF Follows
  <2> QED BY <2>1, <1>4, <1>6, ToldMapped DEF b
<1>10. Follows(dptest, w)
  BY <1>3, <1>5, <1>6 DEF Follows
<1> QED BY <1>6, <1>7, <1>8, <1>9, <1>10 DEF a, page, frame, w

LEMMA VmtestTold ==
  LET frame == <<8, 0>>
      w == Entry(frame, {"writable"})
  IN  /\ vmtest # <<>> /\ Head(vmtest) = Map(<<4, 1>>, frame, {"writable"}) /\ Follows(vmtest, w)
      /\ Told(Second(vmtest), w) /\ Told(Third(vmtest), w) /\ Told(Fourth(vmtest), w)
      /\ Told(Fifth(vmtest), Entry(frame, {})) /\ Told(Sixth(vmtest), Entry(frame, {}))
<1> DEFINE page == <<4, 1>>
           frame == <<8, 0>>
           w == Entry(frame, {"writable"})
           a == Map(page, frame, {"writable"})
           b == TranslatesTo(page, frame)
           c == Writable(page, TRUE)
           d == Protect(page, {})
           e == Writable(page, FALSE)
           f == Unmap(page)
<1>1. vmtest = <<a, b, c, d, e, f>>
  BY DEF vmtest
<1>2. a \in TestCalls /\ b \in TestCalls /\ c \in TestCalls
        /\ d \in TestCalls /\ e \in TestCalls /\ f \in TestCalls
  <2>1. page \in TestPages /\ frame \in Frames /\ {"writable"} \in SUBSET {"writable"}
          /\ {} \in SUBSET {"writable"}
    BY TestFrames DEF TestPages
  <2> HIDE DEF page, frame
  <2> QED BY <2>1, CallKinds
<1>3. a.page = page /\ b.page = page /\ c.page = page /\ d.page = page /\ e.page = page /\ f.page = page
  BY DEF Map, Mapped, TranslatesTo, Writable, Unmap, Protect, Call
<1>4. w.present /\ w.frame = frame /\ w.flags = {"writable"} /\ NoEntry.present = FALSE
        /\ Entry(frame, {}).present /\ Entry(frame, {}).flags = {}
  BY DEF Entry, NoEntry
<1>5. /\ <<Second(vmtest), w>> \in SoloCalls
      /\ <<Third(vmtest), w>> \in SoloCalls
      /\ <<Fourth(vmtest), w>> \in SoloCalls
      /\ <<Fifth(vmtest), Entry(frame, {})>> \in SoloCalls
      /\ <<Sixth(vmtest), Entry(frame, {})>> \in SoloCalls
  BY DEF SoloCalls
<1> HIDE DEF page, frame, w, a, b, c, d, e, f
<1>6. /\ vmtest # <<>> /\ Head(vmtest) = a /\ Tail(vmtest) = Second(vmtest)
      /\ Second(vmtest) # <<>> /\ Head(Second(vmtest)) = b /\ Tail(Second(vmtest)) = Third(vmtest)
      /\ Third(vmtest) # <<>> /\ Head(Third(vmtest)) = c /\ Tail(Third(vmtest)) = Fourth(vmtest)
      /\ Fourth(vmtest) # <<>> /\ Head(Fourth(vmtest)) = d /\ Tail(Fourth(vmtest)) = Fifth(vmtest)
      /\ Fifth(vmtest) # <<>> /\ Head(Fifth(vmtest)) = e /\ Tail(Fifth(vmtest)) = Sixth(vmtest)
      /\ Sixth(vmtest) # <<>> /\ Head(Sixth(vmtest)) = f /\ Tail(Sixth(vmtest)) = <<>>
  <2>1. /\ vmtest # <<>> /\ Head(vmtest) = a
        /\ Second(vmtest) # <<>> /\ Head(Second(vmtest)) = b
        /\ Third(vmtest) # <<>> /\ Head(Third(vmtest)) = c
        /\ Fourth(vmtest) # <<>> /\ Head(Fourth(vmtest)) = d
        /\ Fifth(vmtest) # <<>> /\ Head(Fifth(vmtest)) = e
        /\ Sixth(vmtest) # <<>> /\ Head(Sixth(vmtest)) = f
        /\ Tail(Sixth(vmtest)) = <<>>
    BY <1>1, <1>2, Suffixes6
  <2> QED BY <2>1 DEF Second, Third, Fourth, Fifth, Sixth
<1>7. Told(Sixth(vmtest), Entry(frame, {}))
  <2>1. Follows(Sixth(vmtest), NoEntry)
    BY <1>3, <1>4, <1>5, <1>6 DEF Follows
  <2> QED BY <2>1, <1>4, <1>6, ToldUnmap DEF f
<1>8. Told(Fifth(vmtest), Entry(frame, {}))
  <2>1. Follows(Fifth(vmtest), Entry(frame, {}))
    BY <1>3, <1>4, <1>5, <1>6 DEF Follows
  <2> QED BY <2>1, <1>4, <1>6, ToldWritable DEF e
<1>9. Told(Fourth(vmtest), w)
  <2>1. Follows(Fourth(vmtest), Entry(w.frame, {}))
    BY <1>3, <1>4, <1>5, <1>6 DEF Follows
  <2> QED BY <2>1, <1>4, <1>6, ToldProtect DEF d
<1>10. Told(Third(vmtest), w)
  <2>1. Follows(Third(vmtest), w)
    BY <1>3, <1>4, <1>5, <1>6 DEF Follows
  <2> QED BY <2>1, <1>4, <1>6, ToldWritable DEF c
<1>11. Told(Second(vmtest), w)
  <2>1. Follows(Second(vmtest), w)
    BY <1>3, <1>4, <1>5, <1>6 DEF Follows
  <2> QED BY <2>1, <1>4, <1>6, ToldFrame DEF b
<1>12. Follows(vmtest, w)
  BY <1>3, <1>5, <1>6 DEF Follows
<1> QED BY <1>6, <1>7, <1>8, <1>9, <1>10, <1>11, <1>12 DEF a, page, frame, w

LEMMA VmaptestTold ==
  LET frame == <<0, 1>>
      w == Entry(frame, {"writable"})
  IN  /\ vmaptest # <<>> /\ Head(vmaptest) = Map(<<4, 0>>, frame, {"writable"}) /\ Follows(vmaptest, w)
      /\ Told(Second(vmaptest), w) /\ Told(Third(vmaptest), w) /\ Told(Fourth(vmaptest), w)
      /\ Told(Fifth(vmaptest), w) /\ Told(Sixth(vmaptest), NoEntry)
<1> DEFINE page == <<4, 0>>
           frame == <<0, 1>>
           w == Entry(frame, {"writable"})
           a == Map(page, frame, {"writable"})
           b == Mapped(page, TRUE)
           c == TranslatesTo(page, frame)
           d == Writable(page, TRUE)
           e == Unmap(page)
           f == Mapped(page, FALSE)
<1>1. vmaptest = <<a, b, c, d, e, f>>
  BY DEF vmaptest
<1>2. a \in TestCalls /\ b \in TestCalls /\ c \in TestCalls
        /\ d \in TestCalls /\ e \in TestCalls /\ f \in TestCalls
  <2>1. page \in TestPages /\ frame \in Frames /\ {"writable"} \in SUBSET {"writable"}
          /\ {} \in SUBSET {"writable"}
    BY TestFrames DEF TestPages
  <2> HIDE DEF page, frame
  <2> QED BY <2>1, CallKinds
<1>3. a.page = page /\ b.page = page /\ c.page = page /\ d.page = page /\ e.page = page /\ f.page = page
  BY DEF Map, Mapped, TranslatesTo, Writable, Unmap, Protect, Call
<1>4. w.present /\ w.frame = frame /\ w.flags = {"writable"} /\ NoEntry.present = FALSE
        /\ Entry(frame, {}).present /\ Entry(frame, {}).flags = {}
  BY DEF Entry, NoEntry
<1>5. /\ <<Second(vmaptest), w>> \in SoloCalls
      /\ <<Third(vmaptest), w>> \in SoloCalls
      /\ <<Fourth(vmaptest), w>> \in SoloCalls
      /\ <<Fifth(vmaptest), w>> \in SoloCalls
      /\ <<Sixth(vmaptest), NoEntry>> \in SoloCalls
  BY DEF SoloCalls
<1> HIDE DEF page, frame, w, a, b, c, d, e, f
<1>6. /\ vmaptest # <<>> /\ Head(vmaptest) = a /\ Tail(vmaptest) = Second(vmaptest)
      /\ Second(vmaptest) # <<>> /\ Head(Second(vmaptest)) = b /\ Tail(Second(vmaptest)) = Third(vmaptest)
      /\ Third(vmaptest) # <<>> /\ Head(Third(vmaptest)) = c /\ Tail(Third(vmaptest)) = Fourth(vmaptest)
      /\ Fourth(vmaptest) # <<>> /\ Head(Fourth(vmaptest)) = d /\ Tail(Fourth(vmaptest)) = Fifth(vmaptest)
      /\ Fifth(vmaptest) # <<>> /\ Head(Fifth(vmaptest)) = e /\ Tail(Fifth(vmaptest)) = Sixth(vmaptest)
      /\ Sixth(vmaptest) # <<>> /\ Head(Sixth(vmaptest)) = f /\ Tail(Sixth(vmaptest)) = <<>>
  <2>1. /\ vmaptest # <<>> /\ Head(vmaptest) = a
        /\ Second(vmaptest) # <<>> /\ Head(Second(vmaptest)) = b
        /\ Third(vmaptest) # <<>> /\ Head(Third(vmaptest)) = c
        /\ Fourth(vmaptest) # <<>> /\ Head(Fourth(vmaptest)) = d
        /\ Fifth(vmaptest) # <<>> /\ Head(Fifth(vmaptest)) = e
        /\ Sixth(vmaptest) # <<>> /\ Head(Sixth(vmaptest)) = f
        /\ Tail(Sixth(vmaptest)) = <<>>
    BY <1>1, <1>2, Suffixes6
  <2> QED BY <2>1 DEF Second, Third, Fourth, Fifth, Sixth
<1>7. Told(Sixth(vmaptest), NoEntry)
  <2>1. Follows(Sixth(vmaptest), NoEntry)
    BY <1>3, <1>4, <1>5, <1>6 DEF Follows
  <2> QED BY <2>1, <1>4, <1>6, ToldMapped DEF f
<1>8. Told(Fifth(vmaptest), w)
  <2>1. Follows(Fifth(vmaptest), NoEntry)
    BY <1>3, <1>4, <1>5, <1>6 DEF Follows
  <2> QED BY <2>1, <1>4, <1>6, ToldUnmap DEF e
<1>9. Told(Fourth(vmaptest), w)
  <2>1. Follows(Fourth(vmaptest), w)
    BY <1>3, <1>4, <1>5, <1>6 DEF Follows
  <2> QED BY <2>1, <1>4, <1>6, ToldWritable DEF d
<1>10. Told(Third(vmaptest), w)
  <2>1. Follows(Third(vmaptest), w)
    BY <1>3, <1>4, <1>5, <1>6 DEF Follows
  <2> QED BY <2>1, <1>4, <1>6, ToldFrame DEF c
<1>11. Told(Second(vmaptest), w)
  <2>1. Follows(Second(vmaptest), w)
    BY <1>3, <1>4, <1>5, <1>6 DEF Follows
  <2> QED BY <2>1, <1>4, <1>6, ToldMapped DEF b
<1>12. Follows(vmaptest, w)
  BY <1>3, <1>5, <1>6 DEF Follows
<1> QED BY <1>6, <1>7, <1>8, <1>9, <1>10, <1>11, <1>12 DEF a, page, frame, w

(* So for every call of an undisturbed test.                              *)
LEMMA TestsTold ==
  /\ \A s, e : <<s, e>> \in SoloCalls => Told(s, e)
  /\ \A test \in Tests :
       /\ test # <<>> /\ Head(test).op = "map"
       /\ Follows(test, Entry(Head(test).frame, Head(test).flags))
       /\ "user" \notin Head(test).flags
<1>1. \A s, e : <<s, e>> \in SoloCalls => Told(s, e)
  BY PtestTold, DptestTold, VmtestTold, VmaptestTold DEF SoloCalls
<1>2. ASSUME NEW test \in Tests
      PROVE  \E page, frame : /\ test # <<>> /\ Head(test) = Map(page, frame, {"writable"})
                              /\ Follows(test, Entry(frame, {"writable"}))
  BY PtestTold, DptestTold, VmtestTold, VmaptestTold DEF Tests
<1> QED BY <1>1, <1>2, CallPages

-----------------------------------------------------------------------------
(* An undisturbed test has the machine to itself.                          *)
LEMMA SoloBoot ==
  ASSUME BaseInv, ~Booted, failed = {}, NEW c \in Contexts, Enter(c) \/ KernelStep(c)
  PROVE  failed' = {} /\ (Booted' => \A d \in Contexts : pc'[d] = "poll")
<1>1. PICK n \in 1..4 : script[0] = Rest(n)
  BY DEF BaseInv, ScriptInv
<1>2. /\ pc[0] \in {"call", "fetch", "store", "invlpg"} /\ pc[1] = "off" /\ script[1] = <<>>
      /\ pc \in [Contexts -> PcLabels] /\ Contexts = {0, 1}
  BY DEF BaseInv, ScriptInv, Booted, TestsTypeOK, Contexts
<1>3. c = 0
  BY <1>2 DEF Enter, KernelStep, Finish, MapCheck, MapFind, MapClaim, MapClear, MapInstall,
     MapFetch, MapStore, Invalidate, FetchTable, ClearEntry, CheckEntry, LoadEntry, ChangeFlags,
     Read, Calls
<1>4. CASE Finish(c)
  BY <1>2, <1>3, <1>4 DEF Finish
<1>5. CASE ~Finish(c)
  <2>1. script[c] # <<>>
    BY <1>2, <1>3, <1>5 DEF Enter, KernelStep, MapCheck, MapFind, MapClaim, MapClear, MapInstall,
       MapFetch, MapStore, Invalidate, FetchTable, ClearEntry, CheckEntry, LoadEntry, ChangeFlags,
       Read, Calls, BaseInv, ScriptInv
  <2>2. n \in 1..3 /\ This(c) = user_mode_init[n]
    <3>1. n # 4
      BY <1>1, <1>3, <2>1, BootCalls
    <3> QED BY <1>1, <1>3, <3>1, RestHead DEF This
  <2>3. This(c).op = "map" /\ This(c).expect = TRUE
    BY <2>2, BootCalls
  <2>4. failed' = failed
    <3>1. CASE Invalidate(c)
      BY <2>3, <3>1 DEF Invalidate, Returns
    <3>2. CASE ~Invalidate(c)
      BY <1>2, <1>3, <1>5, <2>3, <3>2 DEF Enter, KernelStep, MapCheck, MapFind, MapClaim, MapClear,
         MapInstall, MapFetch, MapStore, FetchTable, ClearEntry, CheckEntry, LoadEntry, ChangeFlags,
         Read, Calls
    <3> QED BY <3>1, <3>2
  <2>5. ~Booted'
    BY <1>2, <1>3, <1>5, OthersStay DEF Booted
  <2> QED BY <2>4, <2>5
<1> QED BY <1>4, <1>5

LEMMA Alone ==
  ASSUME BaseInv, Booted, NEW c \in Contexts, KernelStep(c), ~Finish(c)
  PROVE  /\ pc[c] # "poll" /\ pc'[c] # "poll" /\ disturbed' = disturbed
         /\ script[c] # <<>> /\ c \in DOMAIN script /\ c \in DOMAIN pc
         /\ c \in DOMAIN found /\ c \in DOMAIN loaded
<1>1. pc \in [Contexts -> PcLabels] /\ script \in [Contexts -> Seq(AllCalls)]
        /\ found \in [Contexts -> Tables \cup {None}] /\ loaded \in [Contexts -> Entries]
  BY DEF BaseInv, TestsTypeOK
<1>2. pc[c] # "poll" /\ script[c] # <<>>
  BY DEF KernelStep, MapCheck, MapFind, MapClaim, MapClear, MapInstall,
     MapFetch, MapStore, Invalidate, FetchTable, ClearEntry, CheckEntry, LoadEntry, ChangeFlags,
     Read, Calls, BaseInv, ScriptInv
<1>3. disturbed' = disturbed
  BY DEF KernelStep, MapCheck, MapFind, MapClaim, MapClear, MapInstall,
     MapFetch, MapStore, Invalidate, FetchTable, ClearEntry, CheckEntry, LoadEntry, ChangeFlags,
     Read, history
<1>4. pc'[c] # "poll"
  <2>1. \A l : Goto(c, l) => pc'[c] = l
    BY <1>1 DEF Goto
  <2>2. \A answer : Returns(c, answer) => pc'[c] = "call"
    BY <2>1 DEF Returns
  <2>3. FetchTable(c) => pc'[c] \in {"call", "unmap", "protect"}
    BY <2>1, <2>2 DEF FetchTable, Calls
  <2> QED BY <2>1, <2>2, <2>3 DEF KernelStep, MapCheck, MapFind, MapClaim, MapClear, MapInstall,
     MapFetch, MapStore, Invalidate, ClearEntry, CheckEntry, LoadEntry, ChangeFlags, Read
<1> QED BY <1>1, <1>2, <1>3, <1>4

(* The steps of the other context.                                         *)
LEMMA OtherSolo ==
  ASSUME BaseInv, Booted, SoloInv, NEW c \in Contexts, Enter(c) \/ KernelStep(c),
         NEW d \in Contexts \ {c}
  PROVE  ~Solo(d)' /\ (pc'[d] = "poll" => d \notin failed')
<1>1. pc'[d] = pc[d]
  <2>1. CASE Finish(c)
    BY <2>1 DEF Finish, Booted, BaseInv, ScriptInv, Contexts
  <2>2. CASE ~Finish(c)
    BY <2>2, OthersStay
  <2> QED BY <2>1, <2>2
<1>2. failed' \subseteq failed \cup {c}
  BY DEF Enter, KernelStep, Finish, MapCheck, MapFind, MapClaim, MapClear, MapInstall,
     MapFetch, MapStore, Invalidate, FetchTable, ClearEntry, CheckEntry, LoadEntry, ChangeFlags,
     Read, Returns
<1>3. ASSUME Solo(d)' PROVE FALSE
  <2>1. d \notin disturbed' /\ pc[d] # "poll"
    BY <1>1, <1>3 DEF Solo
  <2>2. CASE Enter(c)
    BY <2>1, <2>2 DEF Enter, Busy
  <2>3. CASE KernelStep(c)
    <3>1. d \notin disturbed /\ pc[c] # "poll"
      <4>1. CASE Finish(c)
        BY <2>1, <4>1 DEF Finish
      <4>2. CASE ~Finish(c)
        BY <2>1, <2>3, <4>2, Alone
      <4> QED BY <4>1, <4>2
    <3> QED BY <2>1, <3>1 DEF SoloInv, Solo, Tells
  <2> QED BY <2>2, <2>3
<1> QED BY <1>1, <1>2, <1>3 DEF SoloInv

-----------------------------------------------------------------------------
(* The steps of an undisturbed test.                                       *)
LEMMA SoloEntry ==
  ASSUME BaseInv, Booted, NEW c \in Contexts, Tells(c), pc[c] # "invlpg", script[c] # <<>>
  PROVE  IF This(c).op = "map"
         THEN script[c] \in Tests /\ Follows(script[c], Entry(This(c).frame, This(c).flags))
         ELSE Told(script[c], Walk(Page(c)))
<1>1. script[c] \in Tests \/ Told(script[c], Walk(Page(c)))
  BY TestsTold DEF Tells
<1> QED BY <1>1, TestsTold DEF Told, This

LEMMA SoloPage ==
  ASSUME BaseInv, Booted, NEW c \in Contexts, script[c] # <<>>
  PROVE  /\ Page(c)[1] \in Slots /\ Page(c)[2] \in Indexes /\ Page(c) \in Pages
         /\ Page(c) = <<Page(c)[1], Page(c)[2]>> /\ "user" \notin This(c).flags
         /\ page_directory[Page(c)[1]].present \/ Page(c)[1] = 4
<1>1. /\ Page(c)[1] \in Slots /\ Page(c)[2] \in Indexes /\ Page(c) \in Pages
      /\ Page(c) = <<Page(c)[1], Page(c)[2]>>
  BY HeadTyped DEF BaseInv, Pages
<1>2. "user" \notin This(c).flags /\ (Page(c)[1] = 3 \/ Page(c)[1] = 4)
  BY TestHead DEF BaseInv
<1>3. page_directory[3].present
  BY TestDomains DEF BaseInv, DirectoryInv
<1> QED BY <1>1, <1>2, <1>3

(* A step that stays in the call.                                          *)
LEMMA SoloStays ==
  ASSUME BaseInv, Booted, NEW c \in Contexts, Tells(c), KernelStep(c), ~Finish(c),
         UNCHANGED <<script, failed>>, pc[c] # "invlpg", pc'[c] # "invlpg",
         Walk(Page(c))' = Walk(Page(c)) \/ script[c] \in Tests,
         pc'[c] \in Making => ~page_directory'[4].present,
         pc'[c] \in Holding => found'[c] = page_directory'[Page(c)[1]].table,
         pc'[c] = "change" => loaded'[c].frame = Walk(Page(c))'.frame
  PROVE  Tells(c)'
<1>1. Page(c)' = Page(c) /\ script'[c] = script[c]
  BY DEF Page, This
<1>2. \A d \in Contexts \ {c} : pc'[d] = "poll"
  BY OthersStay DEF Tells
<1>3. script[c] # <<>> /\ (script[c] \in Tests \/ <<script[c], Walk(Page(c))'>> \in SoloCalls)
  BY Alone DEF Tells
<1>4. c \notin failed'
  BY DEF Tells
<1> QED BY <1>1, <1>2, <1>3, <1>4 DEF Tells

(* A step that stores the entry.                                           *)
LEMMA SoloStores ==
  ASSUME BaseInv, Booted, NEW c \in Contexts, Tells(c), KernelStep(c), ~Finish(c),
         UNCHANGED <<script, failed>>, pc'[c] = "invlpg", Follows(script[c], Walk(Page(c))')
  PROVE  Tells(c)'
<1>1. Page(c)' = Page(c) /\ script'[c] = script[c]
  BY DEF Page, This
<1>2. \A d \in Contexts \ {c} : pc'[d] = "poll"
  BY OthersStay DEF Tells
<1>3. c \notin failed' /\ "invlpg" \notin Making /\ "invlpg" \notin Holding /\ "invlpg" # "change"
  BY DEF Tells, Making, Holding
<1> QED BY <1>1, <1>2, <1>3 DEF Tells

(* A call that answers what the test expects.                              *)
LEMMA SoloReturns ==
  ASSUME BaseInv, Booted, NEW c \in Contexts, Tells(c), KernelStep(c), ~Finish(c),
         NEW answer, Returns(c, answer), answer = This(c).expect,
         UNCHANGED <<page_directory, tables>>, Follows(script[c], Walk(Page(c)))
  PROVE  Tells(c)'
<1>1. pc'[c] = "call" /\ script'[c] = Tail(script[c]) /\ failed' = failed
  BY Alone DEF Returns, Goto
<1>2. \A d \in Contexts \ {c} : pc'[d] = "poll"
  BY OthersStay DEF Tells
<1>3. c \notin failed' /\ "call" \notin Making /\ "call" \notin Holding
  BY <1>1, Labels DEF Tells
<1>4. script'[c] = <<>> \/ <<script'[c], Walk(Page(c))'>> \in SoloCalls
  <2>1. CASE Tail(script[c]) = <<>>
    BY <1>1, <2>1
  <2>2. CASE Tail(script[c]) # <<>>
    <3>1. Page(c)' = Page(c) /\ <<Tail(script[c]), Walk(Page(c))>> \in SoloCalls
      BY <1>1, <2>2 DEF Follows, Page, This
    <3>2. Walk(Page(c))' = Walk(Page(c))
      BY <3>1 DEF Walk
    <3> QED BY <1>1, <3>1, <3>2
  <2> QED BY <2>1, <2>2
<1> QED BY <1>1, <1>2, <1>3, <1>4 DEF Tells

(* map_page_flags.                                                         *)
LEMMA SoloMaps ==
  ASSUME BaseInv, PoolInv, Booted, NEW c \in Contexts, Tells(c),
         MapCheck(c) \/ MapFind(c) \/ MapClaim(c) \/ MapClear(c) \/ MapInstall(c) \/ MapFetch(c)
  PROVE  Tells(c)'
<1>1. KernelStep(c) /\ ~Finish(c) /\ pc[c] # "invlpg" /\ This(c).op = "map"
  BY DEF KernelStep, Finish, MapCheck, MapFind, MapClaim, MapClear, MapInstall, MapFetch, Calls,
     BaseInv, ScriptInv, Making
<1>2. script[c] # <<>> /\ script[c] \in Tests
  BY <1>1, Alone, SoloEntry
<1>3. c \in DOMAIN pc /\ c \in DOMAIN found
  BY <1>1, Alone
<1>4. CASE MapCheck(c)
  <2>1. UNCHANGED <<script, failed, page_directory>>
    BY <1>4 DEF MapCheck, shared
  <2>2. \/ pc'[c] = "fetch"
        \/ pc'[c] = "find" /\ ~page_directory[Page(c)[1]].present
    BY <1>3, <1>4 DEF MapCheck, Goto
  <2>3. pc'[c] = "find" => ~page_directory'[4].present
    BY <1>2, <2>1, <2>2, SoloPage
  <2>4. pc'[c] \notin Holding /\ ("fetch" \notin Making)
    BY <2>2 DEF Holding, Making
  <2> QED BY <1>1, <1>2, <2>1, <2>2, <2>3, <2>4, SoloStays
<1>5. CASE MapFind(c)
  <2>1. ~(DynamicTables \subseteq dynamic_table_used)
    <3>1. ~page_directory[4].present
      BY <1>5 DEF MapFind, Tells, Making
    <3>2. Claimed = {}
      BY <1>5 DEF MapFind, Tells, Claimed
    <3> QED BY <3>1, <3>2, TestDomains DEF PoolInv
  <2>2. UNCHANGED <<script, failed, page_directory>> /\ pc'[c] = "claim"
    BY <1>3, <1>5, <2>1 DEF MapFind, Goto, shared
  <2>3. pc[c] \in Making /\ "claim" \notin Holding
    BY <1>5 DEF MapFind, Making, Holding
  <2> QED BY <1>1, <1>2, <2>2, <2>3, SoloStays DEF Tells
<1>6. CASE MapClaim(c)
  <2>1. UNCHANGED <<script, failed, page_directory>> /\ pc'[c] = "clear"
    BY <1>3, <1>6 DEF MapClaim, Goto, shared
  <2>2. pc[c] \in Making /\ "clear" \notin Holding
    BY <1>6 DEF MapClaim, Making, Holding
  <2> QED BY <1>1, <1>2, <2>1, <2>2, SoloStays DEF Tells
<1>7. CASE MapClear(c)
  <2>1. UNCHANGED <<script, failed, page_directory>> /\ pc'[c] \in {"clear", "install"}
    BY <1>3, <1>7 DEF MapClear, Goto, shared
  <2>2. pc[c] \in Making /\ "clear" \notin Holding /\ "install" \notin Holding
    BY <1>7 DEF MapClear, Making, Holding
  <2> QED BY <1>1, <1>2, <2>1, <2>2, SoloStays DEF Tells
<1>8. CASE MapInstall(c)
  <2>1. UNCHANGED <<script, failed>> /\ pc'[c] = "fetch"
    BY <1>3, <1>8 DEF MapInstall, Goto
  <2>2. "fetch" \notin Making /\ "fetch" \notin Holding
    BY DEF Making, Holding
  <2> QED BY <1>1, <1>2, <2>1, <2>2, SoloStays
<1>9. CASE MapFetch(c)
  <2>1. UNCHANGED <<script, failed>> /\ pc'[c] = "store"
        /\ found'[c] = page_directory[Page(c)[1]].table
    BY <1>3, <1>9 DEF MapFetch, Goto
  <2>2. page_directory' = page_directory
    BY <1>2, <1>9, SoloPage, PromotedKept DEF MapFetch
  <2>3. "store" \notin Making
    BY DEF Making
  <2> QED BY <1>1, <1>2, <2>1, <2>2, <2>3, SoloStays
<1> QED BY <1>4, <1>5, <1>6, <1>7, <1>8, <1>9

(* What is stored in the table of the slot is what the CPU finds.          *)
LEMMA SoloWalk ==
  ASSUME BaseInv, Booted, NEW c \in Contexts, script[c] # <<>>, Tells(c), pc[c] \in Holding,
         NEW e \in Stored, "user" \notin e.flags, UNCHANGED <<page_directory, script>>,
         tables' = [tables EXCEPT ![found[c]][Page(c)[2]] = e]
  PROVE  Walk(Page(c))' = e /\ found[c] \in Tables
<1>1. /\ Page(c)[1] \in Slots /\ Page(c)[2] \in Indexes
      /\ Page(c) = <<Page(c)[1], Page(c)[2]>>
  BY SoloPage
<1>2. page_directory[Page(c)[1]].present /\ found[c] = page_directory[Page(c)[1]].table
  BY DEF BaseInv, HoldInv, Tells
<1>3. found[c] \in Tables
  BY <1>1, <1>2, TableOf
<1>4. tables'[found[c]][Page(c)[2]] = e
  BY <1>1, <1>3, StoreTyped DEF BaseInv
<1>5. Page(c)' = Page(c)
  BY DEF Page, This
<1> QED BY <1>1, <1>2, <1>3, <1>4, <1>5, StoredWalk

LEMMA SoloStore ==
  ASSUME BaseInv, Booted, NEW c \in Contexts, Tells(c), MapStore(c)
  PROVE  Tells(c)'
<1>1. KernelStep(c) /\ ~Finish(c) /\ pc[c] # "invlpg" /\ This(c).op = "map" /\ pc[c] \in Holding
  BY DEF KernelStep, Finish, MapStore, BaseInv, ScriptInv, Holding
<1>2. script[c] # <<>> /\ Follows(script[c], Entry(This(c).frame, This(c).flags))
  BY <1>1, Alone, SoloEntry
<1>3. /\ This(c).frame \in Frames /\ Masked(This(c).flags) = This(c).flags
      /\ "user" \notin This(c).flags
  BY <1>2, HeadTyped, SoloPage DEF BaseInv
<1> DEFINE e == Entry(This(c).frame, This(c).flags)
<1>4. e \in Stored /\ e.flags = This(c).flags
  <2>1. e \in Stored
    BY <1>2, <1>3, StoredCall
  <2> QED BY <2>1 DEF Entry
<1>5. tables' = [tables EXCEPT ![found[c]][Page(c)[2]] = e] /\ UNCHANGED <<page_directory, script, failed>>
        /\ pc'[c] = "invlpg"
  BY <1>1, <1>3, Alone DEF MapStore, Goto
<1> HIDE DEF e
<1>6. Walk(Page(c))' = e
  BY <1>1, <1>2, <1>3, <1>4, <1>5, SoloWalk
<1> QED BY <1>1, <1>2, <1>5, <1>6, SoloStores DEF e

(* unmap_page and set_page_flags.                                          *)
LEMMA SoloFinds ==
  ASSUME BaseInv, Booted, NEW c \in Contexts, script[c] # <<>>, Walk(Page(c)).present
  PROVE  /\ page_directory[Page(c)[1]].present
         /\ tables[page_directory[Page(c)[1]].table][Page(c)[2]].present
         /\ tables[page_directory[Page(c)[1]].table][Page(c)[2]].frame = Walk(Page(c)).frame
<1> DEFINE e == tables[page_directory[Page(c)[1]].table][Page(c)[2]]
<1>1. ~NoEntry.present /\ \A f, r : Entry(f, r).frame = f
  BY DEF NoEntry, Entry
<1>2. page_directory[Page(c)[1]].present /\ e.present
  BY <1>1 DEF Walk
<1>3. \E r : Walk(Page(c)) = Entry(e.frame, r)
  BY <1>2 DEF Walk
<1> QED BY <1>1, <1>2, <1>3

LEMMA SoloFetch ==
  ASSUME BaseInv, Booted, NEW c \in Contexts, Tells(c), FetchTable(c)
  PROVE  Tells(c)'
<1>1. KernelStep(c) /\ ~Finish(c) /\ pc[c] = "call" /\ This(c).op \in {"unmap", "protect"}
        /\ script[c] # <<>>
  BY DEF KernelStep, Finish, FetchTable, Calls
<1>2. Walk(Page(c)).present
  <2>1. Told(script[c], Walk(Page(c)))
    BY <1>1, SoloEntry
  <2> QED BY <1>1, <2>1 DEF Told, This
<1>3. page_directory[Page(c)[1]].present
  BY <1>1, <1>2, SoloFinds
<1>4. UNCHANGED <<script, failed, page_directory, tables>> /\ pc'[c] \in {"unmap", "protect"}
        /\ found'[c] = page_directory[Page(c)[1]].table
  BY <1>1, <1>3, Alone DEF FetchTable, Goto, shared
<1>5. Walk(Page(c))' = Walk(Page(c))
  BY <1>4 DEF Walk, Page, This
<1>6. pc'[c] \notin Making
  BY <1>4 DEF Making
<1> QED BY <1>1, <1>4, <1>5, <1>6, SoloStays

LEMMA SoloClear ==
  ASSUME BaseInv, Booted, NEW c \in Contexts, Tells(c), ClearEntry(c)
  PROVE  Tells(c)'
<1>1. KernelStep(c) /\ ~Finish(c) /\ pc[c] # "invlpg" /\ This(c).op = "unmap" /\ pc[c] \in Holding
        /\ script[c] # <<>>
  BY DEF KernelStep, Finish, ClearEntry, BaseInv, ScriptInv, Holding
<1>2. Follows(script[c], NoEntry)
  <2>1. Told(script[c], Walk(Page(c)))
    BY <1>1, SoloEntry
  <2> QED BY <1>1, <2>1 DEF Told, This
<1>3. tables' = [tables EXCEPT ![found[c]][Page(c)[2]] = NoEntry]
        /\ UNCHANGED <<page_directory, script, failed>> /\ pc'[c] = "invlpg"
  BY <1>1, Alone DEF ClearEntry, Goto
<1>4. NoEntry \in Stored /\ "user" \notin NoEntry.flags
  BY DEF Stored, NoEntry
<1>5. Walk(Page(c))' = NoEntry
  BY <1>1, <1>3, <1>4, SoloWalk
<1> QED BY <1>1, <1>2, <1>3, <1>5, SoloStores

LEMMA SoloChange ==
  ASSUME BaseInv, Booted, NEW c \in Contexts, Tells(c),
         CheckEntry(c) \/ LoadEntry(c) \/ ChangeFlags(c)
  PROVE  Tells(c)'
<1>1. KernelStep(c) /\ ~Finish(c) /\ pc[c] # "invlpg" /\ This(c).op = "protect" /\ pc[c] \in Holding
        /\ script[c] # <<>>
  BY DEF KernelStep, Finish, CheckEntry, LoadEntry, ChangeFlags, BaseInv, ScriptInv, Holding
<1>2. Walk(Page(c)).present /\ Follows(script[c], Entry(Walk(Page(c)).frame, This(c).flags))
  <2>1. Told(script[c], Walk(Page(c)))
    BY <1>1, SoloEntry
  <2> QED BY <1>1, <2>1 DEF Told, This
<1>3. FoundEntry(c).present /\ FoundEntry(c).frame = Walk(Page(c)).frame
  BY <1>1, <1>2, SoloFinds DEF FoundEntry, Tells
<1>4. CASE CheckEntry(c)
  <2>1. UNCHANGED <<script, failed, page_directory, tables, found>> /\ pc'[c] = "load"
    BY <1>1, <1>3, <1>4, Alone DEF CheckEntry, Goto, shared
  <2>2. Walk(Page(c))' = Walk(Page(c))
    BY <2>1 DEF Walk, Page, This
  <2>3. "load" \notin Making
    BY DEF Making
  <2> QED BY <1>1, <2>1, <2>2, <2>3, SoloStays DEF Tells
<1>5. CASE LoadEntry(c)
  <2>1. UNCHANGED <<script, failed, tables, found>> /\ pc'[c] = "change"
          /\ loaded'[c] = FoundEntry(c)
    BY <1>1, <1>5, Alone DEF LoadEntry, Goto
  <2>2. page_directory' = page_directory
    BY <1>1, <1>5, SoloPage, PromotedKept DEF LoadEntry
  <2>3. Walk(Page(c))' = Walk(Page(c))
    BY <2>1, <2>2 DEF Walk, Page, This
  <2>4. "change" \notin Making
    BY DEF Making
  <2> QED BY <1>1, <1>3, <2>1, <2>2, <2>3, <2>4, SoloStays DEF Tells
<1>6. CASE ChangeFlags(c)
  <2>1. This(c).flags \in SUBSET Rights /\ Masked(This(c).flags) = This(c).flags
          /\ "user" \notin This(c).flags
    BY <1>1, HeadTyped, SoloPage DEF BaseInv
  <2>2. loaded[c].frame = Walk(Page(c)).frame /\ loaded[c].frame \in Frames
    BY <1>6 DEF ChangeFlags, Tells, BaseInv, TestsTypeOK, Entries
  <2> DEFINE e == Entry(loaded[c].frame, This(c).flags)
  <2>3. e \in Stored /\ e.flags = This(c).flags
    <3>1. e \in Stored
      BY <1>1, <2>1, <2>2, StoredCall
    <3> QED BY <3>1 DEF Entry
  <2>4. tables' = [tables EXCEPT ![found[c]][Page(c)[2]] = e]
          /\ UNCHANGED <<page_directory, script, failed>> /\ pc'[c] = "invlpg"
    BY <1>1, <1>6, <2>1, Alone DEF ChangeFlags, Goto
  <2>5. Follows(script[c], e)
    BY <1>2, <2>2
  <2> HIDE DEF e
  <2>6. Walk(Page(c))' = e
    BY <1>1, <2>1, <2>3, <2>4, SoloWalk
  <2> QED BY <1>1, <2>4, <2>5, <2>6, SoloStores
<1> QED BY <1>4, <1>5, <1>6

(* The calls that answer.                                                  *)
LEMMA SoloAnswers ==
  ASSUME BaseInv, Booted, NEW c \in Contexts, Tells(c), Invalidate(c) \/ Read(c)
  PROVE  Tells(c)'
<1>1. KernelStep(c) /\ ~Finish(c) /\ script[c] # <<>> /\ UNCHANGED <<page_directory, tables>>
  <2>1. KernelStep(c)
    BY DEF KernelStep
  <2>2. ~Finish(c) /\ script[c] # <<>>
    BY DEF Finish, Invalidate, Read, Calls, BaseInv, ScriptInv
  <2>3. UNCHANGED <<page_directory, tables>>
    BY DEF Invalidate, Read, shared
  <2> QED BY <2>1, <2>2, <2>3
<1>2. CASE Invalidate(c)
  <2>1. This(c).op \in Changes /\ This(c) \in TestCalls
    BY <1>1, <1>2, TestHead DEF Invalidate, BaseInv, ScriptInv
  <2>2. This(c).expect = TRUE
    BY <2>1 DEF TestCalls
  <2>3. Follows(script[c], Walk(Page(c))) /\ Returns(c, TRUE)
    BY <1>2 DEF Invalidate, Tells
  <2> QED BY <1>1, <2>2, <2>3, SoloReturns
<1>3. CASE Read(c)
  <2>1. pc[c] # "invlpg" /\ This(c).op \in {"mapped", "frame", "writable"}
    BY <1>3 DEF Read, Calls
  <2>2. Told(script[c], Walk(Page(c)))
    BY <1>1, <2>1, SoloEntry
  <2>3. Follows(script[c], Walk(Page(c)))
    BY <2>1, <2>2 DEF Told, This
  <2>4. CASE This(c).op = "mapped"
    BY <1>1, <1>3, <2>2, <2>3, <2>4, SoloReturns DEF Read, Calls, Told, This
  <2>5. CASE This(c).op = "frame"
    BY <1>1, <1>3, <2>2, <2>3, <2>5, SoloReturns DEF Read, Calls, Told, This
  <2>6. CASE This(c).op = "writable"
    <3>1. Returns(c, "writable" \in Walk(Page(c)).flags)
      BY <1>3, <2>6 DEF Read, Calls
    <3>2. ("writable" \in Walk(Page(c)).flags) = This(c).expect
      BY <2>2, <2>6 DEF Told, This
    <3> QED BY <1>1, <2>3, <3>1, <3>2, SoloReturns
  <2> QED BY <2>1, <2>4, <2>5, <2>6
<1> QED BY <1>2, <1>3

LEMMA OwnSolo ==
  ASSUME BaseInv, PoolInv, Booted, SoloInv, NEW c \in Contexts, Enter(c) \/ KernelStep(c)
  PROVE  (Solo(c)' => Tells(c)') /\ (pc'[c] = "poll" => c \notin failed')
<1>1. pc \in [Contexts -> PcLabels] /\ script \in [Contexts -> Seq(AllCalls)]
        /\ \A d \in Contexts : pc[d] # "off"
  BY DEF BaseInv, ScriptInv, Booted, Contexts, TestsTypeOK
<1>2. CASE Enter(c)
  <2>1. pc[c] = "poll" /\ pc'[c] = "call" /\ c \notin failed'
    BY <1>1, <1>2 DEF Enter, Goto, SoloInv
  <2>2. script'[c] \in Tests
    BY <1>1, <1>2 DEF Enter, Tests
  <2>3. c \notin disturbed' => \A d \in Contexts \ {c} : pc'[d] = "poll"
    BY <1>1, <1>2 DEF Enter, Goto, Busy
  <2> QED BY <2>1, <2>2, <2>3, Labels DEF Solo, Tells
<1>3. CASE Finish(c)
  <2>1. pc'[c] = "poll" /\ c \notin failed'
    BY <1>1, <1>3 DEF Finish
  <2> QED BY <2>1 DEF Solo
<1>4. CASE KernelStep(c) /\ ~Finish(c)
  <2>1. pc'[c] # "poll"
    BY <1>4, Alone
  <2>2. ASSUME Solo(c)' PROVE Tells(c)'
    <3>1. Solo(c)
      BY <1>4, <2>2, Alone DEF Solo
    <3>2. Tells(c)
      BY <3>1 DEF SoloInv
    <3> QED
      BY <1>4, <3>2, SoloMaps, SoloStore, SoloFetch, SoloClear, SoloChange, SoloAnswers DEF KernelStep
  <2> QED BY <2>1, <2>2
<1> QED BY <1>2, <1>3, <1>4

LEMMA SoloInductive == TestSpec => []SoloInv
<1>1. TestInit => SoloInv
  <2> SUFFICES ASSUME TestInit PROVE SoloInv
    OBVIOUS
  <2>1. failed = {} /\ ~Booted
    BY DEF TestInit, Booted, Contexts
  <2> QED BY <2>1 DEF SoloInv, Solo
<1>2. BaseInv /\ BaseInv' /\ PoolInv /\ SoloInv /\ [TestNext]_allvars => SoloInv'
  <2> SUFFICES ASSUME BaseInv, BaseInv', PoolInv, SoloInv, [TestNext]_allvars PROVE SoloInv'
    OBVIOUS
  <2>1. CASE UNCHANGED <<page_directory, tables, locals>>
    BY <2>1 DEF SoloInv, Solo, Tells, Booted, Walk, Page, This, locals
  <2>2. ASSUME NEW c \in Contexts, Enter(c) \/ KernelStep(c) PROVE SoloInv'
    <3>1. CASE ~Booted
      <4>1. failed' = {} /\ (Booted' => \A d \in Contexts : pc'[d] = "poll")
        BY <2>2, <3>1, SoloBoot DEF SoloInv
      <4> QED BY <4>1 DEF SoloInv, Solo
    <3>2. CASE Booted
      <4>1. Booted'
        BY <2>2, <3>2, StepBooted
      <4>2. \A d \in Contexts \ {c} : ~Solo(d)' /\ (pc'[d] = "poll" => d \notin failed')
        BY <2>2, <3>2, OtherSolo
      <4>3. (Solo(c)' => Tells(c)') /\ (pc'[c] = "poll" => c \notin failed')
        BY <2>2, <3>2, OwnSolo
      <4> QED BY <4>1, <4>2, <4>3 DEF SoloInv
    <3> QED BY <3>1, <3>2
  <2>3. CASE Hardware /\ UNCHANGED locals
    BY <2>1, <2>3 DEF Hardware, TlbFill, TlbEvict
  <2>4. CASE UNCHANGED allvars
    BY <2>1, <2>4 DEF allvars, shared
  <2> QED BY <2>2, <2>3, <2>4 DEF TestNext
<1> QED BY <1>1, <1>2, BaseInductive, PoolInductive, PTL DEF TestSpec

(* A test that meets no other is never told anything but what it expects,  *)
(* whatever the tests before it, undisturbed or not, have left of the      *)
(* tables, the pool and the directory.                                     *)
THEOREM TestsTellTheTruth == TestSpec => []NoTestFails
<1>1. BaseInv /\ SoloInv => NoTestFails
  <2> SUFFICES ASSUME BaseInv, SoloInv, NEW c \in failed, c \notin disturbed PROVE FALSE
    BY DEF NoTestFails
  <2>1. c \in Contexts
    BY DEF BaseInv, TestsTypeOK
  <2>2. Booted /\ pc[c] # "poll"
    BY <2>1 DEF SoloInv
  <2> QED BY <2>1, <2>2 DEF SoloInv, Solo, Tells
<1> QED BY <1>1, BaseInductive, SoloInductive, PTL
=============================================================================
