----------------------------- MODULE PageTests -----------------------------
(***************************************************************************)
(* The clients of paging.c: user_mode_init, which opens three pages to     *)
(* user programs during the boot, and the shell commands ptest, dptest,    *)
(* vmtest and vmaptest, executed by two contexts that the timer may        *)
(* interrupt between any two accesses to the shared tables.                *)
(*                                                                         *)
(* A command is a sequence of calls with the answers it expects; a call    *)
(* that answers otherwise is a line "[FAIL]".  map_page_flags is taken     *)
(* apart: test the directory, find a table, claim it, clear it, install    *)
(* it, fetch it, store the entry, invalidate.  So is the change of an      *)
(* entry by set_page_flags: test it, load it, store it.                    *)
(*                                                                         *)
(* Only the first page of a slot and one other matter, so index 1 stands   *)
(* for the index of the second page a slot is used with: 0x400000 and      *)
(* 0x500000 are in slot 1, 0x800000 in slot 2, 0xE00000 in slot 3,         *)
(* 0x1000000 and 0x1001000 in slot 4.  The user frames are kernel pages.   *)
(***************************************************************************)
EXTENDS Paging, Integers, Sequences

CONSTANT
  TypeAhead     \* a command may be entered while another is executing

Contexts == 0..1      \* boot and shell
None     == -1

ASSUME TestsAssumption ==
  /\ TypeAhead \in BOOLEAN
  /\ TABLE_ENTRIES >= 2 /\ INITIAL_PAGE_TABLES = 4 /\ DIRECTORY_SLOTS > 4

Call(op, page, frame, flags, expect) ==
  [op |-> op, page |-> page, frame |-> frame, flags |-> flags, expect |-> expect]

Map(page, frame, flags)    == Call("map", page, frame, flags, TRUE)
Unmap(page)                == Call("unmap", page, <<0, 0>>, {}, TRUE)
Protect(page, flags)       == Call("protect", page, <<0, 0>>, flags, TRUE)
Mapped(page, expect)       == Call("mapped", page, <<0, 0>>, {}, expect)
TranslatesTo(page, frame)  == Call("frame", page, <<0, 0>>, {}, frame)
Writable(page, expect)     == Call("writable", page, <<0, 0>>, {}, expect)

user_mode_init == << Map(<<1, 0>>, <<0, 0>>, {"user"}),
                     Map(<<1, 1>>, <<0, 1>>, {"user"}),
                     Map(<<2, 0>>, <<0, 1>>, {"writable", "user"}) >>

UserPages == {user_mode_init[n].page : n \in DOMAIN user_mode_init}

ptest  == << Map(<<3, 1>>, <<0, 1>>, {"writable"}), Mapped(<<3, 1>>, TRUE),
             Unmap(<<3, 1>>), Mapped(<<3, 1>>, FALSE) >>

dptest == << Map(<<4, 0>>, <<4, 0>>, {"writable"}), Mapped(<<4, 0>>, TRUE),
             Unmap(<<4, 0>>), Mapped(<<4, 0>>, FALSE) >>

vmtest == << Map(<<4, 1>>, <<8, 0>>, {"writable"}), TranslatesTo(<<4, 1>>, <<8, 0>>),
             Writable(<<4, 1>>, TRUE), Protect(<<4, 1>>, {}), Writable(<<4, 1>>, FALSE),
             Unmap(<<4, 1>>) >>

vmaptest == << Map(<<4, 0>>, <<0, 1>>, {"writable"}), Mapped(<<4, 0>>, TRUE),
               TranslatesTo(<<4, 0>>, <<0, 1>>), Writable(<<4, 0>>, TRUE),
               Unmap(<<4, 0>>), Mapped(<<4, 0>>, FALSE) >>

VARIABLES
  pc,           \* where each context is: "off", "poll", "call", or inside a call
  script,       \* the calls each context still has to make
  found,        \* the table a context has found or fetched
  cursor,       \* the index allocate_dynamic_table clears next
  loaded,       \* the entry set_page_flags has loaded
  failed,       \* contexts whose command has printed a [FAIL]
  disturbed,    \* history: contexts whose command met another one
  raced         \* history: both were creating a table at once

locals == <<pc, script, found, cursor, loaded, failed, disturbed, raced>>
history == <<disturbed, raced>>
shared == <<page_directory, tables, dynamic_table_used, tlb, result>>
allvars == <<shared, locals>>

(* The boot context executes user_mode_init; sti comes after it.           *)
TestInit ==
  /\ Init
  /\ pc = [c \in Contexts |-> IF c = 0 THEN "call" ELSE "off"]
  /\ script = [c \in Contexts |-> IF c = 0 THEN user_mode_init ELSE <<>>]
  /\ found = [c \in Contexts |-> None]
  /\ cursor = [c \in Contexts |-> 0]
  /\ loaded = [c \in Contexts |-> NoEntry]
  /\ failed = {} /\ disturbed = {} /\ raced = FALSE

This(c) == Head(script[c])
Page(c) == This(c).page
Goto(c, label) == pc' = [pc EXCEPT ![c] = label]

Busy == {c \in Contexts : pc[c] # "poll"}

Enter(c) ==
  /\ pc[c] = "poll"
  /\ TypeAhead \/ Busy = {}
  /\ disturbed' = IF Busy = {} THEN disturbed ELSE Contexts
  /\ \E test \in {ptest, dptest, vmtest, vmaptest} : script' = [script EXCEPT ![c] = test]
  /\ Goto(c, "call")
  /\ UNCHANGED <<shared, found, cursor, loaded, failed, raced>>

(* The command is over; at the end of the boot both contexts start polling.*)
Finish(c) ==
  /\ pc[c] = "call" /\ script[c] = <<>>
  /\ pc' = [d \in Contexts |-> IF d = c \/ pc[d] = "off" THEN "poll" ELSE pc[d]]
  /\ failed' = failed \ {c} /\ disturbed' = disturbed \ {c}
  /\ UNCHANGED <<shared, script, found, cursor, loaded, raced>>

(* The call returns `answer' to the command, which goes on in any case.    *)
Returns(c, answer) ==
  /\ script' = [script EXCEPT ![c] = Tail(@)]
  /\ failed' = IF answer = This(c).expect THEN failed ELSE failed \cup {c}
  /\ Goto(c, "call")

Calls(c, op) == pc[c] = "call" /\ script[c] # <<>> /\ This(c).op = op

-----------------------------------------------------------------------------
(* map_page_flags                                                          *)
Creating == {"claim", "clear", "install"}

MapCheck(c) ==
  /\ Calls(c, "map")
  /\ \/ page_directory[Page(c)[1]].present /\ Goto(c, "fetch") /\ UNCHANGED raced
     \/ /\ ~page_directory[Page(c)[1]].present
        /\ Goto(c, "find")
        /\ raced' = (raced \/ \E d \in Contexts : pc[d] \in {"find"} \cup Creating)
  /\ UNCHANGED <<shared, script, found, cursor, loaded, failed, disturbed>>

MapFind(c) ==
  /\ pc[c] = "find"
  /\ \/ /\ DynamicTables \subseteq dynamic_table_used
        /\ Returns(c, FALSE)
        /\ UNCHANGED found
     \/ /\ \E t \in DynamicTables : Allocatable(t) /\ found' = [found EXCEPT ![c] = t]
        /\ Goto(c, "claim")
        /\ UNCHANGED <<script, failed>>
  /\ UNCHANGED <<shared, cursor, loaded, history>>

MapClaim(c) ==
  /\ pc[c] = "claim"
  /\ dynamic_table_used' = Taken(found[c])
  /\ cursor' = [cursor EXCEPT ![c] = 0]
  /\ Goto(c, "clear")
  /\ UNCHANGED <<page_directory, tables, tlb, result, script, found, loaded, failed, history>>

MapClear(c) ==
  /\ pc[c] = "clear"
  /\ tables' = [tables EXCEPT ![found[c]][cursor[c]] = NoEntry]
  /\ cursor' = [cursor EXCEPT ![c] = (@ + 1) % TABLE_ENTRIES]
  /\ Goto(c, IF cursor[c] = TABLE_ENTRIES - 1 THEN "install" ELSE "clear")
  /\ UNCHANGED <<page_directory, dynamic_table_used, tlb, result, script, found, loaded, failed, history>>

MapInstall(c) ==
  /\ pc[c] = "install"
  /\ page_directory' = [page_directory EXCEPT ![Page(c)[1]] =
                          [present |-> TRUE, table |-> found[c], user |-> FALSE]]
  /\ Goto(c, "fetch")
  /\ UNCHANGED <<tables, dynamic_table_used, tlb, result, script, found, cursor, loaded, failed, history>>

MapFetch(c) ==
  /\ pc[c] = "fetch"
  /\ page_directory' = [page_directory EXCEPT ![Page(c)[1]] = Promoted(@, This(c).flags)]
  /\ found' = [found EXCEPT ![c] = page_directory[Page(c)[1]].table]
  /\ Goto(c, "store")
  /\ UNCHANGED <<tables, dynamic_table_used, tlb, result, script, cursor, loaded, failed, history>>

MapStore(c) ==
  /\ pc[c] = "store"
  /\ tables' = [tables EXCEPT ![found[c]][Page(c)[2]] =
                  Entry(This(c).frame, Masked(This(c).flags))]
  /\ Goto(c, "invlpg")
  /\ UNCHANGED <<page_directory, dynamic_table_used, tlb, result, script, found, cursor, loaded, failed, history>>

(* invlpg and the return, for all three calls that change an entry.        *)
Invalidate(c) ==
  /\ pc[c] = "invlpg"
  /\ invalidate_page(Page(c))
  /\ Returns(c, TRUE)
  /\ UNCHANGED <<page_directory, tables, dynamic_table_used, result, found, cursor, loaded, history>>

-----------------------------------------------------------------------------
(* unmap_page and set_page_flags: fetch the table, then store the entry.   *)
FetchTable(c) ==
  /\ Calls(c, "unmap") \/ Calls(c, "protect")
  /\ \/ /\ ~page_directory[Page(c)[1]].present
        /\ Returns(c, FALSE)
        /\ UNCHANGED found
     \/ /\ page_directory[Page(c)[1]].present
        /\ found' = [found EXCEPT ![c] = page_directory[Page(c)[1]].table]
        /\ Goto(c, This(c).op)
        /\ UNCHANGED <<script, failed>>
  /\ UNCHANGED <<shared, cursor, loaded, history>>

FoundEntry(c) == tables[found[c]][Page(c)[2]]

(* Mutant: unmap_page clears the directory slot.                           *)
ClearEntry_DropsTable(c) ==
  /\ pc[c] = "unmap"
  /\ page_directory' = [page_directory EXCEPT ![Page(c)[1]] = NoTable]
  /\ Goto(c, "invlpg")
  /\ UNCHANGED <<tables, dynamic_table_used, tlb, result, script, found, cursor, loaded, failed, history>>

ClearEntry(c) ==
  /\ pc[c] = "unmap"
  /\ tables' = [tables EXCEPT ![found[c]][Page(c)[2]] = NoEntry]
  /\ Goto(c, "invlpg")
  /\ UNCHANGED <<page_directory, dynamic_table_used, tlb, result, script, found, cursor, loaded, failed, history>>

CheckEntry(c) ==
  /\ pc[c] = "protect"
  /\ \/ ~FoundEntry(c).present /\ Returns(c, FALSE)
     \/ FoundEntry(c).present /\ Goto(c, "load") /\ UNCHANGED <<script, failed>>
  /\ UNCHANGED <<shared, found, cursor, loaded, history>>

LoadEntry(c) ==
  /\ pc[c] = "load"
  /\ page_directory' = [page_directory EXCEPT ![Page(c)[1]] = Promoted(@, This(c).flags)]
  /\ loaded' = [loaded EXCEPT ![c] = FoundEntry(c)]
  /\ Goto(c, "change")
  /\ UNCHANGED <<tables, dynamic_table_used, tlb, result, script, found, cursor, failed, history>>

(* Mutant: the new flags are added to the old ones.                        *)
ChangeFlags_Adds(c) ==
  /\ pc[c] = "change"
  /\ tables' = [tables EXCEPT ![found[c]][Page(c)[2]] =
                  Entry(loaded[c].frame, loaded[c].flags \cup Masked(This(c).flags))]
  /\ loaded' = [loaded EXCEPT ![c] = NoEntry]
  /\ Goto(c, "invlpg")
  /\ UNCHANGED <<page_directory, dynamic_table_used, tlb, result, script, found, cursor, failed, history>>

ChangeFlags(c) ==
  /\ pc[c] = "change"
  /\ tables' = [tables EXCEPT ![found[c]][Page(c)[2]] =
                  Entry(loaded[c].frame, Masked(This(c).flags))]
  /\ loaded' = [loaded EXCEPT ![c] = NoEntry]
  /\ Goto(c, "invlpg")
  /\ UNCHANGED <<page_directory, dynamic_table_used, tlb, result, script, found, cursor, failed, history>>

(* is_page_mapped, virtual_to_physical (which leaves its argument, zero,   *)
(* when there is no page) and get_page_flags: one read of the entry.       *)
Read(c) ==
  LET e == Walk(Page(c))
  IN /\ \/ Calls(c, "mapped") /\ Returns(c, e.present)
        \/ Calls(c, "frame") /\ Returns(c, IF e.present THEN e.frame ELSE NoEntry.frame)
        \/ Calls(c, "writable") /\ Returns(c, "writable" \in e.flags)
     /\ UNCHANGED <<shared, found, cursor, loaded, history>>

-----------------------------------------------------------------------------
KernelStep(c) ==
  \/ Finish(c)
  \/ MapCheck(c) \/ MapFind(c) \/ MapClaim(c) \/ MapClear(c) \/ MapInstall(c)
  \/ MapFetch(c) \/ MapStore(c) \/ Invalidate(c)
  \/ FetchTable(c) \/ ClearEntry(c)
  \/ CheckEntry(c) \/ LoadEntry(c) \/ ChangeFlags(c) \/ Read(c)

Hardware == \/ \E p \in Pages : TlbFill(p)
            \/ \E e \in tlb : TlbEvict(e)

TestNext == \/ \E c \in Contexts : Enter(c) \/ KernelStep(c)
            \/ Hardware /\ UNCHANGED locals

TestSpec == TestInit /\ [][TestNext]_allvars

-----------------------------------------------------------------------------
Booted == pc[1] # "off"

(* A test that is not disturbed by another tells the truth: none of its    *)
(* expectations fails, with tables and pages that earlier tests left       *)
(* behind, and with what two tests that ran at once made of them.          *)
NoTestFails == failed \subseteq disturbed

(* User programs can reach the three pages of user_mode_init and no other, *)
(* each on the frame it was given, whatever the tests do: slots 1 and 2    *)
(* are open in the directory, and only the entries keep kernel memory      *)
(* closed.                                                                 *)
UserSeesOnlyItsPages ==
  Booted => /\ \A p \in Pages : "user" \in Walk(p).flags <=> p \in UserPages
            /\ \A n \in DOMAIN user_mode_init :
                 Walk(user_mode_init[n].page) =
                   Entry(user_mode_init[n].frame, user_mode_init[n].flags)

(* But for the user pages and the one ptest borrows, the kernel's memory   *)
(* stays mapped onto itself.                                               *)
KernelStaysMapped ==
  \A p \in PageTables \X Indexes :
    p \in UserPages \cup {ptest[1].page} \/ Walk(p) = Entry(p, {"writable"})

(* Whatever the tests do, alone or against each other, the boot's mappings *)
(* survive them: those of the user programs and those of the kernel.       *)
MapAsBooted == UserSeesOnlyItsPages /\ KernelStaysMapped

(* The pool's tables that no slot holds and no context is about to install.*)
LostTables ==
  {t \in dynamic_table_used :
     /\ \A s \in Slots : page_directory[s].present => page_directory[s].table # t
     /\ \A c \in Contexts : pc[c] \in Creating => found[c] # t}

(* Two contexts that race for the table of a slot can lose one, and never  *)
(* a second: once the slot has a table nobody allocates for it again.      *)
LeakBounded == Cardinality(LostTables) <= IF raced THEN 1 ELSE 0

(* No cached translation outlives its change, except of a page whose entry *)
(* a context has stored and not yet invalidated, and, after a race for a   *)
(* table, of a page it mapped: nobody invalidates what a table that is     *)
(* cleared or replaced had mapped.                                         *)
TlbFresh ==
  \A e \in tlb :
    \/ e.entry = Walk(e.page)
    \/ \E c \in Contexts : pc[c] = "invlpg" /\ Page(c) = e.page
    \/ raced /\ e.page[1] \notin PageTables
=============================================================================
