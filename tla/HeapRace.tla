------------------------------ MODULE HeapRace ------------------------------
(***************************************************************************)
(* kmalloc and kfree (kernel/memory.c) one store to shared memory a step,  *)
(* under the shell's two callers, memtest and memstress, in the two        *)
(* contexts that execute commands.  The bitmap is bytes: marking a page    *)
(* loads its byte and stores it back.  The two searches, which only read,  *)
(* are one step each.                                                      *)
(*                                                                         *)
(* With type-ahead two commands overlap.  Bounds: only the commands of     *)
(* Overlapping do, and OVERLAPS more of them follow before a reboot.       *)
(***************************************************************************)
EXTENDS HeapTable, Sequences

CONSTANTS
  BYTE,                  \* 8, pages of a byte of the bitmap
  PAGES_A, PAGES_B, PAGES_C,  \* 1, 2 and 4, the sizes memstress asks for
  Overlapping,           \* bound: the commands that may overlap
  OVERLAPS               \* bound: of them, until the next boot

ASSUME HeapRaceAssumption ==
  /\ BYTE \in Nat \ {0}
  /\ PAGES_A \in Nat \ {0} /\ PAGES_B \in Nat \ {0} /\ PAGES_C \in Nat \ {0}

Contexts == 0..1
None     == -1
Pointers == {"a", "b", "c", "d"}

VARIABLES
  frame,                 \* of each context: its command and its locals
  overlaps               \* history: commands begun since two were under way at once

race_vars == <<heap, frame, overlaps>>

Alloc(p, n) == [op |-> "kmalloc", pointer |-> p, pages |-> n]
Release(p)  == [op |-> "kfree", pointer |-> p, pages |-> 0]

memtest == <<Alloc("a", 1), Release("a")>>

(* Mutant: the block that replaced b is forgotten.                         *)
memstress_KeepsD ==
  <<Alloc("a", PAGES_A), Alloc("b", PAGES_B), Alloc("c", PAGES_C), Release("b"),
    Alloc("d", PAGES_B), Release("a"), Release("c")>>

memstress ==
  <<Alloc("a", PAGES_A), Alloc("b", PAGES_B), Alloc("c", PAGES_C), Release("b"),
    Alloc("d", PAGES_B), Release("a"), Release("c"), Release("d")>>

Polling == [pc |-> "idle", command |-> "none", calls |-> <<>>, at |-> [p \in Pointers |-> None],
            start |-> None, slot |-> None, i |-> 0, byte |-> {}, total |-> 0]

RaceInit == HeapClean /\ frame = [s \in Contexts |-> Polling] /\ overlaps = 0

At(s, label) == frame[s].pc = label
Call(s)      == Head(frame[s].calls)
Block(s)     == frame[s].start

Goto(s, label) == frame' = [frame EXCEPT ![s].pc = label]

(* The call returns; the pointer is what it allocated, or NULL.            *)
CallReturns(s, pointer) ==
  frame' = [frame EXCEPT ![s].pc = "call", ![s].calls = Tail(@),
                         ![s].at = [@ EXCEPT ![Call(s).pointer] = pointer],
                         ![s].start = None, ![s].slot = None, ![s].i = 0,
                         ![s].byte = {}, ![s].total = 0]

-----------------------------------------------------------------------------
Enter(s) ==
  /\ At(s, "idle") /\ overlaps < OVERLAPS
  /\ \A t \in Contexts : frame[t].command \in Overlapping \cup {"none"}
  /\ overlaps' = IF overlaps > 0 \/ \E t \in Contexts : ~At(t, "idle")
                 THEN overlaps + 1 ELSE 0
  /\ \E c \in IF overlaps' > 0 THEN Overlapping ELSE {"memtest", "memstress"} :
       frame' = [frame EXCEPT ![s].pc = "call", ![s].command = c,
                              ![s].calls = IF c = "memtest" THEN memtest ELSE memstress]
  /\ UNCHANGED heap

(* The next call of the command; kfree ignores NULL.                       *)
NextCall(s) ==
  /\ At(s, "call")
  /\ IF frame[s].calls = <<>> THEN frame' = [frame EXCEPT ![s] = Polling]
     ELSE IF Call(s).op = "kmalloc" THEN Goto(s, "find")
     ELSE IF frame[s].at[Call(s).pointer] = None THEN CallReturns(s, None)
     ELSE Goto(s, "search")
  /\ UNCHANGED heap

-----------------------------------------------------------------------------
(* kmalloc.                                                                *)
FindPages(s) ==
  /\ At(s, "find")
  /\ \/ Fits(Call(s).pages) = {} /\ CallReturns(s, None)
     \/ \E p \in Fits(Call(s).pages) :
          /\ IsFirst(p, Fits(Call(s).pages))
          /\ frame' = [frame EXCEPT ![s].pc = "slot", ![s].start = p]
  /\ UNCHANGED heap

FindSlot(s) ==
  /\ At(s, "slot")
  /\ \/ FreeSlots = {} /\ CallReturns(s, None)
     \/ \E i \in FreeSlots :
          /\ IsFirst(i, FreeSlots)
          /\ frame' = [frame EXCEPT ![s].pc = "mark", ![s].slot = i]
  /\ UNCHANGED heap

ByteOf(p) == {q \in Pages : q \div BYTE = p \div BYTE}

LoadByte(s, label) ==
  frame' = [frame EXCEPT ![s].pc = label,
                         ![s].byte = page_bitmap \cap ByteOf(Block(s) + frame[s].i)]

(* The pages whose bits a store of byte b over that of page p leaves set.  *)
Stored(p, b) == (page_bitmap \ ByteOf(p)) \cup b

Mark(s) ==
  /\ At(s, "mark")
  /\ IF frame[s].i < Call(s).pages THEN LoadByte(s, "set") ELSE Goto(s, "start_page")
  /\ UNCHANGED heap

(* Mutant: the byte is stored as if no other page of it were used.         *)
SetBit_Alone(s) ==
  /\ At(s, "set")
  /\ LET p == Block(s) + frame[s].i IN page_bitmap' = Stored(p, {p})
  /\ frame' = [frame EXCEPT ![s].pc = "mark", ![s].i = @ + 1]
  /\ UNCHANGED <<allocations, allocated_pages>>

SetBit(s) ==
  /\ At(s, "set")
  /\ LET p == Block(s) + frame[s].i IN page_bitmap' = Stored(p, frame[s].byte \cup {p})
  /\ frame' = [frame EXCEPT ![s].pc = "mark", ![s].i = @ + 1]
  /\ UNCHANGED <<allocations, allocated_pages>>

SetField(s, here, field, value, label) ==
  /\ At(s, here) /\ Goto(s, label)
  /\ allocations' = [allocations EXCEPT ![frame[s].slot] = [@ EXCEPT ![field] = value]]
  /\ UNCHANGED <<page_bitmap, allocated_pages>>

Claim(s) ==
  \/ SetField(s, "start_page", "start_page", Block(s), "page_count")
  \/ SetField(s, "page_count", "page_count", Call(s).pages, "used")
  \/ SetField(s, "used", "used", TRUE, "count")

LoadTotal(s) ==
  /\ At(s, "count")
  /\ frame' = [frame EXCEPT ![s].pc = "counted", ![s].total = allocated_pages]
  /\ UNCHANGED heap

Count(s) ==
  /\ At(s, "counted")
  /\ allocated_pages' = (frame[s].total + Call(s).pages) % WORD
  /\ CallReturns(s, Block(s))
  /\ UNCHANGED <<page_bitmap, allocations>>

-----------------------------------------------------------------------------
(* kfree.                                                                  *)
Search(s) ==
  LET p == frame[s].at[Call(s).pointer]
  IN /\ At(s, "search")
     /\ \/ Holders(p) = {} /\ CallReturns(s, None)
        \/ \E i \in Holders(p) :
             /\ IsFirst(i, Holders(p))
             /\ frame' = [frame EXCEPT ![s].pc = "unmark", ![s].start = p, ![s].slot = i]
     /\ UNCHANGED heap

Held(s) == allocations[frame[s].slot].page_count

Unmark(s) ==
  /\ At(s, "unmark")
  /\ IF frame[s].i < Held(s) THEN LoadByte(s, "clear") ELSE Goto(s, "uncount")
  /\ UNCHANGED heap

(* Mutant: the loop does not go on to the next page.                       *)
ClearBit_Again(s) ==
  /\ At(s, "clear")
  /\ LET p == Block(s) + frame[s].i IN page_bitmap' = Stored(p, frame[s].byte \ {p})
  /\ Goto(s, "unmark")
  /\ UNCHANGED <<allocations, allocated_pages>>

ClearBit(s) ==
  /\ At(s, "clear")
  /\ LET p == Block(s) + frame[s].i IN page_bitmap' = Stored(p, frame[s].byte \ {p})
  /\ frame' = [frame EXCEPT ![s].pc = "unmark", ![s].i = @ + 1]
  /\ UNCHANGED <<allocations, allocated_pages>>

LoadRest(s) ==
  /\ At(s, "uncount")
  /\ frame' = [frame EXCEPT ![s].pc = "uncounted", ![s].total = (allocated_pages - Held(s)) % WORD]
  /\ UNCHANGED heap

Uncount(s) ==
  /\ At(s, "uncounted") /\ Goto(s, "no_start")
  /\ allocated_pages' = frame[s].total
  /\ UNCHANGED <<page_bitmap, allocations>>

Clear(s) ==
  \/ SetField(s, "no_start", "start_page", 0, "no_count")
  \/ SetField(s, "no_count", "page_count", 0, "unused")
  \/ SetField(s, "unused", "used", FALSE, "return")

Return(s) == At(s, "return") /\ CallReturns(s, None) /\ UNCHANGED heap

Step(s) ==
  \/ NextCall(s) \/ FindPages(s) \/ FindSlot(s) \/ Mark(s) \/ SetBit(s)
  \/ Claim(s) \/ LoadTotal(s) \/ Count(s) \/ Search(s) \/ Unmark(s) \/ ClearBit(s)
  \/ LoadRest(s) \/ Uncount(s) \/ Clear(s) \/ Return(s)

(* The command reboot, or power off and on: a clean heap.                  *)
Reboot ==
  /\ overlaps > 0 /\ \A s \in Contexts : At(s, "idle")
  /\ page_bitmap' = {} /\ allocated_pages' = 0
  /\ allocations' = [i \in Slots |-> Free]
  /\ overlaps' = 0
  /\ UNCHANGED frame

RaceNext == Reboot \/ \E s \in Contexts : Enter(s) \/ (Step(s) /\ UNCHANGED overlaps)

RaceSpec == RaceInit /\ [][RaceNext]_race_vars

(* The scheduler runs both contexts.                                       *)
FairRaceSpec == RaceSpec /\ \A s \in Contexts : WF_race_vars(Step(s) /\ UNCHANGED overlaps)

-----------------------------------------------------------------------------
(* Types.                                                                  *)
RaceTypeOK ==
  /\ page_bitmap \subseteq Pages /\ allocated_pages \in 0..(WORD - 1)
  /\ allocations \in [Slots -> [start_page : Pages, page_count : Nat, used : BOOLEAN]]
  /\ \A s \in Contexts : frame[s].start \in Pages \cup {None} /\ frame[s].byte \subseteq Pages

(* The table implements the pool of disjoint blocks store by store: a      *)
(* block comes with the store of used and goes when kfree has found it,    *)
(* and no page is in two blocks in between.                                *)
BeingFreed == {frame[s].slot : s \in {t \in Contexts :
                 frame[t].pc \in {"unmark", "clear", "uncount", "uncounted",
                                  "no_start", "no_count", "unused"}}}

Blocks == {[start |-> allocations[i].start_page, count |-> allocations[i].page_count] :
             i \in {j \in Slots \ BeingFreed : allocations[j].used}}

RacePool == INSTANCE BlockPool WITH PoolPages <- TOTAL_PAGES, blocks <- Blocks

RacePoolSpec == RacePool!Init /\ [][overlaps > 0 \/ overlaps' > 0 \/ RacePool!Next]_Blocks

(* However two commands interleave, every loop of the allocator ends and   *)
(* both prompts return.                                                    *)
CommandReturns == \A s \in Contexts : ~At(s, "idle") ~> At(s, "idle")

(* shell.c:548: "[ OK ] All allocations released".  Once no command runs   *)
(* the bitmap, the table and the count are as they were at boot, whichever *)
(* of the calls failed, unless two commands ever overlapped.               *)
AllReleased ==
  overlaps = 0 /\ (\A s \in Contexts : At(s, "idle")) =>
    page_bitmap = {} /\ allocated_pages = 0 /\ \A i \in Slots : ~allocations[i].used

(* The same, with every variable in its range at every store between.      *)
HeapRestored == RaceTypeOK /\ AllReleased
=============================================================================
