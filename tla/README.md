# ValaOS: TLA+ specifications

ValaOS is a 32-bit x86 teaching kernel: two kernel contexts that poll the keyboard, a
timer-driven round robin between them, one user program at a time, a page allocator,
two-level paging, a polled ATA disk, and a sixteen-entry file system that is written out whole on
every change. These modules specify the parts of it that keep state, check them with TLC on small
instances and prove, for every value of the constants, most of the safety properties with TLAPS.

Run a check with `tlc -config heap.cfg MCHeap.tla`, a proof with `tlapm HeapProofs.tla`. A cfg named
after a run belongs to the module `PROJECT.json` gives for it.

## Inventory

| Component | State | Operations | What must hold |
|---|---|---|---|
| Scheduler (`task.c`, `timer.asm`) | `current_task`, `tasks[].state`, saved `esp`, the running stack | timer interrupt, `schedule_once`, `task_kill` | the task believed to run is the one on the CPU; the other can be resumed; both get the CPU |
| User processes (`task.c`, `user_mode.asm`, `syscall.*`, `tss.c`) | process table, `active_user_process`, `next_user_pid`, `user_return_esp`, interrupt flag, trap stack | `user_process_start`, `enter_user_mode`, `SYS_EXIT`, kill, fault | PIDs distinct, at most one running, an exit reaches the right entry and the right stack |
| Heap (`memory.c`) | bitmap, block table, page count | `kmalloc`, `kfree`; `memtest`, `memstress` | blocks disjoint and big enough, bitmap and count exact; a command leaves nothing behind |
| Paging (`paging.c`) | directory, 4 identity and 12 dynamic tables, TLB | map, unmap, flags, translate; the boot's user pages and the shell's four tests | a mapping reads back and disturbs no other; tables never run out; user programs see their pages only |
| File system (`vfs.c`) | entry table, current directory; header and ten data sectors | touch, mkdir, write, rm, cd, save, boot | the table is a tree with unique names; a successful save is on the disk; a crash damages one entry |
| Disk (`disk.c`) | ATA status and registers | sector read, sector write, `disk_test` | success means stored; an error is not overlooked; a call returns |
| Keyboard, console (`keyboard.c`) | `input`, `input_pos`, `key_down`, cursor, video memory | `keyboard_poll`, `putchar` | one key is one character; the row shows the line; Enter executes that line |
| Command line (`shell.c`) | its buffers | `parse_command_line` | the arguments are those the user wrote, or cut to size |
| Loader (`kernel.c`) | hex buffer, code page, stack page | hex decoding, argument vector | the whole program named is entered, with its arguments |
| Interrupt controller, boot, backups, website | none at run time, or not built | | not modelled |

How they interact: the boot context (`kernel_main`) and the shell context (`task_shell`) run
the same loop, `keyboard_poll`, which on Enter calls `execute_command` in whichever context read
the key. Both therefore share every static variable of the kernel, with no lock. The timer
interrupt swaps them at any instruction unless a user program runs or interrupts are off, and they
stay off after the first user program. A command calls the heap, paging, the loader, the file system
(which calls the disk) or the process table directly; a user program calls back through `int 0x80`.

What is hard: two preemptible contexts over shared statics; code that disables interrupts and
does not enable them; one trap stack for both contexts; a multi-sector save with no journal; polled
hardware with timeouts; a TLB that has to be told; counters, buffers and tables at their limits.
`PROJECT.json` lists each hazard at its line, with the properties aimed at it or the reason there is none.

**Waiting for the prompt.** Most of the kernel is right only if the user presses Enter when a prompt
is shown. A constant `TypeAhead` says whether Enter may be pressed while the other context executes a
command. `TypeAhead = FALSE` is the assumption of *one command at a time*, and it is two: the user waits for the prompt,
and no Enter is acted on by both contexts. The code ensures neither. The second is not even in the user's hands before the
first program: one press can reach both pollers (`KeyRace`, where `seen = 2` is reachable), and the line is then
executed twice at once. `RunsWhatWasAsked`, `ArgumentsArrive`, `ProcessesTracked`, `LifecycleSpec` and the theorems about
them hold only as far as that does not happen. Where type-ahead breaks something, a history variable (`overlaps`, `trouble`, `disturbed`,
`raced`) records that it happened, and the properties say what holds until then and what even so.

## Modules

| Module | Role | Composes |
|---|---|---|
| `ProcLifecycle` | abstract: processes start in order, one at a time, and end once | |
| `Sched` | CPU, timer, scheduler, process table, user mode | implements `ProcLifecycle` |
| `BlockPool` | abstract: a pool of disjoint blocks | |
| `HeapTable` | the heap's bitmap and table, and the searches in them | |
| `Heap` | `kmalloc`, `kfree`, one call a step | extends `HeapTable`, implements `BlockPool` |
| `HeapRace` | the same, one store a step, under `memtest` and `memstress` in two contexts | extends `HeapTable`, implements `BlockPool` |
| `AddressSpace` | abstract: one translation per page | |
| `Paging` | directory, tables, pool, TLB, one call a step | implements `AddressSpace` |
| `PageTests` | the boot's user pages and the shell's paging tests, access by access in two contexts | extends `Paging` |
| `Vfs` | entry table, sectors, crashes, failing writes | |
| `VfsKept` | what the user has been told is saved | observes `Vfs` |
| `SectorStore` | abstract: a store of sectors with calls that succeed or fail | |
| `Ata` | the driver at its ports and the drive, two contexts | implements `SectorStore` |
| `Console` | keyboard controller, `keyboard_poll`, line buffer, screen; one poller | |
| `KeyRace` | `keyboard_poll` access by access in two contexts | |
| `CommandLine` | `parse_command_line`, a character a step | |
| `Loader` | hex decoding and the argument stack, two contexts | |
| `RunCommand` | `run` and `selftest` from Enter to the program | `CommandLine`, `Loader` |
| `MC*` | constants for TLC | |
| `SchedProofs`, `HeapProofs`, `VfsProofs`, `LoaderProofs`, `AtaProofs`, `ConsoleProofs`, `KeyRaceProofs` | theorems about the module named; `HeapProofs` also about `HeapRace`, `LoaderProofs` about `RunCommand` and the `CommandLine` in it | |
| `PagingProofs` | theorems about `Paging` and `PageTests` | |

### Sched

`running` is the stack the CPU is on: context 0 (boot) or 1 (shell), `LOST` after a return through
overwritten frames or through the user's memory, `HALTED` after a page fault. `eflags_if` is the interrupt flag, `smashed` the set of
kernel stacks whose frames traps have overwritten. `current_task`, `state` and `esp` are `task.c`'s
variables; `esp[t]` names the context whose frame the slot points to. `pc[s]` says where
context s is in `execute_command`.

`timer_isr` is one step, since it runs with interrupts off. A command is taken apart wherever the timer
can intervene between accesses to shared variables: `schedule_once` into pick, set, ready, mark;
`user_process_start` into the search, the read and the store of `next_user_pid++` (two accesses in
the unoptimised build), filling the entry, and `active_user_process`. `Kill` is one step: two kills
racing store the same value. `SysExit` follows `syscall_exit`: it marks the process and *returns*
on the stack `user_return_esp` points at, with the flags the program had. ESP is the only register it restores and
`enter_user_mode` saves none, so `execute_command` goes on with the EBP the program left. The kernel is built without
optimisation: `leave` and `ret` take the return address from where EBP points, memory of the program's choice if it has
changed it. `user_ebp` says whether it has, and `Return` then leads to `LOST`, which here means a return the kernel does not
determine. EBX, ESI and EDI keep the program's values too; the unoptimised C functions above keep nothing in them across
the call. What runs between `SYS_EXIT` and that `leave` uses globals and calls only.

The scheduler's third task is idle and never executed; a `kill 3` only marks it. The tick count, the
process names and the text the commands print are left out.

### Heap

`HeapTable` has what both models of the heap share. `page_bitmap` is the set of marked pages; `allocations` the table. Addresses are offsets from
`heap[]`, so negative offsets and large ones are addresses outside it, NULL included. Sizes count
modulo `WORD` (2^32) in `PagesFor`. `kmalloc` takes the first place that fits; `find_free_pages` is
also written as its loop (the recursive function `FreeRun`), and `LoopFindsFirstFit` compares the two.

### HeapRace

The same allocator one store at a time. The bitmap is bytes of `BYTE` pages: `set_page_used` loads a byte
(`LoadByte`) and stores it back (`SetBit`), so a store can undo another context's. `Claim` and `Clear` are the
three stores to a table entry, `LoadTotal` and `Count` the two accesses of `allocated_pages += pages`. The
searches only read and are one step. `memtest` and `memstress`, the only callers of the heap, are scripts of
calls; a failed `kmalloc` leaves NULL in its pointer and the command goes on. `RacePoolSpec` maps the table to
the pool at every store: a block appears with the store of `used` and goes when `kfree` has found its entry.
`overlaps` counts commands since two were first under way at once.

### Paging and PageTests

A virtual address is a directory slot, an index and an offset; a frame is named by the slot and index it would
have as a page. `Walk` is what the CPU finds, with the user bit of the directory applied; `TlbFill` and `TlbEvict` let
the TLB take or drop a translation at any time, and `invalidate_page` drops one. The bits above the twelve flag
bits are the member `high` of a flag argument, which `Masked` removes.

In `PageTests` the calls are taken apart where the timer can intervene: test the directory, find a table, mark it
used, clear it entry by entry, install it, fetch it, store the entry, `invlpg`; and for `set_page_flags` test, load
and store the entry. `user_mode_init`, `ptest`, `dptest`, `vmtest` and `vmaptest` are scripts with the answers
they expect; an answer that differs is a `[FAIL]`. Index 1 stands for the second page a slot is used with.

### Vfs

`entries` is memory, `disk` the table as the data sectors hold it. The image of entry *i* has its metadata
and the first piece of its name in sector `First[i]`; the rest of the name and the beginning of the text
(`rest`, `front`) are in `Text[i]`, the end of the text (`back`) in `Last[i]`. In the real layout (300-byte entries,
512-byte sectors) the name of entry 5 is split at its 24th character, with its text on the sector after; the text of
entry 10 is split at its 28th, the only split text that a command line of 63 characters reaches. `Stored[n]` is
what `vfs_copy` keeps of name *n*; names in `Cut` lose their end. `Freed` drops the metadata of an unused entry,
which nothing reads, and keeps what a torn new entry may uncover.

A command that changes the table sets `pc = "save"`; `SaveSector` writes the header and then each sector;
`SaveFails` ends the save at any sector, with the sector on the disk or not, with the drive's ERR bit
set (every later write then fails) or by a timeout, and puts the entry back as the command does (`RolledBack`).
`PowerOff` may come at any time and also stands for `reboot` and `shutdown`. `vfs_load` accepts what the code
accepts: the header and a root that is a directory. `vfs_create_default` is the boot without one, or,
with `ReadFails`, the boot on which the disk did not answer. Assumed of the hardware: a sector is
written as a whole or not at all, and a power cycle clears ERR. `Ata` says when a save's sector may be reported
written and is not (below); `Vfs` takes the report as true.

`VfsKept` adds one history variable. `kept[i]` is the entry as the latest command on it reported it saved; a
command that names the file withdraws it until it reports in its turn. `KeptOnDisk` and `FilesRetained` compare it with the disk.

### Ata

One register access or data word a step. The drive (external) is a PIO drive with a write cache: it may stay busy for
ever, fail with ERR, and ignores its registers while it is busy or asks for data. Three things are not guarded
against by the driver, and `trouble` records them: a call that gives up while the drive keeps its command
(`late`), an error the flush command, sent without a look at the status, clears or never reaches (`masked`), and two
transfers at once (`overlap`). `StoreUntilTrouble` is the refinement of `SectorStore` until one of them happens.

### Console and KeyRace

`Console` has the controller's queue, `key_down`, the line buffer and the whole screen, with one poll a
step: the machine after its first program, when one context polls with interrupts off. `typed` and `submitted` are
what the user meant. `KeyRace` takes the poll apart, one access a step, for the time before that, with two
contexts polling; reading port 0x60 with nothing waiting returns the last code again; a store past the
last byte of `input` falls on `input_pos` or elsewhere. The screen is left out there, so that whether a backspace
finds the cursor in the first column is open.

### CommandLine, Loader and RunCommand

`CommandLine` handles a character a step. Its lines are either arbitrary, or were *written* to say a command and
arguments (`Lines`, with gaps and quotes chosen freely); `meant` remembers which. `Loader` is
`load_user_program` and `prepare_user_arguments`, one loop iteration a step; a byte of the code page is the pair
of its digits, a word of the stack page its first byte. A program may leave anything in its stack page.
`RunCommand` composes the two: the line is typed, parsed, executed by the context that took it, and loaded. The
process table is `Sched`'s; here it is full or not.

## Runs

An invariant that a proof needs whole is checked whole: `HeapInv`, `PagingInv`, `SchedInv`, `TableOK`, `BufferOK`,
`InBounds`, `HeapRestored`, `MapAsBooted` and `ProcessesTracked` are conjunctions of named parts, the module's type
invariant among them where it has one.

| Run | Instance | What it shows |
|---|---|---|
| `sched_prompt` | 4 process entries; run, kill; one command at a time; fair | switching sound, the CPU lost only by the return from a run, in two ways, user mode pinned, nothing live left to kill, refines `ProcLifecycle`; both contexts get the CPU until a program runs; a run in the shell context returns unless it faults or changes EBP |
| `sched_typeahead` | 3 entries; run, kill, schedule; type-ahead | PIDs distinct, no ended process runs again |
| `heap` | 6 pages of 4 bytes, 4 table entries, 5-bit words | table, bitmap and count agree; refines `BlockPool` |
| `heap_commands` | 4 pages, 2 to a byte, 2 table entries, sizes 1, 2, 2; two overlapping `memtest` and two more before a reboot; fair | a command alone releases everything and refines `BlockPool` at every store; both prompts return, overlap or not |
| `paging` | 1 identity and 2 dynamic slots, 2 entries a table, TLB of 1 | tables neither shared nor lost, pool suffices, cache coherent, refines `AddressSpace` |
| `page_tests` | 4 identity slots, 2 dynamic, 2 entries a table, TLB of 1; type-ahead | a test that runs alone passes; the mappings of the boot survive, the user's three pages and the kernel's; a race loses one table at most |
| `vfs` | 3 entries on 3 sectors, one split name, one split text, four names; reads do not fail | tree, unique names, durability, one entry at risk; what was reported saved is on the disk and in memory until a command names it |
| `vfs_doc_boot` | the layout of `vfs`, one name, another default file; reads may fail | **violated**: a file reported saved is overwritten by the default file system |
| `ata` | 2 sectors of 2 words, timeout after 2 polls; type-ahead; fair | refines `SectorStore` until trouble; an error sticks; every call returns |
| `console` | screen 2 x 4, lines of 2, queue of 2 | the line is what was typed, the screen shows it, Enter executes it once |
| `key_spaced` | lines of 2, one letter; the user waits for each echo; fair | no key lost, at most a NUL past the buffer, the prompt returns |
| `run_command` | page of 16 bytes, words of 2, texts below 6, 3 arguments of 5 characters, commands of 2 | parser and loader stay in their buffers; the program named is entered with the arguments meant; every line ends |

Why the bounds are enough. *Process entries* never interact except by being the first free one: four
fill the table with a program before, between and after any kill, and `kill` is tried on protected, idle,
existing and unknown PIDs. *Heap*: six pages and four blocks are the fewest on which the
table can run out before the pages and the pages before the table, a hole can be too small, too big and
exact, and a five-bit word makes every size, those whose rounding wraps included, an input. In `heap_commands` the
block asked for last never fits and an entry lost to a race makes the table full, so each `kmalloc` failure occurs; more
commands after an overlap would only lose more of the same. *Paging*: pages that share a slot, a page in each other
slot, one past the last and an unaligned address; in `page_tests` every slot the clients use and one they do not. *Vfs*:
entries share sectors, one has its name and one its text on two, so a crash can fall between two entries and inside
one; slot 0 is the root, so two more give a directory with a file or a directory in it, a lower slot to free, and
an exhausted table. *Ata*: two sectors tell the right one from the wrong one, two words the order; a third call
after an overlap has to wait for a reboot (bound in `Begin`). *Console*: a line fills, an output wraps and everything scrolls.
*run_command*: the vector fits with room, exactly and not at all; strings fit or do not; texts are odd, not hex, too long;
arguments are empty, quoted, cut and surplus. A line with more spaces and quotes than it needs, or an arbitrary one, is
only the first after the boot: the parser keeps nothing from line to line, while what the loader keeps is followed through
any sequence of plain ones.

Deadlock is not checked in the `sched` runs: `LOST` and `HALTED` really stop the machine. In the other runs
it is.

**Fairness.** In `Sched`: `WF(timer_isr)`, as the PIT interrupts periodically and the handler acknowledges
it (`interrupts.c:105`); `SF(KernelStep(s))` per context, as a context runs only in its time slices, so that its
next step is enabled again and again and not continuously, and a slice of 10 ms executes it; `WF(SysExit \/
UserFault)`: a user program is assumed to end. No fairness for the keyboard. `NoStarvation` is stated up
to the first program: after it interrupts are off. `HeapRace`, `KeyRace` and `Ata` leave the scheduler out and ask for
`WF` of each context's steps: that is what `NoStarvation` gives while the timer runs; after the first program one context runs alone
and the property is about it. The drive is not fair. `RunCommand` has `WF` of the parser, of the execution
and of the loader, none of the user or of user programs.

## Proofs

**`SchedProofs`**, for every table size and every set of kill arguments:

* `TypeCorrect`: `Spec => []TypeOK`.
* `SchedInvariant`, assuming `"schedule" \notin Ops`: `Spec => []SchedInv`. Its core, `SwitchInv`, says that the
  current task is the one on the CPU, is the only one RUNNING, and that the other context's slot holds its own
  frame; `LostOnlyByRun` says how the CPU can be lost: interrupts are off, and the program was run in the boot context or has changed EBP. Alone `SwitchInv` is not inductive: a return from a user program moves the CPU, so one needs
  that user mode is left on the stack it was entered on (`UserModePinned`), that no tick comes
  after a trap (`SmashedPinned`), that EBP is the user's only after a trap (`EbpFromTrap`), and that no context is inside the schedule command. `SwitchCore` is the
  conjunction, `SchedInv` adds the types, and each action has a lemma of its own.
* `SchedPids` and `NoResurrection`, of any user and with any commands: no two entries have one PID and an ended process
  never runs again. `TableInv` follows two starts at once: the number a start has read is stale by one at most and above every
  listed one, and the entry it has found is still the first free one or the other start has filled it, with a process that has yet to run.
* `ProcessesTracked` and `ImplementsLifecycle`, assuming one command at a time: what runs in user mode is what the
  table says, and the process table implements `ProcLifecycle`. `PromptInv` says that one context at most is in a command and that a running process is the one it has started.

**`HeapProofs`**, for every heap, table and word size (with a heap smaller than the word, as in the code):
`HeapInvariant` is `Spec => []HeapInv`, the conjunction of `TypeOK`, `BlocksDisjoint`, `BitmapExact` and `Accounting`. None of the last three
is inductive alone: freeing keeps the bitmap exact only because blocks are disjoint, and the count exact
only because the freed pages are all marked, which the bitmap's exactness gives. From it follow each conjunct by name, `HeapBlocksStable` (no call moves or resizes a block that is out),
`HeapSizeServed` (a block has room for the size asked for, whatever wraps) and the refinement `HeapImplementsPool`. `HeapLoopFindsFirstFit` is about the function that writes out the search loop: for every bitmap and request it
stops at the first run of free pages, or at none. It is proved by the least page at which the loop's counter could differ from
the length of the free run that ends there.

The same module proves of `HeapRace`, for every heap, table, byte and block size, any number of overlaps and any word larger than the heap, with the run's
bound that memtest is the only command that may overlap (a hypothesis of the theorems): `RaceHeapRestored`, and the refinement `RaceImplementsPool`. `RaceInv` has two halves.
1. `RaceTypes` holds whatever overlaps. What remains of a command releases all that it allocates, each pointer once (`Balanced`), and a pointer that
   is not NULL has its release to come (`Owed`). Two memtests can mix up an entry, but its block is of one page at most, so the pages that `kfree`
   unmarks are pages of the heap. With memstress among the commands that overlap an entry can mix the start of
   one block with the size of a longer one, which this argument does not cover, hence the bound.
2. While no two commands overlap, one context at most is at work (`Alone`), and `Steady` says by label what it holds: the entries that no call is at work on are
   disjoint blocks, each with a pointer of the command (`TableKept`); the bitmap is exactly their pages and what the call has marked or not yet
   unmarked; the byte that was loaded is still the one in memory; the entry at work on has the fields stored so far (`EntryTaken`, `EntryGiven`).
A command that ends has no release to come, so its pointers are NULL, so no entry is in use and the bitmap and the count are clean.

**`PagingProofs`**, for every directory, table, pool and TLB size with as many tables in the pool as slots without one, and all
arguments: `PagingInvariant` is `Spec => []PagingInv`, that is `TypeOK`, `TablesOwned`, `UserBitsAgree` and `TlbCoherent`. One `invlpg` is enough
only if no other page's translation changes: not with the table, as none is shared (`TablesOwned`), and not
with the promotion of the slot to user access, as the pages of a slot not yet open have no user bit (`UserBitsAgree`).
`PagingPoolSuffices` follows by counting: an empty slot and a full pool would map the pool one to one into fewer slots.
`PagingImplementsAddressSpace` is the refinement; the TLB's steps stutter.

The same module proves the four invariants of `PageTests`, in which two contexts take the calls apart: `TestsLeaveMapAlone` (what the boot
mapped is there after any race), `TestsLoseOneTable` (a race leaks one table at most), `TestsKeepTlbFresh` (a translation in the TLB is the
one the tables hold, except for a page whose `invlpg` is still to come) and `TestsTellTheTruth` (a test that ran alone found what it expected).
`BaseInv` has the types, the boot's entries and which table each context holds; `PoolInv` says who has claimed the tables of the pool between
the search and the installation; `SoloInv` is what a test has mapped its page to when it comes to each of its calls and no other test has met it.

**`VfsProofs`**, for any number of entries and sectors, any layout of the entries over the sectors and all names and texts:
`VfsDurable` (the disk is the memory whenever the last save succeeded and none is under way) and `VfsOneEntryAtRisk`
(during a save, every other entry is intact on the disk and the command's own is old, new or cut at a sector).
Neither is inductive. `Progress` is: in the middle of a save each piece of an entry equals the new table if its sector has been sent and,
after a save that succeeded, the table from before the command if it has not. A sector that lands moves the line between
the two by one, and `First <= Text <= Last` rules out new text under an old name.
`VfsTable` and `VfsNames`, assuming that reads do not fail, prove the conjuncts of `TableOK` and `NoDuplicates`: the
table is a tree with the root at 0, in memory and after every crash, and no directory has two entries of one name. That it is a tree is proved by what a
climb that never reaches the root would need (`ClimbsForever`): a set of entries closed under `parent`. No command makes one: a directory is never removed,
and an entry is added under a directory that is there, in memory and on the disk, before it. Without the assumption TLC refutes both: the default table written over a
half-read one can leave any mixture. `VfsKeptOnDisk`, under the same assumption, follows what was reported through failed saves, power
failures and boots: `KeptInv` adds to what those rest on that a kept entry is on the disk, in memory while the machine runs, and not the one the
command under way is about; a save sends it to the disk as it is there already.

**`LoaderProofs`**: `LoaderStackInPage` for every page, word and buffer size, all files and argument lists, and two contexts
that load at once. `StackInPage` alone says nothing of the argument copied next; `IInv` adds types and that the
loop's index is one (`LoopIndex`), and has the vector below the strings. `LoaderRunsWhatWasAsked`: the code page a program is entered
with is the whole text of the file, for one command at a time and an even hex buffer (`hex_data` has 256 bytes; of a buffer of odd size a cut text
would be accepted, as it would end between two bytes). `LoadInv` follows the decoded part of the page, byte by byte.

The same module goes on to `RunCommand`, for all buffer sizes, every command and arguments the user may mean, and every line that says them:
`RunCommandTypes` and `RunCommandArgumentsArrive`, from Enter to the words of the stack page; `RunCommandImplementsLoader`, the
refinement, and by it what holds of the loader (`RunCommandLoads`). The argument has three parts.
1. `LaidOut` says of a line where each word begins and ends (`B`, `E`) and which quote it is in (`Q`). Every line written for a meaning is laid out
   (`LinesLaidOut`, by the least number of arguments for which it could fail), and `Reads` says how far each stage of the
   parser has come in it: behind a gap, inside argument `n` with its first `j` characters copied, or done. So the parse is what was meant, cut to the buffers (`ParsedIsMeant`).
2. `KeptInv` says what the stack page holds below the frame's step: each copied string with its NUL at its address, then the vector from its base up.
   Nothing stored later overwrites it, as the strings go down and the vector stays below them (`IInv`).
3. `RunInv` puts them together: while a program is loaded, its frame's arguments are those of the line (`Asked`), as the parser works only while
   every context polls.
Assumed, besides sizes: characters are strings, letters are neither blank nor quotes, the commands are letters and fit the buffer, and
one command is in progress at a time (`RunCommandAssumption`; TLC evaluates it in the run).

**`AtaProofs`**, for any number of sectors and words: `AtaErrorSticks`, and `AtaImplementsStore`, the refinement of `SectorStore` until trouble.
`StoreInv` says how far the driver's step and the drive's phase are from each other while nothing has gone wrong: the drive works on the
command of the call under way, on its sector, and has as many words as the driver has moved.

**`KeyRaceProofs`**, for any line length: `KeyRaceInBounds` (two pollers overrun the line buffer by one byte at most) and
`KeyRaceKeySeen` (a key the user has let go of has been seen by a poll), under the run's own assumption `Spaced` that the user waits for the echo of each key.
`EventInv` has one event at a time, unread or read and acted on by one context or both; `PlaceInv` says what the line's length may be while each of
the two stands between its test and its store; `MarkInv` that the marks are those of the keys held but for the key of the event.

**`ConsoleProofs`**, for every screen, line and queue size: `ConsoleBufferOK`, `ConsoleScreenShowsLine`, `ConsoleLineIsTyped` and
`ConsoleExecutesTheLine`. `ConsoleInv` has that nothing is shown behind the cursor and that the cursor's row is the end of
the prompt and the line, across wraps and scrolls; what `print` does with a string is proved by the least number of characters for which it could fail.
`TypedInv` relates the line to the codes that still wait in the queue: there is a trace of what they will do that ends at what
the user has typed.

The theorems about what a loop computes go by least counterexample: the library's theorem that a non-empty set of naturals has a least
element is applied to the set of steps at which the statement fails. That needs the loop to be a recursive function, as it is in
`Heap`, `Console` and `CommandLine`.

Only model-checked: liveness (`PromptReturns`, `CommandReturns`, `NoStarvation`, `ShellRunReturns`, `CallReturns`, `CommandEnds`), as the prover does not
handle fairness. Every invariant that a run checks, and every refinement, is proved.

## Where the code and what is said of it part

`vfs_doc_boot` is a finding with a run: "preserve it to retain filesystem data across restarts" (`README.md:286`) says of the
disk image what `FilesRetained` says of a file; a boot whose read times out takes the disk for an empty one
(`vfs.c:330-336`) and saves the default table over a file that was reported saved. The following were met while modelling; each can be seen by asking
the module for the invariant in brackets.

* `schedule` (`Sched`, `"schedule" \in Ops`) marks the next task RUNNING and leaves the CPU where it is; the next tick
  saves the running stack in the other task's slot. `SchedInv` is therefore stated without it.
* A program run from the boot context never returns: the trap stack is the boot context's own, so the exit path goes
  through overwritten frames (`running # LOST` fails).
* In either context, a program that exits with another EBP than it was entered with (`push ebp; mov ebp, esp` is
  enough) takes the kernel's return from its own memory: `syscall.asm:22-28` restores ESP only and `user_mode.asm:9-31` saves no
  register. `LostOnlyByRun`, in `SchedInv`, says that these are the only two ways.
* The interrupt flag is clear for good after the first program: `enter_user_mode` disables interrupts before it saves the flags,
  and `SYS_EXIT` returns by `ret` (`Sched`).
* With type-ahead, two runs share `active_user_process`, and the exit of one marks the other's entry (`Sched`); two loads share
  `hex_data` and the code page, and a program is entered that is not the one announced (`Loader`, `TypeAhead = TRUE`,
  `RunsWhatWasAsked`); two memory commands lose pages, entries or the count (`HeapRace`, `AllReleased` without
  `overlaps = 0`); two paging tests print `[FAIL]` (`PageTests`, `failed = {}`).
* Even a user who waits can press Enter once and have the line executed twice: `key_down` is tested and marked in separate
  accesses by two pollers (`KeyRace`: `seen = 2` is reachable). Two `run` are then in progress, with what type-ahead breaks
  broken: `RunsWhatWasAsked`, `ArgumentsArrive`, `ProcessesTracked` and `LifecycleSpec` do not hold of that.
* `selftest` loads `hello.bin`, which no default file system has.
* `mkdir` of an existing file and `touch` of an existing directory succeed and change nothing; a name longer than 31 characters is
  cut when stored, so that `touch` repeats it and nothing finds it (`Vfs`, `Cut`).
* With `ReadFails`, a power failure while the default table is written over the user's leaves a mixture that need not be a tree
  (`TreeOK` fails with fewer default files than entries).
* `disk_write_sector` flushes without a look at the status: a drive still busy ignores the command, and an error of the write is cleared
  by it; success is then reported (`Ata`, `masked`). A late data request is taken by the next call for its own (`late`).
* `paging` prints 16 MB mapped and four tables always; `ptest` unmaps one of those pages for good (`KernelStaysMapped`, in `MapAsBooted`, excepts it).

## Not modelled

The interrupt controller, PIT, IDT and boot code write fixed values once. The `*.backup*` files and
`kernel.asm` are not built. The website is documentation. Commands that only print (`help`, `info`, `ls`, `cat`, `ps`,
...) change nothing. Two file commands under way at once are in no module: `Vfs` takes them one at a time, and
`Ata` stops following the data when two transfers overlap. CPU exceptions other than the page fault have no handler and
reset the machine, which is `PowerOff` to `Vfs`.

## Plan

1. An abstract durable table for `Vfs` (a crash undoes at most the command under way) and the refinement.
2. `Vfs` with two contexts and the shared `storage` buffer.
