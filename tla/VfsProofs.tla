----------------------------- MODULE VfsProofs -----------------------------
(***************************************************************************)
(* Theorems about Vfs, for every number of entries and data sectors, every *)
(* layout of the entries over the sectors, and all names and texts: what a *)
(* crash can find on the disk.                                             *)
(***************************************************************************)
EXTENDS VfsKept, TLAPS

(* A table entry: a record with these fields, whatever their values.       *)
IsEntry(e) ==
  e = [used |-> e.used, is_dir |-> e.is_dir, parent |-> e.parent,
       name |-> e.name, rest |-> e.rest, front |-> e.front, back |-> e.back]

IsTable(t) == t = [i \in Slots |-> t[i]] /\ \A i \in Slots : IsEntry(t[i])

SameMeta(d, e) ==
  d.used = e.used /\ d.is_dir = e.is_dir /\ d.parent = e.parent /\ d.name = e.name

SameText(d, e) == d.rest = e.rest /\ d.front = e.front

SameBack(d, e) == d.back = e.back

Shapes == IsTable(entries) /\ IsTable(disk) /\ IsEntry(job.old)

(* Sectors before `sector' hold the new table; the others, if the last     *)
(* save succeeded, hold the table from before the command.                 *)
Before(i) == IF i = job.index THEN job.old ELSE entries[i]

Progress ==
  pc = "save" =>
    /\ sector \in Header..LastSector
    /\ sector # Header => header
    /\ \A i \in Slots :
         /\ First[i] < sector => SameMeta(disk[i], entries[i])
         /\ Text[i] < sector => SameText(disk[i], entries[i])
         /\ Last[i] < sector => SameBack(disk[i], entries[i])
    /\ saved => header /\ \A i \in Slots :
         /\ First[i] >= sector => SameMeta(disk[i], Before(i))
         /\ Text[i] >= sector => SameText(disk[i], Before(i))
         /\ Last[i] >= sector => SameBack(disk[i], Before(i))

DiskInv == Shapes /\ Progress /\ Durable /\ (pc = "off" => ~saved)

LEMMA Layout ==
  /\ VFS_DATA_SECTORS \in Nat \ {0} /\ LastSector \in Nat
  /\ \A i \in Slots : /\ First[i] \in 0..LastSector /\ Text[i] \in 0..LastSector
                      /\ Last[i] \in 0..LastSector
                      /\ First[i] <= Text[i] /\ Text[i] <= Last[i]
BY VfsAssumption DEF Slots, LastSector

(* Two entries that agree in every piece are the same.                     *)
LEMMA SameEntry ==
  ASSUME NEW d, NEW e, IsEntry(d), IsEntry(e), SameMeta(d, e), SameText(d, e), SameBack(d, e)
  PROVE  d = e
BY DEF IsEntry, SameMeta, SameText, SameBack

LEMMA BlankIsEntry == IsEntry(Blank)
BY DEF Blank, IsEntry

(* An entry whose text is replaced is an entry, with the rest as it was.   *)
LEMMA Rewritten ==
  ASSUME NEW e, IsEntry(e), NEW a, NEW b
  PROVE  [e EXCEPT !.front = a, !.back = b] =
           [used |-> e.used, is_dir |-> e.is_dir, parent |-> e.parent,
            name |-> e.name, rest |-> e.rest, front |-> a, back |-> b]
<1> DEFINE f == [e EXCEPT !.front = a]
<1>1. [e EXCEPT !.front = a, !.back = b] = [f EXCEPT !.back = b]
  OBVIOUS
<1>2. f = [used |-> e.used, is_dir |-> e.is_dir, parent |-> e.parent,
           name |-> e.name, rest |-> e.rest, front |-> a, back |-> e.back]
  BY DEF IsEntry
<1> HIDE DEF f
<1> QED BY <1>1, <1>2

LEMMA Replaced ==
  ASSUME NEW e, IsEntry(e), NEW r, NEW a, NEW b
  PROVE  [e EXCEPT !.rest = r, !.front = a, !.back = b] =
           [used |-> e.used, is_dir |-> e.is_dir, parent |-> e.parent,
            name |-> e.name, rest |-> r, front |-> a, back |-> b]
<1> DEFINE f == [e EXCEPT !.rest = r]
<1>1. [e EXCEPT !.rest = r, !.front = a, !.back = b] = [f EXCEPT !.front = a, !.back = b]
  OBVIOUS
<1>2. f = [used |-> e.used, is_dir |-> e.is_dir, parent |-> e.parent,
           name |-> e.name, rest |-> r, front |-> e.front, back |-> e.back]
  BY DEF IsEntry
<1>3. IsEntry(f)
  <2> HIDE DEF f
  <2> QED BY <1>2 DEF IsEntry
<1>4. [f EXCEPT !.front = a, !.back = b] =
        [used |-> f.used, is_dir |-> f.is_dir, parent |-> f.parent,
         name |-> f.name, rest |-> f.rest, front |-> a, back |-> b]
  <2> HIDE DEF f
  <2> QED BY <1>3, Rewritten
<1> HIDE DEF f
<1> QED BY <1>1, <1>2, <1>4

LEMMA FreedIsEntry == \A e : IsEntry(Freed(e))
<1> TAKE e
<1>1. Freed(e) = [used |-> Blank.used, is_dir |-> Blank.is_dir, parent |-> Blank.parent,
                  name |-> Blank.name, rest |-> e.rest, front |-> e.front, back |-> e.back]
  BY BlankIsEntry, Replaced DEF Freed
<1> QED BY <1>1 DEF IsEntry

LEMMA DiskInit == Init => DiskInv
<1> SUFFICES ASSUME Init PROVE DiskInv
  OBVIOUS
<1>1. Shapes
  BY BlankIsEntry DEF Init, Shapes, IsTable, NoJob
<1> QED BY <1>1 DEF Init, DiskInv, Progress, Durable

(* A command that returns without saving.                                  *)
LEMMA DiskReturns == DiskInv /\ Returns => DiskInv'
BY DEF DiskInv, Returns, Shapes, Progress, Durable, Before, IsTable

(* A command that saves what it did to one entry.                          *)
LEMMA DiskSaves ==
  ASSUME DiskInv, pc = "idle", NEW i \in Slots, NEW new, IsEntry(new), Saves(i, new)
  PROVE  DiskInv'
<1>1. /\ entries' = [entries EXCEPT ![i] = new] /\ disk' = disk /\ header' = header
      /\ saved' = saved /\ pc' = "save" /\ sector' = Header
      /\ job' = [index |-> i, old |-> entries[i]]
  BY DEF Saves
<1>2. entries'[i] = new /\ \A k \in Slots \ {i} : entries'[k] = entries[k]
  BY <1>1 DEF DiskInv, Shapes, IsTable
<1>3. IsTable(entries)'
  BY <1>1, <1>2 DEF DiskInv, Shapes, IsTable
<1>4. Shapes'
  BY <1>1, <1>3 DEF DiskInv, Shapes, IsTable
<1>5. saved => header /\ \A k \in Slots : disk[k] = Before(k)'
  BY <1>1, <1>2 DEF DiskInv, Durable, Before
<1>6. Progress'
  <2>1. \A k \in Slots : First[k] \in Nat /\ Text[k] \in Nat /\ Last[k] \in Nat
    BY Layout
  <2>2. Header \in Header..LastSector
    BY Layout DEF Header
  <2> QED BY <1>1, <1>5, <2>1, <2>2 DEF Progress, Header, SameMeta, SameText, SameBack
<1> QED BY <1>1, <1>4, <1>6 DEF DiskInv, Durable

-----------------------------------------------------------------------------
(* What one sector carries.                                                *)
LEMMA WrittenPieces ==
  ASSUME Shapes, NEW s, NEW i \in Slots
  PROVE  /\ IsEntry(Written(s)[i])
         /\ SameMeta(Written(s)[i], IF First[i] = s THEN entries[i] ELSE disk[i])
         /\ SameText(Written(s)[i], IF Text[i] = s THEN entries[i] ELSE disk[i])
         /\ SameBack(Written(s)[i], IF Last[i] = s THEN entries[i] ELSE disk[i])
<1> DEFINE base == IF First[i] = s THEN entries[i] ELSE disk[i]
           w == [base EXCEPT !.rest  = IF Text[i] = s THEN entries[i].rest  ELSE disk[i].rest,
                             !.front = IF Text[i] = s THEN entries[i].front ELSE disk[i].front,
                             !.back  = IF Last[i] = s THEN entries[i].back  ELSE disk[i].back]
<1>1. Written(s)[i] = w
  BY DEF Written
<1>2. IsEntry(base)
  BY DEF Shapes, IsTable
<1>3. w = [used |-> base.used, is_dir |-> base.is_dir, parent |-> base.parent,
           name |-> base.name,
           rest |-> IF Text[i] = s THEN entries[i].rest ELSE disk[i].rest,
           front |-> IF Text[i] = s THEN entries[i].front ELSE disk[i].front,
           back |-> IF Last[i] = s THEN entries[i].back ELSE disk[i].back]
  <2> HIDE DEF base
  <2> QED BY <1>2, Replaced
<1> QED BY <1>1, <1>3 DEF IsEntry, SameMeta, SameText, SameBack

LEMMA WrittenTable == ASSUME Shapes, NEW s PROVE IsTable(Written(s))
<1>1. Written(s) = [i \in Slots |-> Written(s)[i]]
  BY DEF Written
<1> QED BY <1>1, WrittenPieces DEF IsTable

(* A sector that lands, in the middle of a save or at its end.             *)
LEMMA LandsPieces ==
  ASSUME Shapes, Progress, pc = "save", Lands
  PROVE  /\ IsTable(disk')
         /\ header'
         /\ \A i \in Slots :
              /\ First[i] <= sector => SameMeta(disk'[i], entries[i])
              /\ Text[i] <= sector => SameText(disk'[i], entries[i])
              /\ Last[i] <= sector => SameBack(disk'[i], entries[i])
              /\ First[i] > sector => SameMeta(disk'[i], disk[i])
              /\ Text[i] > sector => SameText(disk'[i], disk[i])
              /\ Last[i] > sector => SameBack(disk'[i], disk[i])
<1>1. CASE sector = Header
  <2>1. disk' = disk /\ header'
    BY <1>1 DEF Lands
  <2>2. \A i \in Slots : First[i] > sector /\ Text[i] > sector /\ Last[i] > sector
    BY <1>1, Layout DEF Header
  <2>3. \A i \in Slots : First[i] \in Int /\ Text[i] \in Int /\ Last[i] \in Int /\ sector \in Int
    BY <1>1, Layout DEF Header
  <2> QED BY <2>1, <2>2, <2>3 DEF Shapes, SameMeta, SameText, SameBack
<1>2. CASE sector # Header
  <2>1. disk' = Written(sector) /\ header' = header /\ header
    BY <1>2 DEF Lands, Progress
  <2>2. IsTable(disk')
    BY <2>1, WrittenTable
  <2>3. sector \in Int
    BY Layout DEF Progress, Header
  <2>4. ASSUME NEW i \in Slots
        PROVE  /\ First[i] <= sector => SameMeta(disk'[i], entries[i])
               /\ Text[i] <= sector => SameText(disk'[i], entries[i])
               /\ Last[i] <= sector => SameBack(disk'[i], entries[i])
               /\ First[i] > sector => SameMeta(disk'[i], disk[i])
               /\ Text[i] > sector => SameText(disk'[i], disk[i])
               /\ Last[i] > sector => SameBack(disk'[i], disk[i])
    <3>1. First[i] \in Int /\ Text[i] \in Int /\ Last[i] \in Int
      BY Layout
    <3>2. /\ SameMeta(disk'[i], IF First[i] = sector THEN entries[i] ELSE disk[i])
          /\ SameText(disk'[i], IF Text[i] = sector THEN entries[i] ELSE disk[i])
          /\ SameBack(disk'[i], IF Last[i] = sector THEN entries[i] ELSE disk[i])
      BY <2>1, WrittenPieces
    <3>3. /\ First[i] < sector => SameMeta(disk[i], entries[i])
          /\ Text[i] < sector => SameText(disk[i], entries[i])
          /\ Last[i] < sector => SameBack(disk[i], entries[i])
      BY DEF Progress
    <3> QED BY <2>3, <3>1, <3>2, <3>3 DEF SameMeta, SameText, SameBack
  <2> QED BY <2>1, <2>2, <2>4
<1> QED BY <1>1, <1>2

LEMMA DiskSaveSector == DiskInv /\ SaveSector => DiskInv'
<1> SUFFICES ASSUME DiskInv, SaveSector PROVE DiskInv'
  OBVIOUS
<1>0. pc = "save" /\ Shapes /\ Progress /\ Lands /\ entries' = entries
  BY DEF DiskInv, SaveSector
<1>1. /\ IsTable(disk') /\ header'
      /\ \A i \in Slots :
           /\ First[i] <= sector => SameMeta(disk'[i], entries[i])
           /\ Text[i] <= sector => SameText(disk'[i], entries[i])
           /\ Last[i] <= sector => SameBack(disk'[i], entries[i])
           /\ First[i] > sector => SameMeta(disk'[i], disk[i])
           /\ Text[i] > sector => SameText(disk'[i], disk[i])
           /\ Last[i] > sector => SameBack(disk'[i], disk[i])
  BY <1>0, LandsPieces
<1>2. CASE sector = LastSector
  <2>1. pc' = "idle" /\ job' = NoJob
    BY <1>2 DEF SaveSector
  <2>2. ASSUME NEW i \in Slots PROVE disk'[i] = entries[i]
    <3>1. IsEntry(disk'[i]) /\ IsEntry(entries[i])
      BY <1>0, <1>1 DEF Shapes, IsTable
    <3>2. First[i] <= sector /\ Text[i] <= sector /\ Last[i] <= sector
      BY <1>2, Layout
    <3> QED BY <1>1, <3>1, <3>2, SameEntry
  <2>3. disk' = entries'
    BY <1>0, <1>1, <2>2 DEF Shapes, IsTable
  <2>4. Shapes'
    BY <1>0, <1>1, <2>1, BlankIsEntry DEF Shapes, NoJob
  <2> QED BY <1>1, <2>1, <2>3, <2>4 DEF DiskInv, Progress, Durable
<1>3. CASE sector # LastSector
  <2>1. pc' = pc /\ job' = job /\ saved' = saved /\ sector' = sector + 1
    BY <1>3 DEF SaveSector
  <2>2. sector \in Header..LastSector /\ sector \in Int /\ LastSector \in Nat
    BY <1>0, Layout DEF Progress, Header
  <2>3. sector' \in Header..LastSector /\ sector' # Header
    BY <1>3, <2>1, <2>2 DEF Header
  <2>4. Shapes'
    BY <1>0, <1>1, <2>1 DEF Shapes
  <2>5. ASSUME NEW i \in Slots
        PROVE  /\ First[i] < sector' => SameMeta(disk'[i], entries'[i])
               /\ Text[i] < sector' => SameText(disk'[i], entries'[i])
               /\ Last[i] < sector' => SameBack(disk'[i], entries'[i])
    BY <1>0, <1>1, <2>1, <2>2, Layout
  <2>6. ASSUME NEW i \in Slots, saved
        PROVE  /\ First[i] >= sector' => SameMeta(disk'[i], Before(i)')
               /\ Text[i] >= sector' => SameText(disk'[i], Before(i)')
               /\ Last[i] >= sector' => SameBack(disk'[i], Before(i)')
    <3>1. Before(i)' = Before(i)
      BY <1>0, <2>1 DEF Before
    <3>2. First[i] \in Int /\ Text[i] \in Int /\ Last[i] \in Int
      BY Layout
    <3>3. /\ First[i] >= sector => SameMeta(disk[i], Before(i))
          /\ Text[i] >= sector => SameText(disk[i], Before(i))
          /\ Last[i] >= sector => SameBack(disk[i], Before(i))
      BY <1>0, <2>6 DEF Progress
    <3> QED BY <1>1, <2>1, <2>2, <3>1, <3>2, <3>3 DEF SameMeta, SameText, SameBack
  <2>7. Progress'
    BY <1>1, <2>1, <2>3, <2>5, <2>6 DEF Progress
  <2> QED BY <1>0, <2>1, <2>4, <2>7 DEF DiskInv, Durable
<1> QED BY <1>2, <1>3

LEMMA DiskSaveFails == DiskInv /\ SaveFails => DiskInv'
<1> SUFFICES ASSUME DiskInv, SaveFails PROVE DiskInv'
  OBVIOUS
<1>1. pc = "save" /\ Shapes /\ Progress /\ pc' = "idle" /\ saved' = FALSE /\ job' = NoJob
  BY DEF DiskInv, SaveFails
<1>2. IsTable(disk')
  <2>1. CASE Lands
    BY <1>1, <2>1, LandsPieces
  <2>2. CASE UNCHANGED <<disk, header>>
    BY <1>1, <2>2 DEF Shapes
  <2> QED BY <2>1, <2>2 DEF SaveFails
<1>3. IsTable(entries')
  <2> DEFINE back(e) == IF job.old.used THEN job.old ELSE Freed(e)
  <2>1. entries' = entries \/ entries' = [entries EXCEPT ![job.index] = back(entries[job.index])]
    BY DEF SaveFails, RolledBack
  <2>2. \A e : IsEntry(back(e))
    BY <1>1, FreedIsEntry DEF Shapes
  <2> HIDE DEF back
  <2> QED BY <1>1, <2>1, <2>2 DEF Shapes, IsTable
<1> QED BY <1>1, <1>2, <1>3, BlankIsEntry DEF DiskInv, Shapes, Progress, Durable, NoJob

LEMMA DiskBoot == DiskInv /\ (PowerOff \/ vfs_load \/ vfs_create_default) => DiskInv'
<1> SUFFICES ASSUME DiskInv, PowerOff \/ vfs_load \/ vfs_create_default PROVE DiskInv'
  OBVIOUS
<1>1. CASE PowerOff
  <2>1. Shapes'
    BY <1>1, BlankIsEntry DEF DiskInv, PowerOff, Shapes, IsTable, NoJob
  <2> QED BY <1>1, <2>1 DEF DiskInv, PowerOff, Progress, Durable
<1>2. CASE vfs_load
  BY <1>2 DEF DiskInv, vfs_load, FsOnDisk, Shapes, Progress, Durable
<1>3. CASE vfs_create_default
  <2>1. IsTable(DefaultTable)
    BY DEF DefaultTable, Blank, IsTable, IsEntry
  <2>2. Shapes'
    BY <1>3, <2>1, BlankIsEntry DEF DiskInv, vfs_create_default, Shapes, NoJob
  <2>3. Header \in Header..LastSector
    BY Layout DEF Header
  <2>4. \A i \in Slots : First[i] \in Nat /\ Text[i] \in Nat /\ Last[i] \in Nat
    BY Layout
  <2>5. ~saved' /\ pc' = "save" /\ sector' = Header
    BY <1>3 DEF DiskInv, vfs_create_default
  <2>6. Progress'
    BY <2>3, <2>4, <2>5 DEF Progress, Header
  <2> QED BY <2>2, <2>5, <2>6 DEF DiskInv, Durable
<1> QED BY <1>1, <1>2, <1>3

LEMMA DiskCommand == DiskInv /\ Command => DiskInv'
<1> SUFFICES ASSUME DiskInv, Command PROVE DiskInv'
  OBVIOUS
<1>1. ASSUME NEW dir, NEW n, pc = "idle", Create(dir, n) PROVE DiskInv'
  <2>1. \A i : IsEntry(NewEntry(i, dir, n))
    BY DEF NewEntry, IsEntry
  <2>2. FreeSlots \subseteq Slots
    BY DEF FreeSlots
  <2> QED BY <1>1, <2>1, <2>2, DiskReturns, DiskSaves DEF Create
<1>2. ASSUME NEW n, vfs_remove(n) PROVE DiskInv'
  BY <1>2, FreedIsEntry, DiskReturns, DiskSaves DEF vfs_remove
<1>3. ASSUME NEW n, NEW text, vfs_write(n, text) PROVE DiskInv'
  <2>1. CASE Returns
    BY <2>1, DiskReturns
  <2>2. ASSUME NEW i \in Slots, pc = "idle",
               Saves(i, [entries[i] EXCEPT !.front = text,
                           !.back = IF text \in LongTexts THEN text ELSE @])
        PROVE  DiskInv'
    <3>1. IsEntry(entries[i])
      BY DEF DiskInv, Shapes, IsTable
    <3>2. IsEntry([entries[i] EXCEPT !.front = text,
                           !.back = IF text \in LongTexts THEN text ELSE @])
      <4> DEFINE back == IF text \in LongTexts THEN text ELSE entries[i].back
      <4>1. [entries[i] EXCEPT !.front = text, !.back = back] =
              [used |-> entries[i].used, is_dir |-> entries[i].is_dir,
               parent |-> entries[i].parent, name |-> entries[i].name,
               rest |-> entries[i].rest, front |-> text, back |-> back]
        BY <3>1, Rewritten
      <4> QED BY <4>1 DEF IsEntry
    <3> QED BY <2>2, <3>2, DiskSaves
  <2> QED BY <1>3, <2>1, <2>2 DEF vfs_write
<1>4. ASSUME NEW n, vfs_cd(n) PROVE DiskInv'
  BY <1>4, DiskReturns DEF vfs_cd
<1> QED BY <1>1, <1>2, <1>3, <1>4 DEF Command, vfs_touch, vfs_mkdir

LEMMA DiskStep == DiskInv /\ [Next]_vars => DiskInv'
<1>1. DiskInv /\ UNCHANGED vars => DiskInv'
  BY DEF DiskInv, Shapes, Progress, Durable, Before, vars, IsTable
<1> QED BY <1>1, DiskCommand, DiskSaveSector, DiskSaveFails, DiskBoot DEF Next

LEMMA DiskInductive == Spec => []DiskInv
BY DiskInit, DiskStep, PTL DEF Spec

-----------------------------------------------------------------------------
(* After a save that succeeded the disk holds the table of memory, for any *)
(* layout of the entries over the sectors.                                 *)
THEOREM VfsDurable == Spec => []Durable
BY DiskInductive, PTL DEF DiskInv

(* Whenever the power fails during a save that follows a successful one,   *)
(* every entry but the command's own is intact on the disk, and that one   *)
(* is old, or new with each of its later pieces old or new.                *)
THEOREM VfsOneEntryAtRisk == Spec => []OneEntryAtRisk
<1>1. DiskInv => OneEntryAtRisk
  <2> SUFFICES ASSUME DiskInv, pc = "save", saved, NEW i \in Slots
               PROVE  IF i # job.index THEN disk[i] = entries[i]
                      ELSE \/ disk[i] = job.old
                           \/ /\ disk[i].rest \in {job.old.rest, entries[i].rest}
                              /\ disk[i].front \in {job.old.front, entries[i].front}
                              /\ disk[i].back \in {job.old.back, entries[i].back}
                              /\ [disk[i] EXCEPT !.rest = entries[i].rest,
                                                 !.front = entries[i].front,
                                                 !.back = entries[i].back] = entries[i]
    BY DEF OneEntryAtRisk
  <2>1. /\ First[i] \in Int /\ Text[i] \in Int /\ Last[i] \in Int /\ sector \in Int
        /\ First[i] <= Text[i] /\ Text[i] <= Last[i]
    BY Layout DEF DiskInv, Progress, Header
  <2>2. IsEntry(disk[i]) /\ IsEntry(entries[i]) /\ IsEntry(job.old)
    BY DEF DiskInv, Shapes, IsTable
  <2>3. /\ First[i] < sector => SameMeta(disk[i], entries[i])
        /\ Text[i] < sector => SameText(disk[i], entries[i])
        /\ Last[i] < sector => SameBack(disk[i], entries[i])
        /\ First[i] >= sector => SameMeta(disk[i], Before(i))
        /\ Text[i] >= sector => SameText(disk[i], Before(i))
        /\ Last[i] >= sector => SameBack(disk[i], Before(i))
    BY DEF DiskInv, Progress
  <2>4. CASE i # job.index
    <3>1. Before(i) = entries[i]
      BY <2>4 DEF Before
    <3>2. SameMeta(disk[i], entries[i]) /\ SameText(disk[i], entries[i])
            /\ SameBack(disk[i], entries[i])
      BY <2>1, <2>3, <3>1
    <3> QED BY <2>2, <2>4, <3>2, SameEntry
  <2>5. CASE i = job.index
    <3>1. Before(i) = job.old
      BY <2>5 DEF Before
    <3>2. CASE First[i] >= sector
      BY <2>1, <2>2, <2>3, <2>5, <3>1, <3>2, SameEntry
    <3>3. CASE First[i] < sector
      <4>1. SameMeta(disk[i], entries[i])
        BY <2>3, <3>3
      <4>2. [disk[i] EXCEPT !.rest = entries[i].rest, !.front = entries[i].front,
                            !.back = entries[i].back] = entries[i]
        BY <2>2, <4>1 DEF IsEntry, SameMeta
      <4>3. /\ disk[i].rest \in {job.old.rest, entries[i].rest}
            /\ disk[i].front \in {job.old.front, entries[i].front}
            /\ disk[i].back \in {job.old.back, entries[i].back}
        BY <2>1, <2>3, <3>1 DEF SameText, SameBack
      <4> QED BY <2>5, <4>2, <4>3
    <3> QED BY <2>1, <3>2, <3>3
  <2> QED BY <2>4, <2>5
<1> QED BY <1>1, DiskInductive, PTL

-----------------------------------------------------------------------------
(* The tree.  Directories that survive whatever becomes of the command     *)
(* under way; all but the root are on the disk as they are in memory.      *)
Dirs == {d \in Slots : entries[d].used /\ entries[d].is_dir /\ d # job.index}

Files == Slots \ {0}            \* every entry but the root

(* No entry of a table hangs in a circle.                                  *)
Circle(t, S) == S # {} /\ \A i \in S : t[i].used /\ t[i].parent \in S
NoCircle(t)  == \A S \in SUBSET Files : ~Circle(t, S)

MemoryTree ==
  pc # "off" =>
    /\ 0 \in Dirs /\ current_dir \in Dirs
    /\ \A i \in Files : entries[i].used => entries[i].parent \in Dirs
    /\ NoCircle(entries)

(* What a failed save puts back is no directory and its parent is there.   *)
JobFits ==
  /\ pc # "save" => job.index = None
  /\ job.index # None => job.index \in Files
  /\ job.index # None /\ job.old.used => ~job.old.is_dir /\ job.old.parent \in Dirs

(* The disk may hold entries memory has taken back, but never one below a  *)
(* directory it does not hold.                                             *)
DiskTree ==
  pc # "off" =>
    /\ \A d \in Dirs \ {0} : SameMeta(disk[d], entries[d])
    /\ \A i \in Files : disk[i].used => disk[i].parent \in Dirs

(* The tables a boot may find.                                             *)
Rooted(t) ==
  /\ \A i \in Files : t[i].used => /\ t[i].parent \in Slots
                                   /\ t[t[i].parent].used /\ t[t[i].parent].is_dir
  /\ NoCircle(t)

DiskStarts == FsOnDisk \/ \A i \in Slots : ~disk[i].used

TreeInv == MemoryTree /\ JobFits /\ DiskTree /\ DiskStarts /\ (pc = "off" => Rooted(disk))

-----------------------------------------------------------------------------
(* The names.                                                              *)
SplitIn(e, i)  == First[i] # Text[i] /\ e.name \in LongHeads
CutName(e)     == \E n \in Cut : NameOf(e) = NameOf(Stored[n])
Clash(d, e)    == d.used /\ e.used /\ d.parent = e.parent /\ NameOf(d) = NameOf(e)

Unique(t) == \A i, j \in Files : Clash(t[i], t[j]) =>
               i = j \/ SplitIn(t[i], i) \/ SplitIn(t[j], j) \/ CutName(t[i])

(* The table before the command.                                           *)
TableBefore == [i \in Slots |-> Before(i)]

(* Entry e at i is the one table b has there, or an attempt to add one to  *)
(* b: in the first free place, and under a new name.                       *)
Kept(b, e, i) == /\ b[i].used /\ b[i].parent = e.parent /\ b[i].name = e.name
                 /\ First[i] = Text[i] => b[i].rest = e.rest

Fresh(b, e, i) ==
  /\ IsFirst(i, {k \in Slots : ~b[k].used})
  /\ \A j \in Files : Clash(e, b[j]) => SplitIn(e, i) \/ SplitIn(b[j], j) \/ CutName(e)

Near(b, t) == \A i \in Files : t[i].used => Kept(b, t[i], i) \/ Fresh(b, t[i], i)

NameInv ==
  IF pc = "off" THEN Unique(disk)
  ELSE Unique(TableBefore) /\ Near(TableBefore, entries) /\ Near(TableBefore, disk)

-----------------------------------------------------------------------------
(* Types.                                                                  *)
LEMMA TypedEntry ==
  ASSUME NEW e, IsEntry(e), e.used \in BOOLEAN, e.is_dir \in BOOLEAN,
         e.parent \in Slots \cup {None}, e.name \in Heads, e.rest \in Tails,
         e.front \in Texts0, e.back \in Texts0
  PROVE  e \in Entry
BY DEF IsEntry, Entry

LEMMA EntryFields ==
  ASSUME NEW e \in Entry
  PROVE  /\ e.used \in BOOLEAN /\ e.is_dir \in BOOLEAN /\ e.parent \in Slots \cup {None}
         /\ e.name \in Heads /\ e.rest \in Tails /\ e.front \in Texts0 /\ e.back \in Texts0
BY DEF Entry

LEMMA RootIsSlot == 0 \in Slots /\ Slots \subseteq Nat /\ None \notin Slots
BY VfsAssumption DEF Slots, None

LEMMA BlankTyped == Blank \in Entry
<1>1. "" \in Heads /\ "" \in Tails /\ "" \in Texts0
  BY DEF Heads, Tails, Texts0
<1> QED BY <1>1, RootIsSlot DEF Blank, Entry

LEMMA FreedTyped == \A e \in Entry : Freed(e) \in Entry
<1> TAKE e \in Entry
<1>1. Freed(e) = [used |-> Blank.used, is_dir |-> Blank.is_dir, parent |-> Blank.parent,
                  name |-> Blank.name, rest |-> e.rest, front |-> e.front, back |-> e.back]
  BY BlankIsEntry, Replaced DEF Freed
<1>2. /\ Blank.used \in BOOLEAN /\ Blank.is_dir \in BOOLEAN
      /\ Blank.parent \in Slots \cup {None} /\ Blank.name \in Heads
  BY BlankTyped, EntryFields
<1> QED BY <1>1, <1>2, EntryFields DEF Entry

LEMMA FreedPieces == \A e : ~Freed(e).used /\ ~Freed(e).is_dir
<1> TAKE e
<1>1. Freed(e).used = FALSE /\ Freed(e).is_dir = FALSE
  BY DEF Freed, Blank
<1> QED BY <1>1

(* The pieces of what vfs_write leaves in an entry.                        *)
LEMMA WritePieces ==
  ASSUME NEW e, IsEntry(e), NEW text
  PROVE  [e EXCEPT !.front = text, !.back = IF text \in LongTexts THEN text ELSE @] =
           [used |-> e.used, is_dir |-> e.is_dir, parent |-> e.parent, name |-> e.name,
            rest |-> e.rest, front |-> text, back |-> IF text \in LongTexts THEN text ELSE e.back]
<1> DEFINE b == IF text \in LongTexts THEN text ELSE e.back
<1>1. [e EXCEPT !.front = text, !.back = b] =
           [used |-> e.used, is_dir |-> e.is_dir, parent |-> e.parent, name |-> e.name,
            rest |-> e.rest, front |-> text, back |-> b]
  <2> HIDE DEF b
  <2> QED BY Rewritten
<1> QED BY <1>1

LEMMA DefaultTyped == DefaultTable \in [Slots -> Entry]
<1> SUFFICES ASSUME NEW i \in Slots PROVE DefaultTable[i] \in Entry
  BY DEF DefaultTable
<1>1. /\ "" \in Heads /\ "/" \in Heads /\ FileName(i) \in Heads
      /\ "" \in Tails /\ "" \in Texts0 /\ "default" \in Texts0
  BY DEF Heads, Tails, Texts0, FileName
<1> QED BY <1>1, RootIsSlot DEF DefaultTable, Blank, Entry

LEMMA WrittenTyped ==
  ASSUME TypeOK, Shapes, NEW s
  PROVE  Written(s) \in [Slots -> Entry]
<1> SUFFICES ASSUME NEW i \in Slots PROVE Written(s)[i] \in Entry
  BY DEF Written
<1>1. entries[i] \in Entry /\ disk[i] \in Entry
  BY DEF TypeOK
<1> QED BY <1>1, WrittenPieces, EntryFields, TypedEntry DEF SameMeta, SameText, SameBack

LEMMA TypeSaves ==
  ASSUME TypeOK, NEW i \in Slots, NEW new \in Entry, Saves(i, new)
  PROVE  TypeOK'
<1>1. Header \in Sectors
  BY Layout DEF Sectors, Header
<1>2. entries' \in [Slots -> Entry] /\ entries[i] \in Entry
  BY DEF Saves, TypeOK
<1> QED BY <1>1, <1>2 DEF Saves, TypeOK

LEMMA TypeCommand == TypeOK /\ DiskInv /\ TreeInv /\ Command => TypeOK'
<1> SUFFICES ASSUME TypeOK, DiskInv, TreeInv, Command PROVE TypeOK'
  OBVIOUS
<1>0. /\ Returns /\ current_dir' \in Slots => TypeOK'
      /\ \A i \in Slots : entries[i] \in Entry /\ IsEntry(entries[i])
  BY DEF Returns, TypeOK, DiskInv, Shapes, IsTable
<1>1. ASSUME NEW dir \in BOOLEAN, NEW n \in Names, Create(dir, n) PROVE TypeOK'
  <2>1. ASSUME NEW i \in Slots PROVE NewEntry(i, dir, n) \in Entry
    <3>1. /\ Stored[n].name \in Heads /\ Stored[n].rest \in Tails /\ "" \in Texts0
          /\ current_dir \in Slots
      BY DEF Heads, Tails, Texts0, TypeOK
    <3> QED BY <1>0, <3>1, EntryFields DEF NewEntry, Entry
  <2> QED BY <1>0, <1>1, <2>1, TypeSaves DEF Create, FreeSlots, TypeOK
<1>2. ASSUME NEW n \in Names, vfs_remove(n) PROVE TypeOK'
  BY <1>0, <1>2, FreedTyped, TypeSaves DEF vfs_remove, TypeOK
<1>3. ASSUME NEW n \in Names, NEW text \in Texts, vfs_write(n, text) PROVE TypeOK'
  <2>1. ASSUME NEW i \in Slots
        PROVE  [entries[i] EXCEPT !.front = text,
                                  !.back = IF text \in LongTexts THEN text ELSE @] \in Entry
    <3>1. text \in Texts0
      BY DEF Texts0
    <3> QED BY <1>0, <3>1, WritePieces, EntryFields DEF Entry
  <2> QED BY <1>0, <1>3, <2>1, TypeSaves DEF vfs_write, TypeOK
<1>4. ASSUME NEW n, vfs_cd(n) PROVE TypeOK'
  <2>1. current_dir' \in Slots
    <3>1. current_dir # 0 => entries[current_dir].parent \in Slots
      BY <1>4 DEF vfs_cd, TreeInv, MemoryTree, Dirs, Files
    <3> QED BY <1>4, <3>1, RootIsSlot DEF vfs_cd, TypeOK
  <2> QED BY <1>0, <1>4, <2>1 DEF vfs_cd
<1> QED BY <1>1, <1>2, <1>3, <1>4 DEF Command, vfs_touch, vfs_mkdir

LEMMA TypeInit == Init => TypeOK
<1>1. Header \in Sectors
  BY Layout DEF Sectors, Header
<1>2. NoJob \in [index : Slots \cup {None}, old : Entry]
  BY BlankTyped DEF NoJob
<1> QED BY <1>1, <1>2, BlankTyped, RootIsSlot DEF Init, TypeOK

LEMMA TypeStep == TypeOK /\ DiskInv /\ TreeInv /\ [Next]_vars => TypeOK'
<1> SUFFICES ASSUME TypeOK, DiskInv, TreeInv, [Next]_vars PROVE TypeOK'
  OBVIOUS
<1>0. Header \in Sectors /\ NoJob \in [index : Slots \cup {None}, old : Entry]
  BY BlankTyped, Layout DEF Sectors, Header, NoJob
<1>1. Lands => disk' \in [Slots -> Entry] /\ header' \in BOOLEAN
  BY WrittenTyped DEF Lands, DiskInv, TypeOK
<1>2. CASE SaveSector
  <2>1. sector' \in Sectors
    BY <1>0, <1>2, Layout DEF SaveSector, Sectors, Header, TypeOK
  <2> QED BY <1>0, <1>1, <1>2, <2>1 DEF SaveSector, TypeOK
<1>3. CASE SaveFails
  <2> DEFINE old(e) == IF job.old.used THEN job.old ELSE Freed(e)
  <2>1. entries' = entries \/ entries' = [entries EXCEPT ![job.index] = old(entries[job.index])]
    BY <1>3 DEF SaveFails, RolledBack
  <2>2. \A e \in Entry : old(e) \in Entry
    BY FreedTyped DEF TypeOK
  <2>3. entries' \in [Slots -> Entry]
    <3> HIDE DEF old
    <3> QED BY <2>1, <2>2 DEF TypeOK
  <2>4. disk' \in [Slots -> Entry] /\ header' \in BOOLEAN
    BY <1>1, <1>3 DEF SaveFails, TypeOK
  <2> QED BY <1>0, <1>3, <2>3, <2>4 DEF SaveFails, TypeOK
<1>4. CASE PowerOff
  BY <1>0, <1>4, BlankTyped, RootIsSlot DEF PowerOff, TypeOK
<1>5. CASE vfs_load
  BY <1>5, RootIsSlot DEF vfs_load, TypeOK
<1>6. CASE vfs_create_default
  <2>1. drive_error' \in BOOLEAN
    BY <1>6 DEF vfs_create_default, TypeOK
  <2> QED BY <1>0, <1>6, <2>1, DefaultTyped, RootIsSlot DEF vfs_create_default, TypeOK
<1>7. CASE UNCHANGED vars
  BY <1>7 DEF vars, TypeOK
<1> QED BY <1>2, <1>3, <1>4, <1>5, <1>6, <1>7, TypeCommand DEF Next

-----------------------------------------------------------------------------
(* The tree survives every step.                                           *)

(* No circle appears where every parent is in a set whose members hang as  *)
(* they did.                                                               *)
LEMMA NoNewCircle ==
  ASSUME NEW t, NEW u, NEW D, NoCircle(t),
         \A i \in Files : u[i].used => u[i].parent \in D,
         \A i \in Files \cap D : u[i].used => t[i].used /\ t[i].parent = u[i].parent
  PROVE  NoCircle(u)
<1> SUFFICES ASSUME NEW S \in SUBSET Files, Circle(u, S) PROVE FALSE
  BY DEF NoCircle
<1> DEFINE T == S \cap D
<1>1. \A i \in S : u[i].used /\ u[i].parent \in T
  BY DEF Circle
<1>2. T # {} /\ \A i \in T : t[i].used /\ t[i].parent \in T
  BY <1>1 DEF Circle
<1> QED BY <1>2 DEF Circle, NoCircle

LEMMA TreeReturns ==
  ASSUME TreeInv, pc = "idle", Returns, current_dir' \in Dirs
  PROVE  TreeInv'
<1>1. UNCHANGED <<entries, disk, header, pc, job>> /\ Dirs' = Dirs
  BY DEF Returns, Dirs
<1> QED BY <1>1 DEF TreeInv, MemoryTree, JobFits, DiskTree, DiskStarts, FsOnDisk

LEMMA TreeSaves ==
  ASSUME TypeOK, TreeInv, pc = "idle", NEW i \in Files, i \notin Dirs, NEW new, Saves(i, new),
         new.used => new.parent \in Dirs
  PROVE  TreeInv'
<1>1. /\ job.index = None /\ i \in Slots /\ job'.index = i /\ job'.old = entries[i]
      /\ entries'[i] = new /\ \A k \in Slots \ {i} : entries'[k] = entries[k]
      /\ UNCHANGED <<current_dir, disk, header>> /\ pc' = "save"
  BY DEF TreeInv, JobFits, Files, Saves, TypeOK
<1>2. Dirs' = Dirs
  BY <1>1, RootIsSlot DEF Dirs
<1>3. entries[i].used => ~entries[i].is_dir
  BY <1>1, RootIsSlot DEF Dirs
<1>4. MemoryTree'
  <2>1. \A k \in Files : entries'[k].used => entries'[k].parent \in Dirs
    BY <1>1 DEF TreeInv, MemoryTree, Files
  <2>2. NoCircle(entries')
    <3>1. \A k \in Files \cap Dirs : entries'[k] = entries[k]
      BY <1>1 DEF Files
    <3> QED BY <2>1, <3>1, NoNewCircle DEF TreeInv, MemoryTree
  <2> QED BY <1>1, <1>2, <2>1, <2>2 DEF TreeInv, MemoryTree
<1>5. JobFits'
  BY <1>1, <1>2, <1>3 DEF JobFits, TreeInv, MemoryTree
<1>6. DiskTree'
  <2>1. \A d \in Dirs : entries'[d] = entries[d]
    BY <1>1 DEF Dirs
  <2> QED BY <1>1, <1>2, <2>1 DEF DiskTree, TreeInv
<1>7. DiskStarts'
  BY <1>1 DEF DiskStarts, TreeInv, FsOnDisk
<1> QED BY <1>1, <1>4, <1>5, <1>6, <1>7 DEF TreeInv

LEMMA TreeCommand == TypeOK /\ TreeInv /\ Command => TreeInv'
<1> SUFFICES ASSUME TypeOK, TreeInv, Command PROVE TreeInv'
  OBVIOUS
<1>1. pc = "idle"
  BY DEF Command, vfs_touch, vfs_mkdir, vfs_write, vfs_remove, vfs_cd
<1>2. /\ 0 \in Dirs /\ current_dir \in Dirs /\ job.index = None
      /\ \A i \in Files : entries[i].used => entries[i].parent \in Dirs
  BY <1>1 DEF TreeInv, MemoryTree, JobFits
<1>3. \A i \in Slots : i \notin Dirs => i \in Files
  BY <1>2 DEF Files
<1>4. Returns /\ UNCHANGED current_dir => TreeInv'
  BY <1>1, <1>2, TreeReturns
<1>5. ASSUME NEW dir, NEW n, Create(dir, n) PROVE TreeInv'
  <2>1. ASSUME NEW i \in FreeSlots, Saves(i, NewEntry(i, dir, n)) PROVE TreeInv'
    <3>1. i \in Slots /\ i \notin Dirs
      BY DEF FreeSlots, Dirs
    <3>2. NewEntry(i, dir, n).parent \in Dirs
      BY <1>2 DEF NewEntry
    <3> QED BY <1>1, <1>3, <2>1, <3>1, <3>2, TreeSaves
  <2> QED BY <1>4, <1>5, <2>1 DEF Create
<1>6. ASSUME NEW n, vfs_remove(n) PROVE TreeInv'
  <2>1. ASSUME NEW i \in Slots, ~entries[i].is_dir, Saves(i, Freed(entries[i])) PROVE TreeInv'
    <3>1. i \notin Dirs
      BY <2>1 DEF Dirs
    <3> QED BY <1>1, <1>3, <2>1, <3>1, TreeSaves, FreedPieces
  <2> QED BY <1>4, <1>6, <2>1 DEF vfs_remove
<1>7. ASSUME NEW n, NEW text, vfs_write(n, text) PROVE TreeInv'
  <2>1. ASSUME NEW i \in Slots, Is(i, current_dir, n), ~entries[i].is_dir,
               Saves(i, [entries[i] EXCEPT !.front = text,
                           !.back = IF text \in LongTexts THEN text ELSE @])
        PROVE  TreeInv'
    <3> DEFINE new == [entries[i] EXCEPT !.front = text,
                                         !.back = IF text \in LongTexts THEN text ELSE @]
    <3>1. i \notin Dirs
      BY <2>1 DEF Dirs
    <3>2. new.parent = entries[i].parent
      <4>1. IsEntry(entries[i])
        BY DEF TypeOK, Entry, IsEntry
      <4> QED BY <4>1, WritePieces
    <3>3. new.parent \in Dirs
      <4>1. entries[i].used
        BY <2>1 DEF Is, IsFirst, Children
      <4> HIDE DEF new
      <4> QED BY <1>2, <1>3, <3>1, <3>2, <4>1
    <3>4. Saves(i, new)
      BY <2>1
    <3> HIDE DEF new
    <3> QED BY <1>1, <1>3, <3>1, <3>3, <3>4, TreeSaves
  <2> QED BY <1>4, <1>7, <2>1 DEF vfs_write
<1>8. ASSUME NEW n, vfs_cd(n) PROVE TreeInv'
  <2>1. \A i \in Slots : Is(i, current_dir, n) /\ entries[i].is_dir => i \in Dirs
    BY <1>2, RootIsSlot DEF Is, IsFirst, Children, Dirs
  <2>2. current_dir # 0 => entries[current_dir].parent \in Dirs
    BY <1>2 DEF Dirs, Files
  <2>3. current_dir' \in Dirs
    BY <1>2, <1>8, <2>1, <2>2 DEF vfs_cd
  <2> QED BY <1>1, <1>8, <2>3, TreeReturns DEF vfs_cd
<1> QED BY <1>5, <1>6, <1>7, <1>8 DEF Command, vfs_touch, vfs_mkdir

(* A sector that lands, or is lost.                                        *)
LEMMA TreeLands ==
  ASSUME DiskInv, TreeInv, pc = "save", (~drive_error /\ Lands) \/ UNCHANGED <<disk, header>>
  PROVE  /\ \A d \in Dirs \ {0} : SameMeta(disk'[d], entries[d])
         /\ \A i \in Files : disk'[i].used => disk'[i].parent \in Dirs
         /\ DiskStarts'
<1>1. /\ \A d \in Dirs \ {0} : SameMeta(disk[d], entries[d])
      /\ \A i \in Files : disk[i].used => disk[i].parent \in Dirs
      /\ \A i \in Files : entries[i].used => entries[i].parent \in Dirs
      /\ entries[0].used /\ entries[0].is_dir
  BY DEF TreeInv, DiskTree, MemoryTree, Dirs
<1>2. CASE UNCHANGED <<disk, header>>
  BY <1>1, <1>2 DEF TreeInv, DiskStarts, FsOnDisk
<1>3. CASE Lands
  <2>1. /\ sector \in Int /\ \A i \in Slots : First[i] \in Nat
        /\ First[0] = 0
    BY Layout, VfsAssumption DEF DiskInv, Progress, Header
  <2>2. \A i \in Slots : SameMeta(disk'[i], entries[i]) \/ SameMeta(disk'[i], disk[i])
    <3>1. \A i \in Slots : First[i] <= sector \/ First[i] > sector
      BY <2>1
    <3> QED BY <1>3, <3>1, LandsPieces DEF DiskInv
  <2>3. \A d \in Dirs \ {0} : SameMeta(disk'[d], entries[d])
    BY <1>1, <2>2 DEF Dirs, SameMeta
  <2>4. \A i \in Files : disk'[i].used => disk'[i].parent \in Dirs
    BY <1>1, <2>2 DEF Files, SameMeta
  <2>5. DiskStarts'
    <3>1. CASE sector = Header
      BY <1>3, <3>1 DEF Lands, TreeInv, DiskStarts, FsOnDisk
    <3>2. CASE sector # Header
      <4>1. sector >= 0
        BY <3>2, Layout DEF DiskInv, Progress, Header
      <4>2. header' /\ SameMeta(disk'[0], entries[0])
        BY <1>3, <2>1, <4>1, LandsPieces, RootIsSlot DEF DiskInv
      <4> QED BY <1>1, <4>2 DEF DiskStarts, FsOnDisk, SameMeta
    <3> QED BY <3>1, <3>2
  <2> QED BY <2>3, <2>4, <2>5
<1> QED BY <1>2, <1>3

LEMMA TreeSaveSector == TypeOK /\ DiskInv /\ TreeInv /\ SaveSector => TreeInv'
<1> SUFFICES ASSUME TypeOK, DiskInv, TreeInv, SaveSector PROVE TreeInv'
  OBVIOUS
<1>1. pc = "save" /\ Lands /\ UNCHANGED <<entries, current_dir>> /\ ~drive_error
  BY DEF SaveSector
<1>2. /\ \A d \in Dirs \ {0} : SameMeta(disk'[d], entries[d])
      /\ \A i \in Files : disk'[i].used => disk'[i].parent \in Dirs
      /\ DiskStarts'
  BY <1>1, TreeLands
<1>3. CASE sector # LastSector
  <2>1. UNCHANGED <<pc, job>> /\ Dirs' = Dirs
    BY <1>1, <1>3 DEF SaveSector, Dirs
  <2> QED BY <1>1, <1>2, <2>1 DEF TreeInv, MemoryTree, JobFits, DiskTree
<1>4. CASE sector = LastSector
  <2>1. pc' = "idle" /\ job'.index = None /\ saved'
    BY <1>4 DEF SaveSector, NoJob
  <2>2. Dirs \subseteq Dirs'
    BY <1>1, <2>1, RootIsSlot DEF Dirs
  <2>3. disk' = entries
    BY <1>1, <2>1, DiskSaveSector DEF DiskInv, Durable
  <2>4. MemoryTree'
    BY <1>1, <2>1, <2>2 DEF TreeInv, MemoryTree
  <2>5. DiskTree'
    <3>1. \A d \in Dirs' \ {0} : SameMeta(disk'[d], entries'[d])
      BY <1>1, <2>3 DEF SameMeta
    <3> QED BY <1>2, <2>2, <3>1 DEF DiskTree
  <2> QED BY <1>2, <2>1, <2>4, <2>5 DEF TreeInv, JobFits
<1> QED BY <1>3, <1>4

(* What a failing save puts back.                                          *)
LEMMA PutBack ==
  ASSUME TypeOK, TreeInv, SaveFails
  PROVE  /\ pc = "save" /\ pc' = "idle" /\ job'.index = None
         /\ UNCHANGED current_dir
         /\ (~drive_error /\ Lands) \/ UNCHANGED <<disk, header>>
         /\ \A i \in Slots : i # job.index => entries'[i] = entries[i]
         /\ job.index # None => IF job.old.used THEN entries'[job.index] = job.old
                                ELSE ~entries'[job.index].used
<1>1. /\ pc = "save" /\ pc' = "idle" /\ job'.index = None /\ UNCHANGED current_dir
      /\ (~drive_error /\ Lands) \/ UNCHANGED <<disk, header>>
  BY DEF SaveFails, NoJob
<1>2. CASE job.index = None
  <2>1. entries' = entries
    BY <1>2 DEF SaveFails, RolledBack
  <2> QED BY <1>1, <1>2, <2>1
<1>3. CASE job.index # None
  <2> DEFINE old == IF job.old.used THEN job.old ELSE Freed(entries[job.index])
  <2>1. job.index \in Slots
    BY <1>3 DEF TreeInv, JobFits, Files
  <2>2. entries' = [entries EXCEPT ![job.index] = old]
    BY <1>3 DEF SaveFails, RolledBack
  <2>3. IF job.old.used THEN old = job.old ELSE ~old.used
    BY FreedPieces
  <2> HIDE DEF old
  <2>4. entries'[job.index] = old /\ \A i \in Slots : i # job.index => entries'[i] = entries[i]
    BY <2>1, <2>2 DEF TypeOK
  <2> QED BY <1>1, <2>3, <2>4
<1> QED BY <1>2, <1>3

LEMMA TreeSaveFails == TypeOK /\ DiskInv /\ TreeInv /\ SaveFails => TreeInv'
<1> SUFFICES ASSUME TypeOK, DiskInv, TreeInv, SaveFails PROVE TreeInv'
  OBVIOUS
<1>1. /\ pc = "save" /\ pc' = "idle" /\ job'.index = None /\ UNCHANGED current_dir
      /\ \A i \in Slots : i # job.index => entries'[i] = entries[i]
      /\ job.index # None => IF job.old.used THEN entries'[job.index] = job.old
                             ELSE ~entries'[job.index].used
  BY PutBack
<1>2. /\ \A d \in Dirs \ {0} : SameMeta(disk'[d], entries[d])
      /\ \A i \in Files : disk'[i].used => disk'[i].parent \in Dirs
      /\ DiskStarts'
  BY PutBack, TreeLands
<1>3. Dirs' = Dirs
  BY <1>1, RootIsSlot DEF Dirs, TreeInv, JobFits
<1>4. \A d \in Dirs : entries'[d] = entries[d]
  BY <1>1 DEF Dirs
<1>5. MemoryTree'
  <2>1. \A i \in Files : entries'[i].used => entries'[i].parent \in Dirs
    BY <1>1, RootIsSlot DEF TreeInv, MemoryTree, JobFits, Files
  <2>2. NoCircle(entries')
    BY <1>1, <1>4, <2>1, NoNewCircle DEF TreeInv, MemoryTree
  <2> QED BY <1>1, <1>3, <2>1, <2>2 DEF TreeInv, MemoryTree
<1>6. DiskTree'
  BY <1>2, <1>3, <1>4 DEF DiskTree
<1> QED BY <1>1, <1>2, <1>5, <1>6 DEF TreeInv, JobFits

(* What a boot will find.                                                  *)
LEMMA RootedDisk ==
  ASSUME TypeOK, TreeInv
  PROVE  Rooted(disk)
<1>1. CASE pc = "off"
  BY <1>1 DEF TreeInv
<1>2. CASE pc # "off"
  <2>1. /\ \A d \in Dirs \ {0} : SameMeta(disk[d], entries[d])
        /\ \A i \in Files : disk[i].used => disk[i].parent \in Dirs
    BY <1>2 DEF TreeInv, DiskTree
  <2>2. NoCircle(disk)
    BY <1>2, <2>1, NoNewCircle DEF TreeInv, MemoryTree, Files, Dirs, SameMeta
  <2>3. ASSUME NEW i \in Files, disk[i].used
        PROVE  /\ disk[i].parent \in Slots
               /\ disk[disk[i].parent].used /\ disk[disk[i].parent].is_dir
    <3>1. FsOnDisk
      BY <2>3 DEF TreeInv, DiskStarts, Files
    <3>2. disk[i].parent \in Dirs
      BY <2>1, <2>3
    <3> QED BY <2>1, <3>1, <3>2 DEF FsOnDisk, Dirs, SameMeta
  <2> QED BY <2>2, <2>3 DEF Rooted
<1> QED BY <1>1, <1>2

LEMMA TreeBoot ==
  ASSUME ReadFails = FALSE
  PROVE  TypeOK /\ TreeInv /\ (PowerOff \/ vfs_load \/ vfs_create_default) => TreeInv'
<1> SUFFICES ASSUME TypeOK, TreeInv, PowerOff \/ vfs_load \/ vfs_create_default PROVE TreeInv'
  OBVIOUS
<1>1. CASE PowerOff
  <2>1. /\ pc' = "off" /\ job'.index = None /\ UNCHANGED <<disk, header>>
    BY <1>1 DEF PowerOff, NoJob
  <2> QED BY <2>1, RootedDisk DEF TreeInv, MemoryTree, JobFits, DiskTree, DiskStarts, FsOnDisk
<1>2. CASE vfs_load
  <2>1. /\ pc = "off" /\ pc' = "idle" /\ UNCHANGED <<disk, header, job>> /\ entries' = disk
        /\ current_dir' = 0 /\ FsOnDisk /\ job.index = None
    BY <1>2 DEF vfs_load, TreeInv, JobFits
  <2>2. Dirs' = {d \in Slots : disk[d].used /\ disk[d].is_dir}
    BY <2>1, RootIsSlot DEF Dirs
  <2>3. 0 \in Dirs' /\ \A i \in Files : disk[i].used => disk[i].parent \in Dirs'
    BY <2>1, <2>2, RootIsSlot DEF TreeInv, Rooted, FsOnDisk
  <2>4. MemoryTree' /\ DiskTree'
    BY <2>1, <2>3 DEF MemoryTree, DiskTree, TreeInv, Rooted, SameMeta
  <2> QED BY <2>1, <2>4 DEF TreeInv, JobFits, DiskStarts, FsOnDisk
<1>3. CASE vfs_create_default
  <2>1. /\ pc = "off" /\ pc' = "save" /\ UNCHANGED <<disk, header>> /\ entries' = DefaultTable
        /\ current_dir' = 0 /\ job'.index = None /\ \A i \in Slots : ~disk[i].used
    BY <1>3 DEF vfs_create_default, NoJob, TreeInv, DiskStarts
  <2>2. /\ entries'[0].used /\ entries'[0].is_dir
        /\ \A i \in Files : ~entries'[i].is_dir /\ entries'[i].parent = 0
    BY <2>1, RootIsSlot DEF DefaultTable, Blank, Files
  <2>3. Dirs' = {0}
    BY <2>1, <2>2, RootIsSlot DEF Dirs, Files
  <2>4. NoCircle(entries')
    BY <2>2 DEF NoCircle, Circle, Files
  <2>5. MemoryTree'
    BY <2>1, <2>2, <2>3, <2>4 DEF MemoryTree
  <2> QED BY <2>1, <2>3, <2>5 DEF TreeInv, JobFits, DiskTree, DiskStarts, FsOnDisk, Files
<1> QED BY <1>1, <1>2, <1>3

LEMMA TreeInit == Init => TreeInv
<1> SUFFICES ASSUME Init PROVE TreeInv
  OBVIOUS
<1>1. \A i \in Slots : ~disk[i].used
  BY DEF Init, Blank
<1>2. Rooted(disk)
  BY <1>1 DEF Rooted, NoCircle, Circle, Files
<1> QED BY <1>1, <1>2 DEF Init, NoJob, TreeInv, MemoryTree, JobFits, DiskTree, DiskStarts

LEMMA TreeStep ==
  ASSUME ReadFails = FALSE
  PROVE  TypeOK /\ DiskInv /\ TreeInv /\ [Next]_vars => TreeInv'
<1>1. TypeOK /\ TreeInv /\ UNCHANGED vars => TreeInv'
  BY DEF vars, TreeInv, MemoryTree, JobFits, DiskTree, DiskStarts, FsOnDisk, Dirs
<1> QED BY <1>1, TreeCommand, TreeSaveSector, TreeSaveFails, TreeBoot DEF Next

LEMMA TreeInductive ==
  ASSUME ReadFails = FALSE
  PROVE  Spec => [](TypeOK /\ DiskInv /\ TreeInv)
<1>1. Init => TypeOK /\ DiskInv /\ TreeInv
  BY TypeInit, DiskInit, TreeInit
<1>2. TypeOK /\ DiskInv /\ TreeInv /\ [Next]_vars => (TypeOK /\ DiskInv /\ TreeInv)'
  BY TypeStep, DiskStep, TreeStep
<1> QED BY <1>1, <1>2, PTL DEF Spec

(* With a disk that answers at boot, the table is one tree of directories  *)
(* whenever the machine runs, whatever saves failed and whenever the power *)
(* was cut: for every number of entries and every layout on the sectors.   *)
THEOREM VfsTable ==
  ASSUME ReadFails = FALSE
  PROVE  Spec => []TableOK
<1>1. TypeOK /\ TreeInv => TableOK
  <2> SUFFICES ASSUME TypeOK, TreeInv, pc # "off" PROVE TableOK
    BY DEF TableOK, TreeOK
  <2>1. \A S \in SUBSET (Slots \ {0}) : ~ClimbsForever(S)
    BY DEF TreeInv, MemoryTree, NoCircle, Circle, ClimbsForever, Files
  <2>2. /\ entries[0].used /\ entries[0].is_dir
        /\ entries[current_dir].used /\ entries[current_dir].is_dir
        /\ \A i \in Slots \ {0} :
             entries[i].used => /\ entries[i].parent \in Slots
                                /\ entries[entries[i].parent].used
                                /\ entries[entries[i].parent].is_dir
    BY DEF TreeInv, MemoryTree, Dirs, Files
  <2> QED BY <2>1, <2>2 DEF TableOK, TreeOK
<1> QED BY <1>1, TreeInductive, PTL

-----------------------------------------------------------------------------
(* Names stay unique.                                                      *)

LEMMA SameName ==
  ASSUME NEW d, NEW e, d.name = e.name, d.name \in LongHeads => d.rest = e.rest
  PROVE  NameOf(d) = NameOf(e)
BY DEF NameOf

LEMMA KeptName ==
  ASSUME NEW b, NEW i, NEW e, Kept(b, e, i), ~SplitIn(e, i)
  PROVE  NameOf(e) = NameOf(b[i]) /\ ~SplitIn(b[i], i)
BY SameName DEF Kept, SplitIn

(* A table near one without clashes has none.                              *)
LEMMA NearIsUnique ==
  ASSUME NEW b, Unique(b), NEW t, Near(b, t)
  PROVE  Unique(t)
<1> SUFFICES ASSUME NEW i \in Files, NEW j \in Files, Clash(t[i], t[j]),
                    i # j, ~SplitIn(t[i], i), ~SplitIn(t[j], j)
             PROVE  CutName(t[i])
  BY DEF Unique
<1>0. /\ t[i].used /\ t[j].used /\ t[i].parent = t[j].parent /\ NameOf(t[i]) = NameOf(t[j])
      /\ Kept(b, t[i], i) \/ Fresh(b, t[i], i)
      /\ Kept(b, t[j], j) \/ Fresh(b, t[j], j)
  BY DEF Clash, Near
<1>1. CASE Kept(b, t[i], i) /\ Kept(b, t[j], j)
  <2>1. Clash(b[i], b[j])
    BY <1>0, <1>1, KeptName DEF Clash, Kept
  <2>2. CutName(b[i])
    BY <1>1, <2>1, KeptName DEF Unique
  <2> QED BY <1>1, <2>2, KeptName DEF CutName
<1>2. CASE Kept(b, t[i], i) /\ Fresh(b, t[j], j)
  <2>1. Clash(t[j], b[i]) /\ ~SplitIn(b[i], i)
    BY <1>0, <1>2, KeptName DEF Clash, Kept
  <2>2. CutName(t[j])
    BY <1>2, <2>1 DEF Fresh
  <2> QED BY <1>0, <2>2 DEF CutName
<1>3. CASE Fresh(b, t[i], i) /\ Kept(b, t[j], j)
  <2>1. Clash(t[i], b[j]) /\ ~SplitIn(b[j], j)
    BY <1>0, <1>3, KeptName DEF Clash, Kept
  <2> QED BY <1>3, <2>1 DEF Fresh
<1>4. CASE Fresh(b, t[i], i) /\ Fresh(b, t[j], j)
  <2>1. i <= j /\ j <= i /\ i \in Nat /\ j \in Nat
    BY <1>4, RootIsSlot DEF Fresh, IsFirst, Files
  <2> QED BY <2>1
<1> QED BY <1>0, <1>1, <1>2, <1>3, <1>4

LEMMA NearItself == \A t : Near(t, t)
BY DEF Near, Kept

(* Only an entry's metadata, and the rest of its name if it is on the same *)
(* sector, decide whether it is near.                                      *)
LEMMA SameNear ==
  ASSUME NEW b, NEW i \in Slots, NEW d, NEW e, SameMeta(d, e),
         First[i] = Text[i] => d.rest = e.rest,
         Kept(b, e, i) \/ Fresh(b, e, i)
  PROVE  Kept(b, d, i) \/ Fresh(b, d, i)
<1>1. Kept(b, e, i) => Kept(b, d, i)
  BY DEF Kept, SameMeta
<1>2. ASSUME Fresh(b, e, i) PROVE Fresh(b, d, i)
  <2>1. SplitIn(e, i) <=> SplitIn(d, i)
    BY DEF SplitIn, SameMeta
  <2>2. ~SplitIn(d, i) => NameOf(d) = NameOf(e)
    BY SameName DEF SplitIn, SameMeta
  <2>3. ~SplitIn(d, i) => (CutName(d) <=> CutName(e))
    BY <2>2 DEF CutName
  <2>4. \A f : ~SplitIn(d, i) /\ Clash(d, f) => Clash(e, f)
    BY <2>2 DEF Clash, SameMeta
  <2> QED BY <1>2, <2>1, <2>3, <2>4 DEF Fresh
<1> QED BY <1>1, <1>2

(* What a table holds in its unused entries decides nothing.               *)
LEMMA SameBefore ==
  ASSUME NEW b, NEW c, \A i \in Slots : c[i].used = b[i].used,
         \A i \in Slots : b[i].used => c[i] = b[i]
  PROVE  /\ Unique(b) => Unique(c)
         /\ \A t : Near(b, t) => Near(c, t)
<1>1. Unique(b) => Unique(c)
  BY DEF Unique, Clash, Files
<1>2. ASSUME NEW i \in Files, NEW e
      PROVE  /\ Kept(b, e, i) => Kept(c, e, i)
             /\ Fresh(b, e, i) => Fresh(c, e, i)
  <2>1. Kept(b, e, i) => Kept(c, e, i)
    BY DEF Kept, Files
  <2>2. \A j \in Files : Clash(e, c[j]) => Clash(e, b[j]) /\ c[j] = b[j]
    BY DEF Clash, Files
  <2>3. {k \in Slots : ~c[k].used} = {k \in Slots : ~b[k].used}
    OBVIOUS
  <2>4. Fresh(b, e, i) => Fresh(c, e, i)
    BY <2>2, <2>3 DEF Fresh
  <2> QED BY <2>1, <2>4
<1> QED BY <1>1, <1>2 DEF Near

-----------------------------------------------------------------------------
LEMMA NameReturns == NameInv /\ Returns => NameInv'
BY DEF NameInv, Returns, TableBefore, Before

LEMMA NameSaves ==
  ASSUME TypeOK, NameInv, JobFits, pc = "idle", NEW i \in Slots, NEW new, Saves(i, new),
         new.used => Kept(entries, new, i) \/ Fresh(entries, new, i)
  PROVE  NameInv'
<1>1. /\ job.index = None /\ job'.index = i /\ job'.old = entries[i] /\ pc' = "save"
      /\ entries'[i] = new /\ \A k \in Slots \ {i} : entries'[k] = entries[k]
      /\ disk' = disk
  BY DEF JobFits, Saves, TypeOK
<1>2. TableBefore = entries
  BY <1>1, RootIsSlot DEF TableBefore, Before, TypeOK
<1>3. TableBefore' = entries
  <2>1. \A k \in Slots : Before(k)' = entries[k]
    BY <1>1 DEF Before
  <2> QED BY <2>1 DEF TableBefore, TypeOK
<1>4. Unique(entries) /\ Near(entries, disk)
  BY <1>2 DEF NameInv
<1>5. Near(entries, entries')
  BY <1>1, NearItself DEF Near, Files
<1> QED BY <1>1, <1>3, <1>4, <1>5 DEF NameInv

(* The name vfs_touch and vfs_mkdir give is that of no child, unless it is *)
(* one that is cut.                                                        *)
LEMMA NewIsFresh ==
  ASSUME NEW n \in Names, NEW dir, Children(current_dir, n) = {},
         NEW i, IsFirst(i, FreeSlots)
  PROVE  Fresh(entries, NewEntry(i, dir, n), i)
<1> DEFINE new == NewEntry(i, dir, n)
<1>1. /\ new.name = Stored[n].name /\ new.parent = current_dir
      /\ n \in LongNames => new.rest = Stored[n].rest
  BY DEF NewEntry
<1>2. new.name \in LongHeads => n \in LongNames
  BY <1>1, VfsAssumption DEF LongHeads
<1> HIDE DEF new
<1>3. NameOf(new) = NameOf(Stored[n])
  BY <1>1, <1>2, SameName
<1>4. ASSUME NEW j \in Files, Clash(new, entries[j]) PROVE CutName(new)
  <2>1. j \in Slots /\ j \notin Children(current_dir, n)
    BY DEF Files
  <2>2. n \in Cut
    BY <1>1, <1>3, <1>4, <2>1 DEF Clash, Children
  <2> QED BY <1>3, <2>2 DEF CutName
<1> QED BY <1>4 DEF Fresh, FreeSlots, new

LEMMA NameCommand == TypeOK /\ TreeInv /\ NameInv /\ Command => NameInv'
<1> SUFFICES ASSUME TypeOK, TreeInv, NameInv, Command PROVE NameInv'
  OBVIOUS
<1>1. pc = "idle" /\ JobFits
  BY DEF Command, vfs_touch, vfs_mkdir, vfs_write, vfs_remove, vfs_cd, TreeInv
<1>2. ASSUME NEW dir, NEW n \in Names, Create(dir, n) PROVE NameInv'
  <2>1. FreeSlots \subseteq Slots
    BY DEF FreeSlots
  <2> QED BY <1>1, <1>2, <2>1, NameReturns, NameSaves, NewIsFresh DEF Create
<1>3. ASSUME NEW n, vfs_remove(n) PROVE NameInv'
  BY <1>1, <1>3, NameReturns, NameSaves, FreedPieces DEF vfs_remove
<1>4. ASSUME NEW n, NEW text, vfs_write(n, text) PROVE NameInv'
  <2>1. ASSUME NEW i \in Slots, Is(i, current_dir, n),
               Saves(i, [entries[i] EXCEPT !.front = text,
                           !.back = IF text \in LongTexts THEN text ELSE @])
        PROVE  NameInv'
    <3> DEFINE new == [entries[i] EXCEPT !.front = text,
                                         !.back = IF text \in LongTexts THEN text ELSE @]
    <3>1. new.parent = entries[i].parent /\ new.name = entries[i].name
            /\ new.rest = entries[i].rest
      <4>1. IsEntry(entries[i])
        BY DEF TypeOK, Entry, IsEntry
      <4> QED BY <4>1, WritePieces
    <3>2. entries[i].used
      BY <2>1 DEF Is, IsFirst, Children
    <3>3. Saves(i, new)
      BY <2>1
    <3> HIDE DEF new
    <3>4. Kept(entries, new, i)
      BY <3>1, <3>2 DEF Kept
    <3> QED BY <1>1, <3>3, <3>4, NameSaves
  <2> QED BY <1>4, <2>1, NameReturns DEF vfs_write
<1>5. ASSUME NEW n, vfs_cd(n) PROVE NameInv'
  BY <1>5, NameReturns DEF vfs_cd
<1> QED BY <1>2, <1>3, <1>4, <1>5 DEF Command, vfs_touch, vfs_mkdir

(* A sector that lands, or is lost.                                        *)
LEMMA NameLands ==
  ASSUME DiskInv, NameInv, pc = "save", (~drive_error /\ Lands) \/ UNCHANGED <<disk, header>>
  PROVE  Near(TableBefore, disk')
<1>1. Near(TableBefore, entries) /\ Near(TableBefore, disk)
  BY DEF NameInv
<1>2. CASE UNCHANGED <<disk, header>>
  BY <1>1, <1>2
<1>3. CASE Lands
  <2> SUFFICES ASSUME NEW i \in Files, disk'[i].used
               PROVE  Kept(TableBefore, disk'[i], i) \/ Fresh(TableBefore, disk'[i], i)
    BY DEF Near
  <2>1. i \in Slots
    BY DEF Files
  <2>2. /\ sector \in Int /\ First[i] \in Nat /\ Text[i] \in Nat
    BY <2>1, Layout DEF DiskInv, Progress, Header
  <2>3. \/ SameMeta(disk'[i], entries[i]) /\ (First[i] = Text[i] => SameText(disk'[i], entries[i]))
        \/ SameMeta(disk'[i], disk[i]) /\ (First[i] = Text[i] => SameText(disk'[i], disk[i]))
    <3>1. First[i] <= sector \/ First[i] > sector
      BY <2>2
    <3> QED BY <1>3, <2>1, <3>1, LandsPieces DEF DiskInv
  <2>4. \A e \in {entries[i], disk[i]} :
          SameMeta(disk'[i], e) => Kept(TableBefore, e, i) \/ Fresh(TableBefore, e, i)
    BY <1>1 DEF Near, SameMeta
  <2> QED BY <2>1, <2>3, <2>4, SameNear DEF SameText
<1> QED BY <1>2, <1>3

LEMMA NameSaveSector == TypeOK /\ DiskInv /\ NameInv /\ SaveSector => NameInv'
<1> SUFFICES ASSUME TypeOK, DiskInv, NameInv, SaveSector PROVE NameInv'
  OBVIOUS
<1>1. pc = "save" /\ ~drive_error /\ Lands /\ UNCHANGED entries
  BY DEF SaveSector
<1>2. Near(TableBefore, disk')
  BY <1>1, NameLands
<1>3. CASE sector # LastSector
  <2>1. pc' = "save" /\ TableBefore' = TableBefore
    BY <1>1, <1>3 DEF SaveSector, TableBefore, Before
  <2> QED BY <1>1, <1>2, <2>1 DEF NameInv
<1>4. CASE sector = LastSector
  <2>1. pc' = "idle" /\ saved' /\ job'.index = None
    BY <1>4 DEF SaveSector, NoJob
  <2>2. disk' = entries
    BY <1>1, <2>1, DiskSaveSector DEF DiskInv, Durable
  <2>3. TableBefore' = entries
    BY <1>1, <2>1, RootIsSlot DEF TableBefore, Before, TypeOK
  <2>4. Unique(entries)
    BY <1>1, NearIsUnique DEF NameInv
  <2> QED BY <1>1, <2>1, <2>2, <2>3, <2>4, NearItself DEF NameInv
<1> QED BY <1>3, <1>4

LEMMA NameSaveFails == TypeOK /\ DiskInv /\ TreeInv /\ NameInv /\ SaveFails => NameInv'
<1> SUFFICES ASSUME TypeOK, DiskInv, TreeInv, NameInv, SaveFails PROVE NameInv'
  OBVIOUS
<1>1. /\ pc = "save" /\ pc' = "idle" /\ job'.index = None
      /\ \A i \in Slots : i # job.index => entries'[i] = entries[i]
      /\ job.index # None => IF job.old.used THEN entries'[job.index] = job.old
                             ELSE ~entries'[job.index].used
  BY PutBack
<1>2. Near(TableBefore, disk')
  BY PutBack, NameLands
<1>3. TableBefore' = entries'
  <2>1. entries' = [i \in Slots |-> entries'[i]]
    BY TypeStep DEF TypeOK, Next
  <2> QED BY <1>1, <2>1, RootIsSlot DEF TableBefore, Before
<1>4. /\ \A i \in Slots : entries'[i].used = TableBefore[i].used
      /\ \A i \in Slots : TableBefore[i].used => entries'[i] = TableBefore[i]
  <2> SUFFICES ASSUME NEW i \in Slots
               PROVE  /\ entries'[i].used = TableBefore[i].used
                      /\ TableBefore[i].used => entries'[i] = TableBefore[i]
    OBVIOUS
  <2>1. TableBefore[i] = IF i = job.index THEN job.old ELSE entries[i]
    BY DEF TableBefore, Before
  <2>2. entries'[i] \in Entry /\ job.old \in Entry /\ i # None
    BY TypeStep, RootIsSlot DEF TypeOK, Next
  <2>3. entries'[i].used \in BOOLEAN /\ job.old.used \in BOOLEAN
    BY <2>2, EntryFields
  <2> QED BY <1>1, <2>1, <2>2, <2>3
<1>5. Unique(entries') /\ Near(entries', disk')
  BY <1>1, <1>2, <1>4, SameBefore DEF NameInv
<1> QED BY <1>1, <1>3, <1>5, NearItself DEF NameInv

LEMMA UniqueDisk ==
  ASSUME NameInv
  PROVE  Unique(disk)
BY NearIsUnique DEF NameInv

LEMMA NameBoot ==
  ASSUME ReadFails = FALSE
  PROVE  TypeOK /\ TreeInv /\ NameInv /\ (PowerOff \/ vfs_load \/ vfs_create_default) => NameInv'
<1> SUFFICES ASSUME TypeOK, TreeInv, NameInv, PowerOff \/ vfs_load \/ vfs_create_default
             PROVE  NameInv'
  OBVIOUS
<1>1. CASE PowerOff
  BY <1>1, UniqueDisk DEF PowerOff, NameInv
<1>2. CASE vfs_load
  <2>1. /\ pc = "off" /\ pc' = "idle" /\ UNCHANGED <<disk, job>> /\ entries' = disk
        /\ job.index = None
    BY <1>2 DEF vfs_load, TreeInv, JobFits
  <2>2. TableBefore' = disk
    BY <2>1, RootIsSlot DEF TableBefore, Before, TypeOK
  <2> QED BY <2>1, <2>2, NearItself DEF NameInv
<1>3. CASE vfs_create_default
  <2>1. /\ pc' = "save" /\ UNCHANGED disk /\ entries' = DefaultTable
        /\ job'.index = None /\ \A i \in Slots : ~disk[i].used
    BY <1>3 DEF vfs_create_default, NoJob, TreeInv, DiskStarts
  <2>2. TableBefore' = DefaultTable
    BY <2>1, RootIsSlot DEF TableBefore, Before, DefaultTable
  <2>3. Unique(DefaultTable)
    <3>1. \A i \in Files : DefaultTable[i].used =>
            i \in {1, 2, 3} /\ DefaultTable[i].name = FileName(i)
      <4> SUFFICES ASSUME NEW i \in Files, DefaultTable[i].used
                   PROVE  i \in {1, 2, 3} /\ DefaultTable[i].name = FileName(i)
        OBVIOUS
      <4>1. i \in DefaultFiles
        <5>1. i \notin DefaultFiles => DefaultTable[i].used = FALSE
          BY DEF DefaultTable, Blank, Files
        <5> QED BY <5>1
      <4>2. DefaultTable[i].name = FileName(i)
        BY <4>1 DEF DefaultTable, Blank, Files
      <4>3. i \in 1..3
        BY <4>1, VfsAssumption
      <4> QED BY <4>2, <4>3
    <3>2. \A d, e : NameOf(d) = NameOf(e) => d.name = e.name
      BY DEF NameOf
    <3>3. \A i, j \in {1, 2, 3} : FileName(i) = FileName(j) => i = j
      BY DEF FileName
    <3> QED BY <3>1, <3>2, <3>3 DEF Unique, Clash
  <2> QED BY <2>1, <2>2, <2>3, NearItself DEF NameInv, Near, Files
<1> QED BY <1>1, <1>2, <1>3

LEMMA NameInit == Init => NameInv
<1> SUFFICES ASSUME Init PROVE NameInv
  OBVIOUS
<1>1. \A i \in Slots : disk[i].used = FALSE
  BY DEF Init, Blank
<1> QED BY <1>1 DEF Init, NameInv, Unique, Clash, Files

LEMMA NameStep ==
  ASSUME ReadFails = FALSE
  PROVE  TypeOK /\ DiskInv /\ TreeInv /\ NameInv /\ [Next]_vars => NameInv'
<1>1. NameInv /\ UNCHANGED vars => NameInv'
  BY DEF vars, NameInv, TableBefore, Before
<1> QED BY <1>1, NameCommand, NameSaveSector, NameSaveFails, NameBoot DEF Next

(* With a disk that answers at boot, two entries of one directory never    *)
(* have the same name, but for names that are cut short or written in two  *)
(* pieces: not after failed saves, power cuts or boots from a torn table.  *)
THEOREM VfsNames ==
  ASSUME ReadFails = FALSE
  PROVE  Spec => []NoDuplicates
<1>1. Init => NameInv
  BY NameInit
<1>2. TypeOK /\ DiskInv /\ TreeInv /\ NameInv /\ [Next]_vars => NameInv'
  BY NameStep
<1>3. NameInv => NoDuplicates
  <2> SUFFICES ASSUME NameInv, pc # "off" PROVE NoDuplicates
    BY DEF NoDuplicates
  <2>1. Unique(entries)
    BY NearIsUnique DEF NameInv
  <2> QED BY <2>1 DEF NoDuplicates, Unique, Clash, SplitIn, CutName, Split, CutShort, Files
<1> QED BY <1>1, <1>2, <1>3, TreeInductive, PTL DEF Spec

-----------------------------------------------------------------------------
(* What the user was told.                                                 *)

(* No command is at work on an entry that was reported saved.              *)
KeptInv ==
  /\ kept = [i \in Slots |-> kept[i]]
  /\ \A i \in Slots : kept[i].used => /\ disk[i] = kept[i]
                                     /\ (pc # "off" => entries[i] = kept[i])
                                     /\ job.index # i

LEMMA KeptStarts == KeptInit => KeptInv
<1> SUFFICES ASSUME KeptInit PROVE KeptInv
  OBVIOUS
<1>1. kept = [i \in Slots |-> Blank] /\ ~Blank.used
  BY DEF KeptInit, Blank
<1>2. \A i \in Slots : kept[i] = Blank
  BY <1>1
<1>3. kept = [i \in Slots |-> kept[i]]
  BY <1>1
<1> QED BY <1>1, <1>2, <1>3 DEF KeptInv

(* A command that leaves alone the files reported saved.                   *)
LEMMA KeptSaves ==
  ASSUME TypeOK, KeptInv, pc = "idle", NEW i \in Slots, NEW new, Saves(i, new),
         kept' = [k \in Slots |-> kept'[k]], ~kept'[i].used,
         \A k \in Slots : kept'[k].used => kept'[k] = kept[k]
  PROVE  KeptInv'
<1>1. /\ \A k \in Slots \ {i} : entries'[k] = entries[k]
      /\ disk' = disk /\ job'.index = i
  BY DEF Saves, TypeOK
<1> QED BY <1>1 DEF KeptInv

LEMMA KeptReturns ==
  ASSUME KeptInv, pc = "idle", Returns, kept' = [k \in Slots |-> kept'[k]],
         \A k \in Slots : kept'[k].used => kept'[k] = kept[k]
  PROVE  KeptInv'
BY DEF Returns, KeptInv

(* A new entry takes a place at which no file is promised.                 *)
LEMMA KeptCreate ==
  ASSUME TypeOK, KeptInv, pc = "idle", NEW dir, NEW n, Create(dir, n), UNCHANGED kept
  PROVE  KeptInv'
<1>1. ASSUME NEW i \in FreeSlots, Saves(i, NewEntry(i, dir, n)) PROVE KeptInv'
  <2>1. i \in Slots /\ ~kept[i].used
    BY DEF FreeSlots, KeptInv
  <2>2. kept' = [k \in Slots |-> kept'[k]]
    BY DEF KeptInv
  <2> QED BY <1>1, <2>1, <2>2, KeptSaves
<1>2. CASE Returns
  <2>1. kept' = [k \in Slots |-> kept'[k]]
    BY DEF KeptInv
  <2> QED BY <1>2, <2>1, KeptReturns
<1> QED BY <1>1, <1>2 DEF Create

(* A file is written or removed once the promise of it is withdrawn.       *)
LEMMA KeptChange ==
  ASSUME TypeOK, KeptInv, pc = "idle", NEW n, kept' = Withdrawn(n),
         \/ Returns
         \/ \E i \in Slots : \E new : /\ Is(i, current_dir, n) /\ ~entries[i].is_dir
                                      /\ Saves(i, new)
  PROVE  KeptInv'
<1>1. /\ kept' = [k \in Slots |-> kept'[k]]
      /\ \A k \in Slots : kept'[k].used => kept'[k] = kept[k] /\ k \notin Named(n)
  BY DEF Withdrawn, Blank
<1>2. CASE Returns
  BY <1>1, <1>2, KeptReturns
<1>3. ASSUME NEW i \in Slots, NEW new, Is(i, current_dir, n), ~entries[i].is_dir, Saves(i, new)
      PROVE  KeptInv'
  <2>1. i \in Named(n)
    BY <1>3 DEF Named
  <2> QED BY <1>1, <1>3, <2>1, KeptSaves
<1> QED BY <1>2, <1>3

(* A sector holds of such a file what is on the disk already.              *)
LEMMA KeptLands ==
  ASSUME DiskInv, KeptInv, pc = "save", Lands \/ UNCHANGED <<disk, header>>
  PROVE  \A i \in Slots : kept[i].used => disk'[i] = kept[i]
<1> SUFFICES ASSUME NEW i \in Slots, kept[i].used, Lands PROVE disk'[i] = kept[i]
  BY DEF KeptInv
<1>1. /\ disk[i] = kept[i] /\ entries[i] = kept[i] /\ IsEntry(kept[i])
  BY DEF KeptInv, DiskInv, Shapes, IsTable
<1>2. IsEntry(disk'[i])
  BY LandsPieces DEF DiskInv, IsTable
<1>3. SameMeta(disk'[i], kept[i]) /\ SameText(disk'[i], kept[i]) /\ SameBack(disk'[i], kept[i])
  <2>1. sector \in Int /\ First[i] \in Int /\ Text[i] \in Int /\ Last[i] \in Int
    BY Layout DEF DiskInv, Progress, Header
  <2> QED BY <1>1, <2>1, LandsPieces DEF DiskInv
<1> QED BY <1>1, <1>2, <1>3, SameEntry

LEMMA KeptSaveSector ==
  TypeOK /\ DiskInv /\ TreeInv /\ KeptInv /\ SaveSector /\ kept' = Reported => KeptInv'
<1> SUFFICES ASSUME TypeOK, DiskInv, TreeInv, KeptInv, SaveSector, kept' = Reported
             PROVE  KeptInv'
  OBVIOUS
<1>1. pc = "save" /\ entries' = entries /\ Lands
  BY DEF SaveSector
<1>2. \A i \in Slots : kept[i].used => disk'[i] = kept[i]
  BY <1>1, KeptLands
<1>3. CASE pc' # "idle" \/ job.index = None
  <2>1. kept' = kept /\ (job' = job \/ job'.index = None)
    BY <1>3 DEF Reported, SaveSector, NoJob
  <2>2. \A i \in Slots : i # None
    BY RootIsSlot
  <2> QED BY <1>1, <1>2, <2>1, <2>2 DEF KeptInv
<1>4. CASE pc' = "idle" /\ job.index # None
  <2>1. /\ job'.index = None /\ saved' /\ job.index \in Slots
        /\ kept' = [kept EXCEPT ![job.index] = entries[job.index]]
    BY <1>1, <1>4 DEF Reported, SaveSector, NoJob, TreeInv, JobFits, Files
  <2>2. disk' = entries
    BY <1>1, <1>4, <2>1, DiskSaveSector DEF DiskInv, Durable
  <2>3. \A i \in Slots : kept'[i] = IF i = job.index THEN entries[i] ELSE kept[i]
    BY <2>1 DEF KeptInv
  <2>4. kept' = [i \in Slots |-> kept'[i]] /\ \A i \in Slots : i # None
    BY <2>1, RootIsSlot DEF KeptInv
  <2> QED BY <1>1, <1>2, <2>1, <2>2, <2>3, <2>4 DEF KeptInv
<1> QED BY <1>3, <1>4

LEMMA KeptSaveFails ==
  TypeOK /\ DiskInv /\ TreeInv /\ KeptInv /\ SaveFails /\ UNCHANGED kept => KeptInv'
<1> SUFFICES ASSUME TypeOK, DiskInv, TreeInv, KeptInv, SaveFails, UNCHANGED kept
             PROVE  KeptInv'
  OBVIOUS
<1>1. /\ pc = "save" /\ job'.index = None
      /\ Lands \/ UNCHANGED <<disk, header>>
      /\ \A i \in Slots : i # job.index => entries'[i] = entries[i]
  BY PutBack
<1>2. \A i \in Slots : kept[i].used => disk'[i] = kept[i]
  BY <1>1, KeptLands
<1>3. \A i \in Slots : i # None
  BY RootIsSlot
<1> QED BY <1>1, <1>2, <1>3 DEF KeptInv

(* Nothing is promised on a disk a boot takes for an empty one.            *)
LEMMA KeptBoot ==
  ASSUME ReadFails = FALSE, TypeOK, TreeInv, KeptInv, UNCHANGED kept,
         PowerOff \/ vfs_load \/ vfs_create_default
  PROVE  KeptInv'
<1>1. \A i \in Slots : i # None
  BY RootIsSlot
<1>2. CASE PowerOff
  BY <1>1, <1>2 DEF PowerOff, NoJob, KeptInv
<1>3. CASE vfs_load
  BY <1>3 DEF vfs_load, KeptInv
<1>4. CASE vfs_create_default
  <2>1. \A i \in Slots : ~kept[i].used
    BY <1>4 DEF vfs_create_default, TreeInv, DiskStarts, KeptInv
  <2> QED BY <2>1 DEF KeptInv
<1> QED BY <1>2, <1>3, <1>4

LEMMA KeptStep ==
  ASSUME ReadFails = FALSE
  PROVE  TypeOK /\ DiskInv /\ TreeInv /\ KeptInv /\ [KeptNext]_keptVars => KeptInv'
<1> SUFFICES ASSUME TypeOK, DiskInv, TreeInv, KeptInv, [KeptNext]_keptVars PROVE KeptInv'
  OBVIOUS
<1>1. ASSUME NEW n, vfs_touch(n) \/ vfs_mkdir(n), UNCHANGED kept PROVE KeptInv'
  BY <1>1, KeptCreate DEF vfs_touch, vfs_mkdir
<1>2. ASSUME NEW n, vfs_remove(n), kept' = Withdrawn(n) PROVE KeptInv'
  BY <1>2, KeptChange DEF vfs_remove
<1>3. ASSUME NEW n, NEW text, vfs_write(n, text), kept' = Withdrawn(n) PROVE KeptInv'
  BY <1>3, KeptChange DEF vfs_write
<1>4. ASSUME NEW n, vfs_cd(n), UNCHANGED kept PROVE KeptInv'
  BY <1>4 DEF vfs_cd, Returns, KeptInv
<1>5. CASE UNCHANGED keptVars
  BY <1>5 DEF keptVars, vars, KeptInv
<1>6. CASE SaveSector /\ kept' = Reported
  BY <1>6, KeptSaveSector
<1>7. CASE (SaveFails \/ PowerOff \/ vfs_load \/ vfs_create_default) /\ UNCHANGED kept
  BY <1>7, KeptSaveFails, KeptBoot
<1> QED BY <1>1, <1>2, <1>3, <1>4, <1>5, <1>6, <1>7 DEF KeptNext

(* The observer takes the steps of the file system.                        *)
LEMMA KeptObserves == [KeptNext]_keptVars => [Next]_vars
BY DEF KeptNext, keptVars, Next, Command

(* With a disk that answers at boot, what was reported saved stays on the  *)
(* disk and in memory until a command names it, whatever other commands do *)
(* or fail to do and wherever the power is cut: for every number of entries*)
(* and every layout of them on the sectors.                                *)
THEOREM VfsKeptOnDisk ==
  ASSUME ReadFails = FALSE
  PROVE  KeptSpec => []KeptOnDisk
<1> DEFINE Inv == TypeOK /\ DiskInv /\ TreeInv /\ KeptInv
<1>1. KeptInit => Inv
  BY TypeInit, DiskInit, TreeInit, KeptStarts DEF KeptInit
<1>2. Inv /\ [KeptNext]_keptVars => Inv'
  BY TypeStep, DiskStep, TreeStep, KeptStep, KeptObserves
<1>3. Inv => KeptOnDisk
  <2> SUFFICES ASSUME Inv, NEW i \in Slots, kept[i].used
               PROVE  disk[i] = kept[i] /\ FsOnDisk /\ (pc # "off" => entries[i] = kept[i])
    BY DEF KeptOnDisk
  <2> QED BY DEF KeptInv, TreeInv, DiskStarts
<1> QED BY <1>1, <1>2, <1>3, PTL DEF KeptSpec
=============================================================================
