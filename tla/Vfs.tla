-------------------------------- MODULE Vfs --------------------------------
(***************************************************************************)
(* The file system (kernel/vfs.c): a table of entries in memory, written   *)
(* out in full, sector by sector, by every command that changes it, and    *)
(* read back at boot.  Power can fail between two sectors, a sector write  *)
(* can fail, and so can the reads at boot.                                 *)
(*                                                                         *)
(* Names and texts are abstract.  Stored[n] is what vfs_copy keeps of a    *)
(* name (31 characters), in two pieces: `name', the first 24 characters,   *)
(* and `rest'.  The image of an entry may straddle a sector boundary: its  *)
(* metadata and name are in sector First, the rest of the name and the     *)
(* beginning of its text (`front') in Text, and the end of the text        *)
(* (`back') in Last.  A name or text that is not long ends in its first    *)
(* piece and leaves the second as it was.                                  *)
(***************************************************************************)
EXTENDS Integers

CONSTANTS
  VFS_MAX_ENTRIES,    \* 16 in the code
  VFS_DATA_SECTORS,   \* 10 in the code
  First, Text, Last,  \* entry -> sector of its metadata, of the beginning
                      \* and of the end of its text
  DefaultFiles,       \* entries vfs_create_default fills with files (1..3)
  Names,              \* what the user types as a name
  LongNames,          \* those that reach `rest'
  Cut,                \* those longer than an entry keeps
  Stored,             \* name -> the name as kept in an entry
  Texts, LongTexts,   \* what the user writes; the texts that reach `back'
  ReadFails           \* the disk may fail to answer during the boot

ASSUME VfsAssumption ==
  /\ VFS_MAX_ENTRIES \in Nat \ {0}
  /\ VFS_DATA_SECTORS \in Nat \ {0}
  /\ First \in [0..(VFS_MAX_ENTRIES - 1) -> 0..(VFS_DATA_SECTORS - 1)]
  /\ Text \in [0..(VFS_MAX_ENTRIES - 1) -> 0..(VFS_DATA_SECTORS - 1)]
  /\ Last \in [0..(VFS_MAX_ENTRIES - 1) -> 0..(VFS_DATA_SECTORS - 1)]
  /\ \A i \in 0..(VFS_MAX_ENTRIES - 1) : First[i] <= Text[i] /\ Text[i] <= Last[i]
  /\ First[0] = 0
  /\ DefaultFiles \subseteq 1..(VFS_MAX_ENTRIES - 1) /\ DefaultFiles \subseteq 1..3
  /\ Cut \subseteq LongNames /\ LongNames \subseteq Names
  /\ Stored \in [Names -> [name : STRING, rest : STRING]]
  /\ \A n \in LongNames, m \in Names \ LongNames : Stored[n].name # Stored[m].name
  /\ LongTexts \subseteq Texts
  /\ ReadFails \in BOOLEAN

Slots  == 0..(VFS_MAX_ENTRIES - 1)
None   == -1
Header == -1                  \* `sector' before the header sector is written

Blank == [used |-> FALSE, is_dir |-> FALSE, parent |-> 0,
          name |-> "", rest |-> "", front |-> "", back |-> ""]

(* used = 0.  Nothing reads the metadata of an unused entry; the rest of   *)
(* its name and its text are kept, as a torn or short new one may uncover  *)
(* them.                                                                   *)
Freed(e) == [Blank EXCEPT !.rest = e.rest, !.front = e.front, !.back = e.back]

VARIABLES
  entries, current_dir,       \* memory
  disk,                       \* the entries as the data sectors hold them
  header,                     \* the header sector is valid
  drive_error,                \* ERR is set in the ATA status register
  pc,                         \* "off", "idle" (prompt) or "save" (in vfs_save)
  sector,                     \* the next sector vfs_save writes
  job,                        \* the command that is saving, its entry before
  saved                       \* the latest vfs_save (or vfs_load) succeeded

vars == <<entries, current_dir, disk, header, drive_error, pc, sector, job, saved>>

NoJob  == [index |-> None, old |-> Blank]

(* The machine is off; the disk image is new.                              *)
Init == /\ entries = [i \in Slots |-> Blank]
        /\ current_dir = 0
        /\ disk = [i \in Slots |-> Blank]
        /\ header = FALSE
        /\ drive_error = FALSE
        /\ pc = "off"
        /\ sector = Header
        /\ job = NoJob
        /\ saved = FALSE

IsFirst(i, S) == i \in S /\ \A j \in S : i <= j

(* An entry's name, as far as its terminator.                              *)
LongHeads == {Stored[n].name : n \in LongNames}

NameOf(e) == <<e.name, IF e.name \in LongHeads THEN e.rest ELSE "">>

(* vfs_find_child: the first entry of that parent and name, if any.        *)
Children(dir, n) ==
  {i \in Slots : /\ entries[i].used /\ entries[i].parent = dir
                 /\ n \notin Cut
                 /\ NameOf(entries[i]) = NameOf(Stored[n])}

Is(i, dir, n) == IsFirst(i, Children(dir, n))

FreeSlots == {i \in Slots : ~entries[i].used}

-----------------------------------------------------------------------------
(* A command returns without having saved.                                 *)
Returns == UNCHANGED <<entries, disk, header, drive_error, pc, sector, job, saved>>

(* A command has changed entry i and calls vfs_save.                       *)
Saves(i, new) ==
  /\ entries' = [entries EXCEPT ![i] = new]
  /\ job' = [index |-> i, old |-> entries[i]]
  /\ pc' = "save"
  /\ sector' = Header
  /\ UNCHANGED <<current_dir, disk, header, drive_error, saved>>

NotNames == {"", ".", ".."}

NewEntry(i, dir, n) ==
  [used |-> TRUE, is_dir |-> dir, parent |-> current_dir, name |-> Stored[n].name,
   rest |-> IF n \in LongNames THEN Stored[n].rest ELSE entries[i].rest,
   front |-> "", back |-> entries[i].back]

(* vfs_touch and vfs_mkdir differ in is_dir only.                          *)
Create(dir, n) ==
  \/ /\ n \in NotNames \/ (Children(current_dir, n) = {} /\ FreeSlots = {})
     /\ Returns
     /\ UNCHANGED current_dir
  \/ /\ n \notin NotNames /\ Children(current_dir, n) # {}
     /\ Returns
     /\ UNCHANGED current_dir
  \/ /\ n \notin NotNames /\ Children(current_dir, n) = {}
     /\ \E i \in FreeSlots :
          IsFirst(i, FreeSlots) /\ Saves(i, NewEntry(i, dir, n))

vfs_touch(n) == pc = "idle" /\ Create(FALSE, n)
vfs_mkdir(n) == pc = "idle" /\ Create(TRUE, n)

NoFile(n) == \A i \in Slots : Is(i, current_dir, n) => entries[i].is_dir

vfs_write(n, text) ==
  /\ pc = "idle"
  /\ \/ NoFile(n) /\ Returns /\ UNCHANGED current_dir
     \/ \E i \in Slots :
          /\ Is(i, current_dir, n)
          /\ ~entries[i].is_dir
          /\ Saves(i,
                   [entries[i] EXCEPT !.front = text,
                                      !.back = IF text \in LongTexts THEN text ELSE @])

vfs_remove(n) ==
  /\ pc = "idle"
  /\ \/ NoFile(n) /\ Returns /\ UNCHANGED current_dir
     \/ \E i \in Slots :
          /\ Is(i, current_dir, n)
          /\ ~entries[i].is_dir
          /\ Saves(i, Freed(entries[i]))

(* cd to the root, to the parent (the root has none), or to a child.       *)
vfs_cd(n) ==
  /\ pc = "idle"
  /\ \/ n = "/" /\ current_dir' = 0 /\ Returns
     \/ n = "." /\ UNCHANGED current_dir /\ Returns
     \/ /\ n = ".."
        /\ current_dir' = IF current_dir # 0 THEN entries[current_dir].parent ELSE 0
        /\ Returns
     \/ /\ n \notin {"/", ".", ".."}
        /\ \A i \in Slots : Is(i, current_dir, n) => ~entries[i].is_dir
        /\ UNCHANGED current_dir
        /\ Returns
     \/ /\ n \notin {"/", ".", ".."}
        /\ \E i \in Slots : /\ Is(i, current_dir, n)
                            /\ entries[i].is_dir
                            /\ current_dir' = i
        /\ Returns

-----------------------------------------------------------------------------
(* vfs_save: the header, then the data sectors in order.                   *)

(* The disk once sector s holds the image of the table in memory.          *)
(* Mutant: the rest of a name is never part of the image.                  *)
Written_NoRest(s) ==
  [e \in Slots |-> IF First[e] = s THEN [entries[e] EXCEPT !.rest = disk[e].rest]
                                   ELSE disk[e]]

Written(s) ==
  [e \in Slots |->
     [(IF First[e] = s THEN entries[e] ELSE disk[e])
        EXCEPT !.rest  = IF Text[e] = s THEN entries[e].rest  ELSE disk[e].rest,
               !.front = IF Text[e] = s THEN entries[e].front ELSE disk[e].front,
               !.back  = IF Last[e] = s THEN entries[e].back  ELSE disk[e].back]]

Lands == IF sector = Header
         THEN header' = TRUE /\ UNCHANGED disk
         ELSE disk' = Written(sector) /\ UNCHANGED header

(* Mutant: the loop stops one sector early.                                *)
LastSector_Early == VFS_DATA_SECTORS - 2

LastSector == VFS_DATA_SECTORS - 1

SaveSector ==
  /\ pc = "save"
  /\ ~drive_error
  /\ Lands
  /\ IF sector = LastSector
     THEN /\ pc' = "idle"
          /\ sector' = Header
          /\ job' = NoJob
          /\ saved' = TRUE
     ELSE sector' = sector + 1 /\ UNCHANGED <<pc, job, saved>>
  /\ UNCHANGED <<entries, current_dir, drive_error>>

(* Mutant: the caller of the failing save does not put its entry back.     *)
RolledBack_Not == entries

(* The table once the command whose save failed has put its entry back: a  *)
(* new entry is unused again, a written or removed one is as it was.       *)
RolledBack ==
  IF job.index = None THEN entries
  ELSE [entries EXCEPT ![job.index] = IF job.old.used THEN job.old ELSE Freed(@)]

(* disk_write_sector fails: before the drive took the sector or after (a   *)
(* late error or timeout), with ERR set or by a timeout.  Once ERR is set  *)
(* the driver never issues the command that would clear it, so every later *)
(* write fails at once.  The command rolls its entry back; the sectors     *)
(* already written stay.                                                   *)
SaveFails ==
  /\ pc = "save"
  /\ \/ ~drive_error /\ Lands
     \/ UNCHANGED <<disk, header>>
  /\ drive_error' \in {drive_error, TRUE}
  /\ entries' = RolledBack
  /\ saved' = FALSE
  /\ pc' = "idle"
  /\ sector' = Header
  /\ job' = NoJob
  /\ UNCHANGED current_dir

-----------------------------------------------------------------------------
(* Power failure, "reboot" or "shutdown": memory is gone.                  *)
PowerOff ==
  /\ pc # "off"
  /\ entries' = [i \in Slots |-> Blank]
  /\ current_dir' = 0
  /\ drive_error' = FALSE
  /\ pc' = "off"
  /\ sector' = Header
  /\ job' = NoJob
  /\ saved' = FALSE
  /\ UNCHANGED <<disk, header>>

(* Mutant: the check looks at the entry after the root.                    *)
FsOnDisk_WrongEntry == header /\ disk[1].used

(* What vfs_load accepts.                                                  *)
FsOnDisk == header /\ disk[0].used /\ disk[0].is_dir

vfs_load ==
  /\ pc = "off"
  /\ FsOnDisk
  /\ entries' = disk
  /\ current_dir' = 0
  /\ pc' = "idle"
  /\ saved' = TRUE
  /\ UNCHANGED <<disk, header, drive_error, sector, job>>

FileName(i) == IF i = 1 THEN "readme.txt" ELSE IF i = 2 THEN "hello.txt" ELSE "system.txt"

DefaultTable ==
  [i \in Slots |->
     IF i = 0 THEN [Blank EXCEPT !.used = TRUE, !.is_dir = TRUE, !.parent = None, !.name = "/"]
     ELSE IF i \in DefaultFiles
          THEN [Blank EXCEPT !.used = TRUE, !.name = FileName(i), !.front = "default"]
          ELSE Blank]

(* vfs_init without a file system to load: none on the disk, or the disk   *)
(* did not answer (with ERR set, or by a timeout).                         *)
vfs_create_default ==
  /\ pc = "off"
  /\ \/ ~FsOnDisk /\ drive_error' = drive_error
     \/ ReadFails /\ drive_error' \in BOOLEAN
  /\ entries' = DefaultTable
  /\ current_dir' = 0
  /\ pc' = "save"
  /\ sector' = Header
  /\ job' = NoJob
  /\ UNCHANGED <<disk, header, saved>>

Command ==
  \/ \E n \in Names : vfs_touch(n) \/ vfs_mkdir(n) \/ vfs_remove(n)
  \/ \E n \in Names, text \in Texts : vfs_write(n, text)
  \/ \E n \in Names \cup {"/", ".", ".."} : vfs_cd(n)

Next == \/ Command
        \/ SaveSector \/ SaveFails
        \/ PowerOff \/ vfs_load \/ vfs_create_default

Spec == Init /\ [][Next]_vars

-----------------------------------------------------------------------------
Texts0  == Texts \cup {"", "default"}
Heads   == {"", "/", "readme.txt", "hello.txt", "system.txt"} \cup {Stored[n].name : n \in Names}
Tails   == {""} \cup {Stored[n].rest : n \in Names}
Entry   == [used : BOOLEAN, is_dir : BOOLEAN, parent : Slots \cup {None},
            name : Heads, rest : Tails, front : Texts0, back : Texts0]
Sectors == Header..LastSector

(* Types of the file system's state.                                       *)
TypeOK ==
  /\ entries \in [Slots -> Entry] /\ disk \in [Slots -> Entry]
  /\ current_dir \in Slots
  /\ header \in BOOLEAN /\ drive_error \in BOOLEAN
  /\ pc \in {"off", "idle", "save"}
  /\ sector \in Sectors
  /\ job \in [index : Slots \cup {None}, old : Entry]
  /\ saved \in BOOLEAN

(* The climb of vfs_pwd from any of these entries ends in the loop's bound.*)
ClimbsForever(S) == S # {} /\ \A i \in S : entries[i].used /\ entries[i].parent \in S

(* While the machine runs the table is one tree: the root is a directory,  *)
(* every file and directory hangs off a directory that exists, and the     *)
(* climb of vfs_pwd and "cd .." ends at the root.  This has to survive     *)
(* failed saves (memory is rolled back, the disk is not) and a power       *)
(* failure between two sectors, after which the torn table is loaded.      *)
TreeOK ==
  pc # "off" =>
    /\ entries[0].used /\ entries[0].is_dir
    /\ entries[current_dir].used /\ entries[current_dir].is_dir
    /\ \A i \in Slots \ {0} :
         entries[i].used => /\ entries[i].parent \in Slots
                            /\ entries[entries[i].parent].used
                            /\ entries[entries[i].parent].is_dir
    /\ \A S \in SUBSET (Slots \ {0}) : ~ClimbsForever(S)

(* Everything vfs.c assumes of its tables when a command begins.           *)
TableOK == TypeOK /\ TreeOK

(* A name that is written in two pieces.                                   *)
Split(i) == First[i] # Text[i] /\ entries[i].name \in LongHeads

(* The end of its name was lost when it was stored.                        *)
CutShort(i) == \E n \in Cut : NameOf(entries[i]) = NameOf(Stored[n])

(* Two used entries of one directory never have the same name, so a file   *)
(* vfs_find_child finds is the only one: after failed saves the disk holds *)
(* entries memory has taken back, and a later boot may load them.  Two     *)
(* kinds of name can come to be another's: one that is cut when stored,    *)
(* as vfs_touch does not find the first to make the second, and one on two *)
(* sectors, as a power failure between them leaves its first piece with    *)
(* the rest of the entry's old name.                                       *)
NoDuplicates ==
  pc # "off" =>
    \A i, j \in Slots \ {0} :
      /\ entries[i].used /\ entries[j].used
      /\ entries[i].parent = entries[j].parent
      /\ NameOf(entries[i]) = NameOf(entries[j])
      => i = j \/ Split(i) \/ Split(j) \/ CutShort(i)

(* After a vfs_save that returned 1 the disk holds the table of memory,    *)
(* through every later command that only reads.                            *)
Durable == pc = "idle" /\ saved => header /\ disk = entries

(* While a command saves, after a successful save, only its own entry is   *)
(* at risk, and only past its first sector: on the disk is the old entry   *)
(* or the new metadata and (beginning of the) name, with the rest of the   *)
(* name and the beginning and the end of the text each either old or new.  *)
OneEntryAtRisk ==
  pc = "save" /\ saved =>
    \A i \in Slots :
      IF i # job.index THEN disk[i] = entries[i]
      ELSE \/ disk[i] = job.old
           \/ /\ disk[i].rest \in {job.old.rest, entries[i].rest}
              /\ disk[i].front \in {job.old.front, entries[i].front}
              /\ disk[i].back \in {job.old.back, entries[i].back}
              /\ [disk[i] EXCEPT !.rest = entries[i].rest, !.front = entries[i].front,
                                 !.back = entries[i].back] = entries[i]
=============================================================================
