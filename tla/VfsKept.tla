------------------------------ MODULE VfsKept ------------------------------
(***************************************************************************)
(* The file system and what the user has been told of it: kept[i] is the   *)
(* entry the latest command on i saved and reported done, until a command  *)
(* names it again; Blank if there is none.  It observes the file system    *)
(* and does not act on it.                                                 *)
(***************************************************************************)
EXTENDS Vfs

VARIABLE kept

keptVars == <<vars, kept>>

KeptInit == Init /\ kept = [i \in Slots |-> Blank]

(* The file that write or rm of n is about, if any.                        *)
Named(n) == {i \in Slots : Is(i, current_dir, n) /\ ~entries[i].is_dir}

(* From here until the command returns its file may be the old one, the    *)
(* new one or a mixture; if it fails, so it stays.                         *)
Withdrawn(n) == [i \in Slots |-> IF i \in Named(n) THEN Blank ELSE kept[i]]

(* The save of the command succeeds: "File created", "File written", ...   *)
Reported ==
  IF pc' = "idle" /\ job.index # None
  THEN [kept EXCEPT ![job.index] = entries[job.index]]
  ELSE kept

KeptNext ==
  \/ \E n \in Names : (vfs_touch(n) \/ vfs_mkdir(n)) /\ UNCHANGED kept
  \/ \E n \in Names : vfs_remove(n) /\ kept' = Withdrawn(n)
  \/ \E n \in Names, text \in Texts : vfs_write(n, text) /\ kept' = Withdrawn(n)
  \/ \E n \in Names \cup {"/", ".", ".."} : vfs_cd(n) /\ UNCHANGED kept
  \/ SaveSector /\ kept' = Reported
  \/ (SaveFails \/ PowerOff \/ vfs_load \/ vfs_create_default) /\ UNCHANGED kept

KeptSpec == KeptInit /\ [][KeptNext]_keptVars

-----------------------------------------------------------------------------
(* "preserve it to retain filesystem data across restarts" (README.md:286):*)
(* a file that was reported saved stays on the disk until a command names  *)
(* it.  The code refutes this when the disk does not answer at a boot.     *)
FilesRetained ==
  \A i \in Slots : kept[i].used /\ ~kept[i].is_dir => disk[i] = kept[i]

(* With a disk that answers at boot: a file or directory that was reported *)
(* saved is whole on the disk, under a root vfs_load accepts, and in       *)
(* memory while the machine runs, until a command names it.  Other         *)
(* commands do not harm it, be they cut short by a power failure, failed   *)
(* and rolled back, or run after a boot from what those have left.         *)
KeptOnDisk ==
  \A i \in Slots : kept[i].used =>
    FsOnDisk /\ disk[i] = kept[i] /\ (pc # "off" => entries[i] = kept[i])
=============================================================================
