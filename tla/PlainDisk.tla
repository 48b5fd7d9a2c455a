------------------------------ MODULE PlainDisk ------------------------------
(***************************************************************************)
(* What nandio.c promises libfat: a disk of plain sectors.                 *)
(*                                                                         *)
(* A read or write call moves the sectors of its range in ascending order, *)
(* in one or more portions.  It returns TRUE only after the last one was   *)
(* moved; when it returns FALSE some prefix of the range was moved.        *)
(* Nothing but a write call, and the merge that nandio_shutdown() runs,    *)
(* changes the disk, and the merge changes backup sectors only.  Power may *)
(* be lost at any moment.  How the sectors are encrypted on the chip, in   *)
(* which portions they move and through which buffer is NandIO's business. *)
(***************************************************************************)
EXTENDS Integers

CONSTANTS
  Sectors,      \* sector numbers of the disk, 0 .. N-1
  Disks,        \* the disks the system may find
  BootSector,   \* the only sector a read may return with a repaired signature
  Repaired(_),  \* its content with the FAT signature in place
  Backups       \* the sectors of the FAT copies after the first

VARIABLES
  disk,    \* the plain content of every sector
  op,      \* "off", "none" or the operation under way: "read", "write", "merge"
  range,   \* its first sector and its number of sectors
  buffer,  \* the caller's buffer
  moved,   \* how many sectors of the range were moved so far
  ret      \* what the last call returned

vars == <<disk, op, range, buffer, moved, ret>>

(* A read delivers what is stored, or the repaired boot sector.            *)
Images(s) == {disk[s]} \cup (IF s = BootSector THEN {Repaired(disk[s])} ELSE {})

(* The portion of n further sectors, seen by the caller and on the disk.   *)
Portion(n) == (moved + 1) .. (moved + n)

OnDisk(n) == \A i \in Portion(n) : range.offset + i - 1 \in Sectors

(* The disk once n further sectors of a write are stored.                  *)
Stored(n) == [s \in Sectors |-> IF s - range.offset + 1 \in Portion(n)
                                THEN buffer[s - range.offset + 1] ELSE disk[s]]

ReadPortion(n) ==
  /\ op = "read"
  /\ DOMAIN buffer' = DOMAIN buffer
  /\ \A i \in DOMAIN buffer :
       IF i \in Portion(n) THEN buffer'[i] \in Images(range.offset + i - 1)
                           ELSE buffer'[i] = buffer[i]
  /\ UNCHANGED disk

WritePortion(n) ==
  /\ op = "write"
  /\ disk' = Stored(n)
  /\ UNCHANGED buffer

Move   == /\ \E n \in 1 .. (range.len - moved) :
               OnDisk(n) /\ (ReadPortion(n) \/ WritePortion(n)) /\ moved' = moved + n
          /\ UNCHANGED <<op, range, ret>>
Finish == /\ op \in {"read", "write"} /\ moved = range.len
          /\ op' = "none" /\ ret' = TRUE
          /\ UNCHANGED <<disk, range, buffer, moved>>
Fail   == /\ \/ op = "read" /\ UNCHANGED <<disk, buffer>>
             \/ \E n \in 0 .. (range.len - moved) : WritePortion(n)
          /\ op' = "none" /\ ret' = FALSE
          /\ UNCHANGED <<range, moved>>

PowerOn == /\ op = "off" /\ op' \in {"off", "none"}
           /\ UNCHANGED <<disk, range, buffer, moved>>
Call    == /\ op = "none" /\ op' \in {"read", "write"} /\ moved' = 0
           /\ UNCHANGED <<disk, ret>>

(* nandio_shutdown: only the backup FAT copies are brought up to date.     *)
MergeStart == op = "none" /\ op' = "merge" /\ UNCHANGED <<disk, range, buffer, moved, ret>>
MergeStep  == /\ op = "merge"
              /\ \A s \in Sectors \ Backups : disk'[s] = disk[s]
              /\ DOMAIN disk' = Sectors
              /\ UNCHANGED <<op, range, buffer, moved, ret>>
MergeEnd   == /\ op = "merge" /\ op' = "off" /\ ret' = TRUE
              /\ UNCHANGED <<disk, range, buffer, moved>>

PowerLoss == /\ \/ UNCHANGED disk
                \/ op = "write" /\ \E n \in 1 .. (range.len - moved) : disk' = Stored(n)
             /\ op' = "off"

Init == disk \in Disks /\ op = "off"
Next == \/ Move \/ Finish \/ Fail \/ PowerOn \/ Call
        \/ MergeStart \/ MergeStep \/ MergeEnd \/ PowerLoss
Spec == Init /\ [][Next]_vars
=============================================================================
