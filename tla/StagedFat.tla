------------------------------ MODULE StagedFat ------------------------------
(***************************************************************************)
(* What nandio.c:196-200 promises about the copies of a FAT: work is done  *)
(* on the first copy only, and only a run that finished pushes it to the   *)
(* other copies, sector by sector.  A run that stops early leaves a backup *)
(* from which the FAT can be restored; one that stops while it pushes      *)
(* leaves in every sector of a backup the old content or the pushed one.   *)
(***************************************************************************)
CONSTANTS Places,  \* sectors of one copy
          Copies   \* the copies besides the first

VARIABLES primary,  \* [Places -> content]
          backup,   \* [Copies -> [Places -> content]]
          phase     \* "rest", "work" or "commit"

vars == <<primary, backup, phase>>

Init == phase = "rest"

Begin == phase = "rest" /\ phase' = "work" /\ UNCHANGED <<primary, backup>>

Work == phase = "work" /\ phase' = "work" /\ UNCHANGED backup

Decide == phase = "work" /\ phase' = "commit" /\ UNCHANGED <<primary, backup>>

Push == /\ phase = "commit"
        /\ \E k \in Copies, x \in Places :
             backup' = [backup EXCEPT ![k][x] = primary[x]]
        /\ UNCHANGED <<primary, phase>>

Finish == /\ phase = "commit"
          /\ \A k \in Copies : backup[k] = primary
          /\ phase' = "rest"
          /\ UNCHANGED <<primary, backup>>

(* A sector on its way to the chip may or may not get there.               *)
Abandon == phase # "rest" /\ phase' = "rest" /\ UNCHANGED backup
           /\ (phase = "commit" => UNCHANGED primary)

Next == Begin \/ Work \/ Decide \/ Push \/ Finish \/ Abandon

Spec == Init /\ [][Next]_vars
=============================================================================
