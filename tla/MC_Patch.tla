------------------------------ MODULE MC_Patch ------------------------------
(* The patches of the program on launchers put together from up to four     *)
(* blocks: the code the patterns look for, two of them sharing a byte, code  *)
(* that is patched already, and the beginning of a pattern.                 *)
EXTENDS Patch, PatchData

MCByte   == 0 .. 255
Patched  == patchRegionPatch
Joined   == patternLangMaskPatch \o Tail(patternFilterPatch)
Begun    == SubSeq(patternLangMaskPatch, 1, 2)
Block    == {patternLangMaskPatch, patternFilterPatch, patternRegionPatch,
             Joined, Patched, Begun}
MCImages == {a \o b \o c \o d : a \in Block \cup {<<>>}, b \in Block, c \in Block, d \in Block}
MCKey    == [up : BOOLEAN, down : BOOLEAN, a : BOOLEAN]

(* The patches of the program do not disturb each other, wherever in a      *)
(* launcher they lie.                                                       *)
ASSUME CompatibleAssumption == PatchesCompatible
=============================================================================
